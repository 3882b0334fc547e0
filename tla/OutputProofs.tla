---------------------------- MODULE OutputProofs ----------------------------
(***************************************************************************)
(* Proofs about Output: on POSIX, and on Windows where output goes to a    *)
(* file or a pipe, bytes arrive once and in order, a success is complete,  *)
(* and a failure quiet, whatever the sizes of the buffers and of the       *)
(* texts, and whatever write() takes at a time.                            *)
(***************************************************************************)
EXTENDS Output, SequenceTheorems, WellFoundedInduction, TLAPS

\* The platforms that write all bytes as they are, or say that they failed.
Files == {"posix", "windows"}

\* The platforms that write bytes as they are.
Plain == Files \cup {"wasm"}

\* What os_write() has still to write to b.
Unwritten(b) == IF writing.to = b THEN writing.data ELSE <<>>

\* All that was printed to b, as far as nothing was lost.
Sent(b) == (fds[b] \o Unwritten(b)) \o buf[b]

\* The parts of what was printed to b.
Results(b)  == IF b = "out" THEN Bytes("out", 1, printed["out"]) ELSE <<>>
Messages(b) == IF b = BufferOf("err") THEN Bytes("err", 1, printed["err"]) ELSE <<>>

\* The message is printed last.
MessageLast ==
  /\ \A i \in DOMAIN calls : calls[i].stream = "err" => i = Len(calls)
  /\ printed["err"] > 0 => \A i \in DOMAIN calls : calls[i].stream = "err"

\* What arrived is what was printed first.
Begun(b) == \E lost \in Seq(Item) : fds[b] \o lost = Everything(b)

\* Nothing is lost, repeated or moved; of what is lost, nothing follows,
\* except on WASI.
AllThere ==
  \A b \in Stream :
    IF b \notin broken THEN Sent(b) = Everything(b)
    ELSE input.platform \in Files => Begun(b)

OutputInv == TypeOK /\ MessageLast /\ AllThere

-----------------------------------------------------------------------------
\* The sequence x consists of the bytes of a stream from m on.
From(x, s, m) ==
  /\ x \in Seq(Item)
  /\ \A k \in 1 .. Len(x) : x[k] = [stream |-> s, byte |-> m + k - 1]

LEMMA BytesType ==
  ASSUME NEW s \in Stream, NEW m \in Nat, NEW n \in Nat, m <= n + 1
  PROVE  From(Bytes(s, m, n), s, m) /\ Len(Bytes(s, m, n)) = n - m + 1
<1>1. n - m + 1 \in Nat
  OBVIOUS
<1>2. \A k \in 1 .. n - m + 1 : [stream |-> s, byte |-> m + k - 1] \in Item
  BY DEF Item
<1> QED
  BY <1>1, <1>2 DEF Bytes, From

\* Bytes that follow one another.
LEMMA FromConcat ==
  ASSUME NEW s \in Stream, NEW m \in Nat, NEW x, NEW y,
         From(x, s, m), From(y, s, m + Len(x))
  PROVE  From(x \o y, s, m) /\ Len(x \o y) = Len(x) + Len(y)
<1>1. x \in Seq(Item) /\ y \in Seq(Item) /\ Len(x) \in Nat /\ Len(y) \in Nat
  BY DEF From
<1>2. x \o y \in Seq(Item) /\ Len(x \o y) = Len(x) + Len(y)
  BY <1>1
<1>3. \A k \in 1 .. Len(x \o y) : (x \o y)[k] = [stream |-> s, byte |-> m + k - 1]
  <2> SUFFICES ASSUME NEW k \in 1 .. Len(x) + Len(y)
               PROVE  (x \o y)[k] = [stream |-> s, byte |-> m + k - 1]
    BY <1>2
  <2>1. CASE k <= Len(x)
    <3>1. (x \o y)[k] = x[k] /\ k \in 1 .. Len(x)
      BY <1>1, <2>1
    <3> QED
      BY <3>1 DEF From
  <2>2. CASE k > Len(x)
    <3>1. (x \o y)[k] = y[k - Len(x)] /\ k - Len(x) \in 1 .. Len(y)
      BY <1>1, <2>2
    <3>2. m + Len(x) + (k - Len(x)) - 1 = m + k - 1
      BY <1>1
    <3> QED
      BY <3>1, <3>2 DEF From
  <2> QED
    BY <1>1, <2>1, <2>2
<1> QED
  BY <1>2, <1>3 DEF From

LEMMA FromEqual ==
  ASSUME NEW s, NEW m, NEW x, NEW y, From(x, s, m), From(y, s, m), Len(x) = Len(y)
  PROVE  x = y
<1>1. x \in Seq(Item) /\ y \in Seq(Item) /\ \A i \in 1 .. Len(x) : x[i] = y[i]
  BY DEF From
<1> QED
  BY <1>1, SeqEqual

LEMMA BytesConcat ==
  ASSUME NEW s \in Stream, NEW m \in Nat, NEW n \in Nat, m <= n
  PROVE  Bytes(s, 1, m) \o Bytes(s, m + 1, n) = Bytes(s, 1, n)
<1> DEFINE x == Bytes(s, 1, m)
           y == Bytes(s, m + 1, n)
           z == Bytes(s, 1, n)
<1>1. From(x, s, 1) /\ Len(x) = m
  <2>1. 1 <= m + 1 /\ m - 1 + 1 = m /\ 1 \in Nat
    OBVIOUS
  <2> QED
    BY <2>1, BytesType
<1>2. From(y, s, m + 1) /\ Len(y) = n - m
  <2>1. m + 1 <= n + 1 /\ n - (m + 1) + 1 = n - m /\ m + 1 \in Nat
    OBVIOUS
  <2> QED
    BY <2>1, BytesType
<1>3. From(z, s, 1) /\ Len(z) = n
  <2>1. 1 <= n + 1 /\ n - 1 + 1 = n /\ 1 \in Nat
    OBVIOUS
  <2> QED
    BY <2>1, BytesType
<1> HIDE DEF x, y, z
<1>4. From(y, s, 1 + Len(x))
  <2>1. 1 + Len(x) = m + 1
    BY <1>1
  <2> QED
    BY <1>2, <2>1
<1>5. From(x \o y, s, 1) /\ Len(x \o y) = Len(x) + Len(y)
  BY <1>1, <1>4, FromConcat
<1>6. Len(x \o y) = Len(z)
  BY <1>1, <1>2, <1>3, <1>5
<1>7. x \o y = z
  BY <1>3, <1>5, <1>6, FromEqual
<1> QED
  BY <1>7 DEF x, y, z

-----------------------------------------------------------------------------
LEMMA Types ==
  ASSUME TypeOK, NEW b \in Stream
  PROVE  /\ fds[b] \in Seq(Item) /\ buf[b] \in Seq(Item) /\ Unwritten(b) \in Seq(Item)
         /\ printed[b] \in Nat
         /\ CapOf(b) \in Nat \ {0}
         /\ Computing => Unwritten(b) = <<>>
<1>1. fds[b] \in Seq(Item) /\ buf[b] \in Seq(Item) /\ printed[b] \in Nat
  BY DEF TypeOK
<1>2. CapOf(b) \in Nat \ {0}
  BY CapAssumption DEF CapOf
<1>3. Computing => Unwritten(b) = <<>>
  BY DEF Computing, Nowhere, Unwritten, Stream
<1>4. Unwritten(b) \in Seq(Item)
  <2>1. CASE Computing
    BY <1>3, <2>1
  <2>2. CASE ~Computing
    <3>1. writing.data \in Seq(Item)
      BY <2>2 DEF TypeOK, Computing
    <3> QED
      BY <3>1 DEF Unwritten
  <2> QED
    BY <2>1, <2>2
<1> QED
  BY <1>1, <1>2, <1>3, <1>4

LEMMA EverythingParts ==
  ASSUME TypeOK, NEW b \in Stream
  PROVE  /\ Everything(b) = Results(b) \o Messages(b)
         /\ Results(b) \in Seq(Item) /\ Messages(b) \in Seq(Item)
         /\ Everything(b) \in Seq(Item)
<1>1. "out" \in Stream /\ "err" \in Stream
  BY DEF Stream
<1>2. \A s \in Stream : Bytes(s, 1, printed[s]) \in Seq(Item)
  <2> SUFFICES ASSUME NEW s \in Stream PROVE Bytes(s, 1, printed[s]) \in Seq(Item)
    OBVIOUS
  <2>1. printed[s] \in Nat /\ 1 \in Nat /\ 1 <= printed[s] + 1
    BY Types
  <2> QED
    BY <2>1, BytesType DEF From
<1>3. Results(b) \in Seq(Item) /\ Messages(b) \in Seq(Item)
  BY <1>1, <1>2 DEF Results, Messages
<1>4. Everything(b) = Results(b) \o Messages(b)
  BY DEF Everything, Results, Messages
<1> QED
  BY <1>3, <1>4

LEMMA Appended ==
  ASSUME NEW x \in Seq(Item), NEW y \in Seq(Item), NEW z \in Seq(Item)
  PROVE  x \o (y \o z) = (x \o y) \o z
BY ConcatAssociative, SMTT(30)

\* The same with nothing in between.
LEMMA AppendedInBuffer ==
  ASSUME NEW x \in Seq(Item), NEW y \in Seq(Item), NEW z \in Seq(Item)
  PROVE  (x \o <<>>) \o (y \o z) = ((x \o <<>>) \o y) \o z
<1>1. x \o (y \o z) = (x \o y) \o z
  BY Appended, Zenon
<1>2. x \o <<>> = x
  BY ConcatEmptySeq
<1> QED
  BY <1>1, <1>2

LEMMA AppendedInWriting ==
  ASSUME NEW x \in Seq(Item), NEW y \in Seq(Item), NEW z \in Seq(Item)
  PROVE  (x \o (y \o z)) \o <<>> = ((x \o <<>>) \o y) \o z
<1>1. x \o (y \o z) = (x \o y) \o z
  BY Appended, Zenon
<1>2. x \o <<>> = x /\ (x \o (y \o z)) \o <<>> = x \o (y \o z)
  <2>1. x \o (y \o z) \in Seq(Item)
    OBVIOUS
  <2> QED
    BY <2>1, ConcatEmptySeq
<1> QED
  BY <1>1, <1>2

LEMMA WritingAsBuffer ==
  ASSUME NEW x \in Seq(Item), NEW y \in Seq(Item)
  PROVE  (x \o y) \o <<>> = (x \o <<>>) \o y
<1>1. x \o y \in Seq(Item)
  OBVIOUS
<1>2. x \o <<>> = x /\ (x \o y) \o <<>> = x \o y
  BY <1>1, ConcatEmptySeq
<1> QED
  BY <1>2

\* What prints8() copies is appended to what was printed to its buffer.
LEMMA EverythingGrows ==
  ASSUME TypeOK, TypeOK', MessageLast, input' = input,
         NEW s \in Stream, calls # <<>>, s = Head(calls).stream,
         NEW last \in Nat, printed[s] <= last,
         printed' = [printed EXCEPT ![s] = last],
         NEW b \in Stream
  PROVE  Everything(b)' = IF b = BufferOf(s)
                          THEN Everything(b) \o Bytes(s, printed[s] + 1, last)
                          ELSE Everything(b)
<1> DEFINE new == Bytes(s, printed[s] + 1, last)
<1>1. /\ Everything(b) = Results(b) \o Messages(b)
      /\ Results(b) \in Seq(Item) /\ Messages(b) \in Seq(Item)
      /\ Everything(b) \in Seq(Item)
  BY EverythingParts
<1>2. Everything(b)' = Results(b)' \o Messages(b)'
  BY DEF Everything, Results, Messages
<1>3. printed[s] \in Nat /\ printed'[s] = last
      /\ \A r \in Stream \ {s} : printed'[r] = printed[r]
  BY DEF TypeOK
<1>4. new \in Seq(Item)
  <2>1. printed[s] + 1 \in Nat /\ printed[s] + 1 <= last + 1
    BY <1>3
  <2> QED
    BY <2>1, BytesType DEF From
<1>5. Bytes(s, 1, last) = Bytes(s, 1, printed[s]) \o new
  BY <1>3, BytesConcat
<1> HIDE DEF new
<1>6. CASE s = "out"
  <2>1. BufferOf(s) = "out"
    BY <1>6 DEF BufferOf
  <2>2. printed["err"] = 0 /\ printed'["err"] = 0
    <3>1. calls[1] = Head(calls) /\ 1 \in DOMAIN calls
      BY DEF TypeOK
    <3>2. ~(printed["err"] > 0)
      BY <1>6, <3>1 DEF MessageLast
    <3>3. "err" \in Stream /\ "err" # s
      BY <1>6 DEF Stream
    <3>4. printed["err"] \in Nat
      BY <3>3, Types
    <3> QED
      BY <1>3, <3>2, <3>3, <3>4
  <2>3. Messages(b) = <<>> /\ Messages(b)' = <<>>
    BY <2>2 DEF Messages, Bytes
  <2>4. Everything(b) = Results(b)
    BY <1>1, <2>3
  <2>5. CASE b = "out"
    <3>1. Results(b) = Bytes(s, 1, printed[s]) /\ Results(b)' = Bytes(s, 1, last)
      BY <1>3, <1>6, <2>5 DEF Results, Bytes
    <3>2. Results(b)' = Results(b) \o new
      BY <1>5, <3>1
    <3>3. Results(b) \o new \in Seq(Item)
      BY <1>1, <1>4
    <3>4. Everything(b)' = Results(b) \o new
      BY <1>2, <2>3, <3>2, <3>3
    <3> QED
      BY <2>1, <2>4, <2>5, <3>4 DEF new
  <2>6. CASE b # "out"
    <3>1. Results(b) = <<>> /\ Results(b)' = <<>>
      BY <2>6 DEF Results
    <3>2. Everything(b)' = Everything(b)
      BY <1>1, <1>2, <2>3, <3>1
    <3> QED
      BY <2>1, <2>6, <3>2
  <2> QED
    BY <2>5, <2>6
<1>7. CASE s = "err"
  <2>1. Results(b)' = Results(b)
    <3>1. "out" \in Stream \ {s}
      BY <1>7 DEF Stream
    <3> QED
      BY <1>3, <3>1 DEF Results, Bytes
  <2>2. CASE b = BufferOf(s)
    <3>1. Messages(b) = Bytes(s, 1, printed[s]) /\ Messages(b)' = Bytes(s, 1, last)
      BY <1>3, <1>7, <2>2 DEF Messages, BufferOf, Bytes
    <3>2. Messages(b)' = Messages(b) \o new
      BY <1>5, <3>1
    <3>3. Everything(b)' = Results(b) \o (Messages(b) \o new)
      BY <1>2, <2>1, <3>2
    <3>4. Everything(b)' = (Results(b) \o Messages(b)) \o new
      <4>1. Results(b) \o (Messages(b) \o new) = (Results(b) \o Messages(b)) \o new
        BY <1>1, <1>4, Appended, Zenon
      <4> QED
        BY <3>3, <4>1
    <3> QED
      BY <1>1, <2>2, <3>4 DEF new
  <2>3. CASE b # BufferOf(s)
    <3>1. Messages(b) = <<>> /\ Messages(b)' = <<>>
      BY <1>7, <2>3 DEF Messages, BufferOf
    <3> QED
      BY <1>1, <1>2, <2>1, <2>3, <3>1
  <2> QED
    BY <2>2, <2>3
<1> QED
  BY <1>6, <1>7 DEF Stream

-----------------------------------------------------------------------------
LEMMA EverythingSame ==
  ASSUME UNCHANGED <<input, printed>>, NEW b
  PROVE  Everything(b)' = Everything(b)
BY DEF Everything, Bytes, BufferOf

\* What is handed to os_write() is what is then unwritten.
LEMMA HandedOver ==
  ASSUME NEW d \in Stream, NEW contents \in Seq(Item), writing' = Handed(d, contents),
         NEW b \in Stream
  PROVE  /\ Unwritten(b)' = IF b = d THEN contents ELSE <<>>
         /\ writing' = Nowhere
            \/ (writing'.to \in Stream /\ writing'.data \in Seq(Item) \ {<<>>})
<1>1. "none" \notin Stream
  BY DEF Stream
<1>2. CASE contents = <<>>
  BY <1>1, <1>2 DEF Handed, Nowhere, Unwritten
<1>3. CASE contents # <<>>
  BY <1>3 DEF Handed, Unwritten
<1> QED
  BY <1>2, <1>3

LEMMA InitInv == Init => OutputInv
<1> SUFFICES ASSUME Init PROVE OutputInv
  OBVIOUS
<1> DEFINE Call == [stream : Stream, len : Nat]
           results == [i \in DOMAIN input.prints |->
                         [stream |-> "out", len |-> input.prints[i]]]
           last == <<[stream |-> "err", len |-> input.message]>>
<1>1. input \in Input
  BY InputsAssumption DEF Init
<1>2. results \in Seq(Call) /\ last \in Seq(Call) /\ Len(last) = 1
  <2>1. input.prints \in Seq(Nat) /\ input.message \in Nat
    BY <1>1 DEF Input
  <2>2. [stream |-> "err", len |-> input.message] \in Call
    BY <2>1 DEF Stream
  <2>3. \A i \in 1 .. Len(input.prints) : [stream |-> "out", len |-> input.prints[i]] \in Call
    BY <2>1 DEF Stream
  <2>4. results \in Seq(Call)
    <3>1. DOMAIN input.prints = 1 .. Len(input.prints) /\ Len(input.prints) \in Nat
      BY <2>1
    <3> HIDE DEF Call
    <3> QED
      BY <2>3, <3>1
  <2> QED
    BY <2>2, <2>4
<1>3. calls = results \o last
  BY DEF Init
<1>4. calls \in Seq(Call)
  BY <1>2, <1>3
<1>5. TypeOK
  BY <1>1, <1>4, CapAssumption DEF Init, TypeOK, Stream, CapOf
<1>6. MessageLast
  <2>1. printed["err"] = 0
    BY DEF Init, Stream
  <2>2. ASSUME NEW i \in DOMAIN calls, i # Len(calls) PROVE calls[i].stream = "out"
    <3>1. i \in DOMAIN results /\ calls[i] = results[i]
      BY <1>2, <1>3, <2>2
    <3> QED
      BY <3>1
  <2> QED
    BY <2>1, <2>2 DEF MessageLast
<1>7. AllThere
  <2> SUFFICES ASSUME NEW b \in Stream PROVE Sent(b) = Everything(b)
    BY DEF AllThere, Init
  <2>1. Sent(b) = <<>>
    BY DEF Sent, Unwritten, Init, Nowhere, Stream
  <2>2. Everything(b) = <<>>
    BY DEF Everything, Bytes, Init, Stream
  <2> QED
    BY <2>1, <2>2
<1> QED
  BY <1>5, <1>6, <1>7 DEF OutputInv

-----------------------------------------------------------------------------
(***************************************************************************)
(* The steps of prints8() and flush().                                     *)
(***************************************************************************)
LEMMA CopyInv == OutputInv /\ Copy => OutputInv'
<1> SUFFICES ASSUME OutputInv, Copy PROVE OutputInv'
  OBVIOUS
<1>0. TypeOK /\ MessageLast /\ AllThere
  BY DEF OutputInv
<1> DEFINE Call  == [stream : Stream, len : Nat]
           call  == Head(calls)
           s     == call.stream
           d     == BufferOf(s)
           avail == CapOf(d) - Len(buf[d])
           count == IF avail < call.len THEN avail ELSE call.len
           last  == printed[s] + count
           new   == Bytes(s, printed[s] + 1, last)
           contents == buf[d] \o new
<1>1. /\ Computing /\ calls # <<>> /\ UNCHANGED <<input, fds, broken, status>>
      /\ printed' = [printed EXCEPT ![s] = last]
      /\ calls' = [calls EXCEPT ![1].len = @ - count]
      /\ IF Full(d, contents)
         THEN Flushed(d, contents)
         ELSE buf' = [buf EXCEPT ![d] = contents] /\ UNCHANGED writing
  BY DEF Copy
<1>2. /\ calls \in Seq(Call) /\ 1 \in 1 .. Len(calls) /\ call = calls[1]
      /\ s \in Stream /\ d \in Stream /\ call.len \in Nat /\ call \in Call
  <2>1. calls \in Seq(Call)
    BY <1>0 DEF TypeOK
  <2>2. 1 \in 1 .. Len(calls) /\ call = calls[1] /\ call \in Call
    <3>0. calls # <<>>
      BY <1>1
    <3> HIDE DEF Call
    <3>1. Len(calls) \in Nat \ {0}
      BY <2>1, <3>0
    <3>2. call = calls[1]
      BY <2>1, <3>0
    <3> QED
      BY <2>1, <3>1, <3>2
  <2>3. s \in Stream /\ call.len \in Nat
    BY <2>2
  <2>4. d \in Stream
    BY <2>3 DEF BufferOf, Stream
  <2> QED
    BY <2>1, <2>2, <2>3, <2>4
<1>3. /\ count \in Nat /\ count <= avail /\ count <= call.len
      /\ last \in Nat /\ printed[s] <= last /\ printed[s] \in Nat
      /\ Len(buf[d]) + count <= CapOf(d)
  <2>1. buf[d] \in Seq(Item) /\ printed[s] \in Nat /\ CapOf(d) \in Nat /\ Len(buf[d]) \in Nat
    BY <1>0, <1>2, Types, SMTT(30)
  <2>2. Len(buf[d]) < CapOf(d)
    BY <1>0, <1>2 DEF TypeOK
  <2>3. avail \in Nat /\ call.len \in Nat
    BY <1>2, <2>1, <2>2
  <2>4. count \in Nat /\ count <= avail /\ count <= call.len
    BY <2>3
  <2> HIDE DEF count
  <2> QED
    BY <2>1, <2>3, <2>4
<1> HIDE DEF call, s, d, avail, count, last
<1>4. new \in Seq(Item) /\ Len(new) = count
  <2>1. printed[s] + 1 \in Nat /\ printed[s] + 1 <= last + 1
        /\ last - (printed[s] + 1) + 1 = count
    BY <1>3 DEF last
  <2> QED
    BY <1>2, <1>3, <2>1, BytesType, ZenonT(30) DEF From
<1> HIDE DEF new
<1>5. contents \in Seq(Item) /\ Len(contents) = Len(buf[d]) + count
  <2>1. buf[d] \in Seq(Item)
    BY <1>0, <1>2, Types
  <2> QED
    BY <1>4, <2>1, SMTT(30)
<1>6. calls' \in Seq(Call) /\ Len(calls') = Len(calls)
      /\ \A i \in 1 .. Len(calls) : calls'[i].stream = calls[i].stream
  <2> DEFINE e == [calls[1] EXCEPT !.len = calls[1].len - count]
  <2>1. e \in Call /\ e.stream = calls[1].stream
    <3>1. calls[1] \in Call /\ calls[1].len - count \in Nat
      BY <1>2, <1>3
    <3> QED
      BY <3>1
  <2>2. calls' = [calls EXCEPT ![1] = e]
    BY <1>1
  <2> HIDE DEF e
  <2>3. calls' \in Seq(Call) /\ Len(calls') = Len(calls)
    BY <1>2, <2>1, <2>2
  <2>4. \A i \in 1 .. Len(calls) : calls'[i] = IF i = 1 THEN e ELSE calls[i]
    BY <1>2, <2>2
  <2> QED
    BY <2>1, <2>3, <2>4
<1>7. buf' \in [Stream -> Seq(Item)] /\ (\A b \in Stream : Len(buf'[b]) < CapOf(b))
      /\ (writing' = Nowhere
          \/ (writing'.to \in Stream /\ writing'.data \in Seq(Item) \ {<<>>}))
  <2>1. buf \in [Stream -> Seq(Item)] /\ \A b \in Stream : Len(buf[b]) < CapOf(b)
    BY <1>0 DEF TypeOK
  <2>2. CASE Full(d, contents)
    <3>1. buf' = [buf EXCEPT ![d] = <<>>] /\ writing' = Handed(d, contents)
      BY <1>1, <2>2 DEF Flushed
    <3>2. CapOf(d) > 0
      BY CapAssumption DEF CapOf
    <3>3. writing' = Nowhere
          \/ (writing'.to \in Stream /\ writing'.data \in Seq(Item) \ {<<>>})
      BY <1>2, <1>5, <3>1, HandedOver
    <3>4. buf' \in [Stream -> Seq(Item)] /\ \A b \in Stream : Len(buf'[b]) < CapOf(b)
      <4>1. <<>> \in Seq(Item) /\ Len(<<>>) = 0
        OBVIOUS
      <4> QED
        BY <1>2, <2>1, <3>1, <3>2, <4>1
    <3> HIDE DEF contents
    <3> QED
      BY <3>3, <3>4
  <2>3. CASE ~Full(d, contents)
    <3>1. buf' = [buf EXCEPT ![d] = contents] /\ writing' = Nowhere
      BY <1>1, <2>3 DEF Computing
    <3>2. CapOf(d) \in Nat /\ Len(buf[d]) \in Nat
      BY <1>0, <1>2, Types
    <3>3. Len(contents) < CapOf(d)
      BY <1>3, <1>5, <2>3, <3>2 DEF Full
    <3> HIDE DEF contents
    <3> QED
      BY <1>5, <2>1, <3>1, <3>3
  <2> QED
    BY <2>2, <2>3
<1>8. TypeOK'
  <2>1. printed' \in [Stream -> Nat]
    BY <1>0, <1>1, <1>3 DEF TypeOK
  <2> QED
    BY <1>0, <1>1, <1>6, <1>7, <2>1 DEF TypeOK, CapOf, Nowhere
<1>9. MessageLast'
  <2>1. DOMAIN calls' = 1 .. Len(calls) /\ DOMAIN calls = 1 .. Len(calls)
    BY <1>2, <1>6
  <2>2. \A i \in DOMAIN calls' : calls'[i].stream = "err" => i = Len(calls')
    BY <1>0, <1>6, <2>1 DEF MessageLast
  <2>3. ASSUME printed'["err"] > 0, NEW i \in DOMAIN calls'
        PROVE  calls'[i].stream = "err"
    <3>1. CASE s = "err"
      <4>1. Len(calls) = 1
        BY <1>0, <1>2, <2>1, <3>1 DEF MessageLast, s
      <4> QED
        BY <1>2, <1>6, <2>1, <3>1, <4>1 DEF s
    <3>2. CASE s # "err"
      <4>1. printed'["err"] = printed["err"]
        BY <1>0, <1>1, <3>2 DEF TypeOK, Stream
      <4> QED
        BY <1>0, <1>6, <2>1, <2>3, <4>1 DEF MessageLast
    <3> QED
      BY <3>1, <3>2
  <2> QED
    BY <2>2, <2>3 DEF MessageLast
<1>10. AllThere'
  <2> SUFFICES ASSUME NEW b \in Stream
               PROVE  IF b \notin broken THEN Sent(b)' = Everything(b)'
                      ELSE input.platform \in Files =>
                             \E lost \in Seq(Item) : fds[b] \o lost = Everything(b)'
    BY <1>1 DEF AllThere, Begun
  <2>1. Everything(b)' = IF b = d THEN Everything(b) \o new ELSE Everything(b)
    BY <1>0, <1>1, <1>2, <1>3, <1>8, EverythingGrows DEF s, d, new, call
  <2>2. /\ fds[b] \in Seq(Item) /\ buf[b] \in Seq(Item)
        /\ Unwritten(b) = <<>> /\ Unwritten(d) = <<>>
    BY <1>0, <1>1, <1>2, Types
  <2>5. /\ (fds[b] \o <<>>) \o (buf[b] \o new) = ((fds[b] \o <<>>) \o buf[b]) \o new
        /\ (fds[b] \o (buf[b] \o new)) \o <<>> = ((fds[b] \o <<>>) \o buf[b]) \o new
    <3>1. fds[b] \in Seq(Item) /\ buf[b] \in Seq(Item) /\ new \in Seq(Item)
      BY <1>4, <2>2
    <3>2. (fds[b] \o <<>>) \o (buf[b] \o new) = ((fds[b] \o <<>>) \o buf[b]) \o new
      BY <3>1, AppendedInBuffer, ZenonT(30)
    <3>3. (fds[b] \o (buf[b] \o new)) \o <<>> = ((fds[b] \o <<>>) \o buf[b]) \o new
      BY <3>1, AppendedInWriting, Zenon
    <3> QED
      BY <3>2, <3>3
  <2>3. CASE b \notin broken
    <3>1. Sent(b) = Everything(b)
      BY <1>0, <2>3 DEF AllThere
    <3>2. Sent(b) = (fds[b] \o <<>>) \o buf[b]
      BY <2>2 DEF Sent
    <3>3. CASE Full(d, contents)
      <4>1. buf' = [buf EXCEPT ![d] = <<>>] /\ writing' = Handed(d, contents)
        BY <1>1, <3>3 DEF Flushed
      <4>2. Unwritten(b)' = IF b = d THEN contents ELSE <<>>
        BY <1>2, <1>5, <4>1, HandedOver
      <4>3. buf'[b] = IF b = d THEN <<>> ELSE buf[b]
        BY <1>0, <1>2, <4>1 DEF TypeOK
      <4>4. Sent(b)' = IF b = d THEN (fds[b] \o (buf[b] \o new)) \o <<>> ELSE Sent(b)
        BY <1>1, <3>2, <4>2, <4>3 DEF Sent
      <4>5. Sent(b)' = IF b = d THEN Sent(b) \o new ELSE Sent(b)
        BY <2>5, <3>2, <4>4
      <4> QED
        BY <2>1, <2>3, <3>1, <4>5
    <3>4. CASE ~Full(d, contents)
      <4>1. buf' = [buf EXCEPT ![d] = contents] /\ writing' = writing
        BY <1>1, <3>4
      <4>2. Unwritten(b)' = <<>>
        BY <2>2, <4>1 DEF Unwritten
      <4>3. buf'[b] = IF b = d THEN buf[b] \o new ELSE buf[b]
        BY <1>0, <1>2, <4>1 DEF TypeOK
      <4>4. Sent(b)' = IF b = d THEN (fds[b] \o <<>>) \o (buf[b] \o new) ELSE Sent(b)
        BY <1>1, <3>2, <4>2, <4>3 DEF Sent
      <4>5. Sent(b)' = IF b = d THEN Sent(b) \o new ELSE Sent(b)
        BY <2>5, <3>2, <4>4
      <4> QED
        BY <2>1, <2>3, <3>1, <4>5
    <3> QED
      BY <3>3, <3>4
  <2>4. CASE b \in broken /\ input.platform \in Files
    <3>1. PICK lost \in Seq(Item) : fds[b] \o lost = Everything(b)
      BY <1>0, <2>4 DEF AllThere, Begun
    <3>2. fds[b] \o (lost \o new) = (fds[b] \o lost) \o new
      <4>1. fds[b] \in Seq(Item) /\ lost \in Seq(Item) /\ new \in Seq(Item)
        BY <1>4, <2>2
      <4> QED
        BY <4>1, Appended, Zenon
    <3>3. lost \o new \in Seq(Item)
      BY <1>4
    <3>4. CASE b = d
      <4>1. fds[b] \o (lost \o new) = Everything(b)'
        BY <2>1, <3>1, <3>2, <3>4
      <4> QED
        BY <2>4, <3>3, <4>1
    <3> QED
      BY <2>1, <2>4, <3>1, <3>4
  <2> QED
    BY <2>3, <2>4
<1> QED
  BY <1>8, <1>9, <1>10 DEF OutputInv

\* The other steps print nothing more.
LEMMA NothingPrinted ==
  ASSUME OutputInv, TypeOK', UNCHANGED <<input, calls, printed>>,
         \A b \in Stream :
           IF b \notin broken'
           THEN b \notin broken /\ Sent(b)' = Sent(b)
           ELSE \/ input.platform \notin Files
                \/ b \in broken /\ fds'[b] = fds[b]
                \/ b \notin broken /\ \E lost \in Seq(Item) : fds'[b] \o lost = Sent(b)
  PROVE  OutputInv'
<1>1. MessageLast'
  BY DEF OutputInv, MessageLast
<1>2. ASSUME NEW b \in Stream PROVE Everything(b)' = Everything(b)
  BY EverythingSame
<1>3. AllThere'
  <2> SUFFICES ASSUME NEW b \in Stream
               PROVE  IF b \notin broken' THEN Sent(b)' = Everything(b)'
                      ELSE input.platform \in Files =>
                             \E lost \in Seq(Item) : fds'[b] \o lost = Everything(b)'
    BY DEF AllThere, Begun
  <2>1. b \notin broken => Sent(b) = Everything(b)
    BY DEF OutputInv, AllThere
  <2>2. b \in broken /\ input.platform \in Files =>
          \E lost \in Seq(Item) : fds[b] \o lost = Everything(b)
    BY DEF OutputInv, AllThere, Begun
  <2> QED
    BY <1>2, <2>1, <2>2
<1> QED
  BY <1>1, <1>3 DEF OutputInv

LEMMA CopiedInv == OutputInv /\ Copied => OutputInv'
<1> SUFFICES ASSUME OutputInv, Copied PROVE OutputInv'
  OBVIOUS
<1> DEFINE Call == [stream : Stream, len : Nat]
<1>1. calls \in Seq(Call) /\ calls # <<>> /\ calls' = Tail(calls)
      /\ UNCHANGED <<input, printed, buf, writing, fds, broken, status>>
  BY DEF Copied, OutputInv, TypeOK
<1> HIDE DEF Call
<1>2. /\ calls' \in Seq(Call) /\ Len(calls') = Len(calls) - 1 /\ Len(calls) \in Nat
      /\ DOMAIN calls' = 1 .. Len(calls) - 1 /\ DOMAIN calls = 1 .. Len(calls)
      /\ \A i \in 1 .. Len(calls) - 1 : calls'[i] = calls[i + 1]
  BY <1>1
<1>3. TypeOK'
  BY <1>1, <1>2 DEF OutputInv, TypeOK, CapOf, Nowhere, Call
<1>4. MessageLast'
  <2>1. \A i \in 1 .. Len(calls) - 1 : i + 1 \in 1 .. Len(calls)
    BY <1>2
  <2>2. \A i \in 1 .. Len(calls) - 1 : calls'[i].stream = "err" => i = Len(calls')
    BY <1>2, <2>1, SMTT(30) DEF OutputInv, MessageLast
  <2>3. printed["err"] > 0 => \A i \in 1 .. Len(calls) - 1 : calls'[i].stream = "err"
    BY <1>2, <2>1 DEF OutputInv, MessageLast
  <2> QED
    BY <1>1, <1>2, <2>2, <2>3 DEF MessageLast
<1>5. ASSUME NEW b \in Stream
      PROVE  Everything(b)' = Everything(b) /\ Sent(b)' = Sent(b)
  BY <1>1, EverythingSame DEF Sent, Unwritten
<1>6. AllThere'
  BY <1>1, <1>5 DEF OutputInv, AllThere, Begun
<1> QED
  BY <1>3, <1>4, <1>6 DEF OutputInv

LEMMA EndingInv == OutputInv /\ Ending => OutputInv'
<1> SUFFICES ASSUME OutputInv, Ending PROVE OutputInv'
  OBVIOUS
<1> DEFINE d == LastFlush
<1>1. /\ Computing /\ UNCHANGED <<input, calls, printed, fds, broken>>
      /\ status' = "ending"
      /\ writing' = Handed(d, buf[d]) /\ buf' = [buf EXCEPT ![d] = <<>>]
  BY DEF Ending, Flushed
<1>2. d \in Stream
  BY DEF LastFlush, BufferOf, Stream
<1> HIDE DEF d
<1>3. buf[d] \in Seq(Item)
  BY <1>2, Types DEF OutputInv
<1>4. writing' = Nowhere \/ (writing'.to \in Stream /\ writing'.data \in Seq(Item) \ {<<>>})
  BY <1>1, <1>2, <1>3, HandedOver
<1>5. buf' \in [Stream -> Seq(Item)] /\ \A b \in Stream : Len(buf'[b]) < CapOf(b)
  <2>1. <<>> \in Seq(Item) /\ Len(<<>>) = 0
    OBVIOUS
  <2>2. CapOf(d) > 0
    BY CapAssumption DEF CapOf
  <2> QED
    BY <1>1, <2>1, <2>2 DEF OutputInv, TypeOK
<1>6. TypeOK'
  BY <1>1, <1>4, <1>5 DEF OutputInv, TypeOK, CapOf, Nowhere
<1>7. ASSUME NEW b \in Stream PROVE Sent(b)' = Sent(b)
  <2>1. fds[b] \in Seq(Item) /\ buf[b] \in Seq(Item) /\ Unwritten(b) = <<>>
    BY <1>1, Types DEF OutputInv
  <2>2. Sent(b) = (fds[b] \o <<>>) \o buf[b]
    BY <2>1 DEF Sent
  <2>3. Unwritten(b)' = IF b = d THEN buf[b] ELSE <<>>
    BY <1>1, <1>2, <1>3, HandedOver
  <2>4. buf'[b] = IF b = d THEN <<>> ELSE buf[b]
    BY <1>1, <1>2 DEF OutputInv, TypeOK
  <2>5. /\ b = d => Sent(b)' = (fds[b] \o buf[b]) \o <<>>
        /\ b # d => Sent(b)' = (fds[b] \o <<>>) \o buf[b]
    BY <1>1, <2>3, <2>4 DEF Sent
  <2>6. (fds[b] \o buf[b]) \o <<>> = (fds[b] \o <<>>) \o buf[b]
    BY <2>1, WritingAsBuffer, Zenon
  <2> QED
    BY <2>2, <2>5, <2>6
<1> QED
  BY <1>1, <1>6, <1>7, NothingPrinted

-----------------------------------------------------------------------------
(***************************************************************************)
(* The steps of os_write().                                                *)
(***************************************************************************)
LEMMA WritesInv ==
  ASSUME OutputInv, ~Computing, writing.to \notin broken, NEW n \in DOMAIN writing.data,
         Writes(n, SubSeq(writing.data, 1, n))
  PROVE  OutputInv'
<1> DEFINE d    == writing.to
           data == writing.data
           rest == SubSeq(data, n + 1, Len(data))
<1>1. /\ UNCHANGED <<input, calls, printed, buf, broken, status>>
      /\ fds' = [fds EXCEPT ![d] = fds[d] \o SubSeq(data, 1, n)]
      /\ writing' = Handed(d, rest)
  BY DEF Writes, Remains
<1>2. d \in Stream /\ data \in Seq(Item)
  BY DEF OutputInv, TypeOK, Computing
<1>3. Unwritten(d) = data /\ \A b \in Stream \ {d} : Unwritten(b) = <<>>
  BY DEF Unwritten
<1> HIDE DEF d, data
<1>4. n \in 1 .. Len(data) /\ Len(data) \in Nat
  BY <1>2 DEF data
<1>5. SubSeq(data, 1, n) \in Seq(Item) /\ rest \in Seq(Item)
  BY <1>2, <1>4
<1>6. SubSeq(data, 1, n) \o rest = data
  <2>1. SubSeq(data, 1, Len(data)) = data
    BY <1>2, SubSeqFull
  <2>2. SubSeq(data, 1, n) \o SubSeq(data, n + 1, Len(data)) = SubSeq(data, 1, Len(data))
    <3>1. /\ 1 \in 1 .. Len(data) + 1 /\ n \in 1 - 1 .. Len(data)
          /\ Len(data) \in n .. Len(data)
      BY <1>4
    <3> QED
      BY <1>2, <3>1, ConcatAdjacentSubSeq, Zenon
  <2> QED
    BY <2>1, <2>2
<1> HIDE DEF rest
<1>7. writing' = Nowhere \/ (writing'.to \in Stream /\ writing'.data \in Seq(Item) \ {<<>>})
  BY <1>1, <1>2, <1>5, HandedOver
<1>8. fds \in [Stream -> Seq(Item)] /\ fds' \in [Stream -> Seq(Item)]
  <2>1. fds \in [Stream -> Seq(Item)]
    BY DEF OutputInv, TypeOK
  <2>2. fds[d] \o SubSeq(data, 1, n) \in Seq(Item)
    BY <1>2, <1>5, <2>1
  <2> QED
    BY <1>1, <2>1, <2>2
<1>9. TypeOK'
  BY <1>1, <1>7, <1>8 DEF OutputInv, TypeOK, CapOf, Nowhere
<1>10. ASSUME NEW b \in Stream PROVE Sent(b)' = Sent(b)
  <2>1. Unwritten(b)' = IF b = d THEN rest ELSE <<>>
    BY <1>1, <1>2, <1>5, HandedOver
  <2>2. fds'[b] = IF b = d THEN fds[b] \o SubSeq(data, 1, n) ELSE fds[b]
    BY <1>1, <1>2, <1>8
  <2>3. /\ b = d => Sent(b)' = ((fds[b] \o SubSeq(data, 1, n)) \o rest) \o buf[b]
        /\ b # d => Sent(b)' = (fds[b] \o <<>>) \o buf[b]
    BY <1>1, <2>1, <2>2 DEF Sent
  <2>4. /\ b = d => Sent(b) = (fds[b] \o data) \o buf[b]
        /\ b # d => Sent(b) = (fds[b] \o <<>>) \o buf[b]
    BY <1>3 DEF Sent
  <2>5. fds[b] \o (SubSeq(data, 1, n) \o rest) = (fds[b] \o SubSeq(data, 1, n)) \o rest
    <3>1. fds[b] \in Seq(Item)
      BY <1>8
    <3> QED
      BY <1>5, <3>1, Appended, Zenon
  <2> QED
    BY <1>6, <2>3, <2>4, <2>5
<1> QED
  BY <1>1, <1>9, <1>10, NothingPrinted DEF d

LEMMA LostInv ==
  ASSUME OutputInv, ~Computing, writing' = Nowhere, broken' = broken \cup {writing.to},
         status' \in {"running", "ending", "success", "failure"},
         UNCHANGED <<input, calls, printed, buf, fds>>
  PROVE  OutputInv'
<1>1. writing.to \in Stream
  BY DEF OutputInv, TypeOK, Computing
<1>2. TypeOK'
  BY <1>1 DEF OutputInv, TypeOK, CapOf, Nowhere
<1>3. ASSUME NEW b \in Stream, b \notin broken' PROVE b \notin broken /\ Sent(b)' = Sent(b)
  <2>1. b # writing.to
    BY <1>3
  <2>2. Unwritten(b) = <<>> /\ Unwritten(b)' = <<>>
    BY <2>1 DEF Unwritten, Nowhere, Stream
  <2> QED
    BY <1>3, <2>2 DEF Sent
<1>4. ASSUME NEW b \in Stream, b \notin broken
      PROVE  \E lost \in Seq(Item) : fds'[b] \o lost = Sent(b)
  <2>1. fds[b] \in Seq(Item) /\ Unwritten(b) \in Seq(Item) /\ buf[b] \in Seq(Item)
    BY Types DEF OutputInv
  <2>2. fds[b] \o (Unwritten(b) \o buf[b]) = (fds[b] \o Unwritten(b)) \o buf[b]
    BY <2>1, Appended, Zenon
  <2>3. Unwritten(b) \o buf[b] \in Seq(Item)
    BY <2>1
  <2> QED
    BY <2>2, <2>3 DEF Sent
<1> QED
  BY <1>2, <1>3, <1>4, NothingPrinted

\* On WASI, os_write() has no second try.
LEMMA WriteOnceInv == OutputInv /\ WriteOnce => OutputInv'
<1> SUFFICES ASSUME OutputInv, WriteOnce PROVE OutputInv'
  OBVIOUS
<1> DEFINE d    == writing.to
           data == writing.data
<1>1. PICK n \in DOMAIN data :
        /\ fds' = [fds EXCEPT ![d] = fds[d] \o SubSeq(data, 1, n)]
        /\ broken' = IF n < Len(data) THEN broken \cup {d} ELSE broken
  BY DEF WriteOnce
<1>2. /\ input.platform \notin Files /\ writing' = Nowhere
      /\ UNCHANGED <<input, calls, printed, buf, status>>
  BY DEF WriteOnce, Files
<1>3. d \in Stream /\ data \in Seq(Item) /\ fds \in [Stream -> Seq(Item)]
  BY DEF OutputInv, TypeOK, Computing, WriteOnce
<1>4. Unwritten(d) = data /\ \A b \in Stream : Unwritten(b)' = <<>>
                           /\ (b # d => Unwritten(b) = <<>>)
  BY <1>2 DEF Unwritten, Nowhere, Stream
<1> HIDE DEF d, data
<1>5. n \in 1 .. Len(data) /\ Len(data) \in Nat
  BY <1>3
<1>6. SubSeq(data, 1, n) \in Seq(Item) /\ (~(n < Len(data)) => SubSeq(data, 1, n) = data)
  <2>1. ~(n < Len(data)) => n = Len(data)
    BY <1>5
  <2> QED
    BY <1>3, <1>5, <2>1, SubSeqFull
<1>7. fds' \in [Stream -> Seq(Item)]
  <2>1. fds[d] \o SubSeq(data, 1, n) \in Seq(Item)
    BY <1>3, <1>6
  <2> QED
    BY <1>1, <1>3, <2>1
<1>8. TypeOK'
  BY <1>1, <1>2, <1>3, <1>7 DEF OutputInv, TypeOK, CapOf, Nowhere
<1>9. ASSUME NEW b \in Stream, b \notin broken' PROVE b \notin broken /\ Sent(b)' = Sent(b)
  <2>1. b \notin broken /\ (b = d => ~(n < Len(data)))
    BY <1>1, <1>9
  <2>2. CASE b = d
    <3>1. fds'[b] = fds[b] \o data /\ Unwritten(b)' = <<>> /\ Unwritten(b) = data
      BY <1>1, <1>3, <1>4, <1>6, <2>1, <2>2
    <3>2. (fds[b] \o data) \o <<>> = fds[b] \o data
      BY <1>3, ConcatEmptySeq
    <3> QED
      BY <1>2, <2>1, <3>1, <3>2 DEF Sent
  <2>3. CASE b # d
    BY <1>1, <1>2, <1>3, <1>4, <2>1, <2>3 DEF Sent
  <2> QED
    BY <2>2, <2>3
<1> QED
  BY <1>2, <1>8, <1>9, NothingPrinted

LEMMA StepInv == OutputInv /\ input.platform \in Plain /\ [Next]_vars => OutputInv'
<1> SUFFICES ASSUME OutputInv, input.platform \in Plain, [Next]_vars PROVE OutputInv'
  OBVIOUS
<1>1. CASE Copy
  BY <1>1, CopyInv
<1>2. CASE Copied
  BY <1>2, CopiedInv
<1>3. CASE Ending
  BY <1>3, EndingInv
<1>4. CASE Exit \/ UNCHANGED vars
  <2>1. UNCHANGED <<input, calls, printed, buf, writing, fds, broken>>
        /\ status' \in {"running", "ending", "success", "failure"}
    BY <1>4 DEF Exit, vars, OutputInv, TypeOK
  <2>2. TypeOK'
    BY <2>1 DEF OutputInv, TypeOK, CapOf, Nowhere
  <2>3. \A b \in Stream : Sent(b)' = Sent(b)
    BY <2>1 DEF Sent, Unwritten
  <2> QED
    BY <2>1, <2>2, <2>3, NothingPrinted
<1>5. CASE Write
  BY <1>5, WritesInv DEF Write, Accepts
<1>6. CASE WriteFile
  <2>1. writing.data \in Seq(Item) \ {<<>>}
    BY <1>6 DEF WriteFile, Accepts, OutputInv, TypeOK, Computing
  <2>2. Len(writing.data) \in DOMAIN writing.data
        /\ SubSeq(writing.data, 1, Len(writing.data)) = writing.data
    BY <2>1, SubSeqFull
  <2> QED
    BY <1>6, <2>2, WritesInv DEF WriteFile, Accepts
<1>7. CASE WriteFails
  BY <1>7, LostInv DEF WriteFails
<1>8. CASE WriteIgnored
  <2>1. status' \in {"running", "ending", "success", "failure"}
    BY <1>8 DEF WriteIgnored, OutputInv, TypeOK
  <2> QED
    BY <1>8, <2>1, LostInv DEF WriteIgnored
<1>9. CASE WriteOnce
  BY <1>9, WriteOnceInv
<1>10. ~WriteConsole
  BY DEF WriteConsole, Accepts, Plain, Files
<1> QED
  BY <1>1, <1>2, <1>3, <1>4, <1>5, <1>6, <1>7, <1>8, <1>9, <1>10 DEF Next, Stopped

-----------------------------------------------------------------------------
LEMMA InvInOrder == OutputInv /\ input.platform \in Files => InOrder
<1> SUFFICES ASSUME OutputInv, input.platform \in Files PROVE InOrder
  OBVIOUS
<1>1. ASSUME NEW b, NEW x PROVE Is(b, x, x)
  BY DEF Is
<1>2. ASSUME NEW b \in Stream, b \notin broken
      PROVE  Is(b, (fds[b] \o (IF writing.to = b THEN writing.data ELSE <<>>)) \o buf[b],
                Everything(b))
  BY <1>1, <1>2 DEF OutputInv, AllThere, Sent, Unwritten
<1>3. ASSUME NEW b \in Stream, b \in broken
      PROVE  Len(fds[b]) <= Len(Everything(b))
             /\ Is(b, fds[b], SubSeq(Everything(b), 1, Len(fds[b])))
  <2>1. fds[b] \in Seq(Item)
    BY Types DEF OutputInv
  <2>2. PICK lost \in Seq(Item) : fds[b] \o lost = Everything(b)
    BY <1>3 DEF OutputInv, AllThere, Begun
  <2>3. Len(fds[b]) <= Len(Everything(b))
    BY <2>1, <2>2
  <2>4. SubSeq(fds[b] \o lost, 1, Len(fds[b])) = fds[b]
    BY <2>1, <2>2
  <2> QED
    BY <1>1, <2>2, <2>3, <2>4
<1>4. input.platform # "wasm"
  BY DEF Files
<1> QED
  BY <1>2, <1>3, <1>4 DEF InOrder

(***************************************************************************)
(* On POSIX and on Windows, where bytes are written as they are, what      *)
(* prints8() copies to a buffer arrives once, in the order of printing,    *)
(* and without a hole before it, for all sizes of buffers and texts, all   *)
(* routes of messages, and however much each write() takes.                *)
(***************************************************************************)
THEOREM FilesInOrder == Spec => [](input.platform \in Files => InOrder)
<1> DEFINE I == input.platform \in Plain => OutputInv
<1>1. Init => I
  BY InitInv
<1>2. I /\ [Next]_vars => I'
  <2>1. [Next]_vars => input' = input
    BY DEF Next, vars, Copy, Copied, Ending, Exit, Write, WriteFile, WriteConsole, WriteOnce,
           WriteFails, WriteIgnored, Stopped, Writes
  <2> QED
    BY <2>1, StepInv
<1>3. I => (input.platform \in Files => InOrder)
  BY InvInOrder DEF Plain
<1> QED
  BY <1>1, <1>2, <1>3, PTL DEF Spec

-----------------------------------------------------------------------------
(***************************************************************************)
(* What was printed, and what the end of a run leaves behind.              *)
(***************************************************************************)

\* The calls of a run, and how many are done.
Original(i) ==
  IF i <= Len(input.prints) THEN [stream |-> "out", len |-> input.prints[i]]
  ELSE [stream |-> "err", len |-> input.message]

Done == Len(input.prints) + 1 - Len(calls)

\* The results are printed.
AtMessage == calls = <<>> \/ calls[1].stream = "err"

\* Calls are made in order, and the first may be in progress.
CallsLeft ==
  /\ Done >= 0
  /\ \A i \in DOMAIN calls :
       /\ calls[i].stream = Original(Done + i).stream
       /\ IF i = 1 THEN calls[i].len <= Original(Done + i).len
          ELSE calls[i].len = Original(Done + i).len

ResultsPrinted ==
  printed["out"] = IF AtMessage THEN Printing[Len(input.prints)]
                   ELSE Printing[Done + 1] - calls[1].len

MessagePrinted ==
  printed["err"] = IF Discarded("err") \/ ~AtMessage THEN 0
                   ELSE IF calls = <<>> THEN input.message
                   ELSE input.message - calls[1].len

\* At the end, the buffer in question is empty; the exit status tells what broke.
AtEnd ==
  /\ status \in {"ending", "success"} \/ (status = "failure" /\ broken = {})
       => calls = <<>> /\ buf[LastFlush] = <<>>
  /\ status \in {"success", "failure"} => Computing
  /\ status = "success" => ~Fails /\ (input.platform \in Files => broken = {})
  /\ status = "failure" /\ broken = {} => Fails
  /\ input.platform = "posix" /\ broken # {} => status = "failure"

\* Nobody has tried to write results that a failing run keeps in its buffer.
Quiet ==
  printed["out"] < OutCap /\ input.messages # "stdout" /\ Fails
    => fds["out"] = <<>> /\ writing.to # "out" /\ "out" \notin broken

PrintedInv == CallsLeft /\ ResultsPrinted /\ MessagePrinted

EndInv == OutputInv /\ PrintedInv /\ AtEnd /\ Quiet

-----------------------------------------------------------------------------
(***************************************************************************)
(* The sum of the lengths of texts.                                        *)
(***************************************************************************)
\* The library's induction theorems take an operator; this one takes a set.
LEMMA NaturalsFrom0 ==
  ASSUME NEW S, 0 \in S, \A n \in Nat : n \in S => n + 1 \in S
  PROVE  Nat \subseteq S
<1> SUFFICES ASSUME Nat \ S # {} PROVE FALSE
  OBVIOUS
<1>1. PICK x \in Nat \ S : \A y \in Nat \ S : ~(<<y, x>> \in OpToRel(<, Nat))
  <2>1. Nat \ S \subseteq Nat
    OBVIOUS
  <2> QED
    BY <2>1, NatLessThanWellFounded, WFMin, Zenon
<1>2. \A y \in Nat \ S : ~(y < x)
  BY <1>1 DEF OpToRel
<1>3. x # 0
  OBVIOUS
<1>4. x - 1 \in Nat /\ x - 1 < x /\ (x - 1) + 1 = x
  BY <1>3
<1>5. x - 1 \in S
  BY <1>2, <1>4
<1> QED
  BY <1>4, <1>5

\* g gives the sums of the first n texts.
Sums(g, n) ==
  g = [k \in 0 .. n |-> IF k = 0 THEN 0 ELSE g[k - 1] + input.prints[k]]

LEMMA SumsExist == \A n \in Nat : \E g : Sums(g, n)
<1> DEFINE S == {n \in Nat : \E g : Sums(g, n)}
<1>1. 0 \in S
  <2> DEFINE g == [k \in 0 .. 0 |-> 0]
  <2>1. g = [k \in 0 .. 0 |-> IF k = 0 THEN 0 ELSE g[k - 1] + input.prints[k]]
    OBVIOUS
  <2> HIDE DEF g
  <2>2. Sums(g, 0)
    BY <2>1 DEF Sums
  <2> QED
    BY <2>2
<1>2. ASSUME NEW n \in Nat, n \in S PROVE n + 1 \in S
  <2>1. PICK g : Sums(g, n)
    BY <1>2
  <2> DEFINE next == g[n] + input.prints[n + 1]
             h == [k \in 0 .. n + 1 |-> IF k = n + 1 THEN next ELSE g[k]]
  <2>2. \A k \in 0 .. n : g[k] = IF k = 0 THEN 0 ELSE g[k - 1] + input.prints[k]
    BY <2>1 DEF Sums
  <2>3. \A k \in 0 .. n + 1 : h[k] = IF k = 0 THEN 0 ELSE h[k - 1] + input.prints[k]
    <3>1. \A k \in 0 .. n + 1 : k = n + 1 \/ k \in 0 .. n
      OBVIOUS
    <3> HIDE DEF next
    <3>2. \A k \in 0 .. n : k \in 0 .. n + 1 /\ k # n + 1 /\ h[k] = g[k]
      OBVIOUS
    <3>3. h[n + 1] = next
      OBVIOUS
    <3> HIDE DEF h
    <3>4. h[n + 1] = h[(n + 1) - 1] + input.prints[n + 1] /\ n + 1 # 0
      <4>1. (n + 1) - 1 = n /\ n \in 0 .. n /\ n + 1 # 0
        OBVIOUS
      <4>2. h[n] = g[n]
        BY <3>2, <4>1
      <4> QED
        BY <3>3, <4>1, <4>2 DEF next
    <3>5. ASSUME NEW k \in 0 .. n
          PROVE  h[k] = IF k = 0 THEN 0 ELSE h[k - 1] + input.prints[k]
      <4>1. k # 0 => k - 1 \in 0 .. n
        OBVIOUS
      <4> QED
        BY <2>2, <3>2, <4>1
    <3> QED
      BY <3>1, <3>4, <3>5
  <2>4. h = [k \in 0 .. n + 1 |-> IF k = 0 THEN 0 ELSE h[k - 1] + input.prints[k]]
    BY <2>3
  <2> HIDE DEF h
  <2>5. Sums(h, n + 1)
    BY <2>4 DEF Sums
  <2> QED
    BY <2>5
<1>3. Nat \subseteq S
  <2> HIDE DEF S
  <2> QED
    BY <1>1, <1>2, NaturalsFrom0
<1> QED
  BY <1>3

\* The recursive definition of Printing says what it seems to say.
LEMMA PrintingSteps ==
  ASSUME input.prints \in Seq(Nat)
  PROVE  /\ Printing[0] = 0
         /\ \A n \in 1 .. Len(input.prints) : Printing[n] = Printing[n - 1] + input.prints[n]
         /\ \A n \in 0 .. Len(input.prints) : Printing[n] \in Nat
<1> DEFINE N == Len(input.prints)
<1>1. N \in Nat /\ \A n \in 1 .. N : input.prints[n] \in Nat
  OBVIOUS
<1> HIDE DEF N
<1>2. Sums(Printing, N)
  <2>1. \E g : Sums(g, N)
    BY <1>1, SumsExist
  <2>2. Printing = CHOOSE g : Sums(g, N)
    BY DEF Printing, Sums, N
  <2> QED
    BY <2>1, <2>2
<1>3. \A k \in 0 .. N : Printing[k] = IF k = 0 THEN 0 ELSE Printing[k - 1] + input.prints[k]
  <2> DEFINE g == Printing
  <2>1. Sums(g, N)
    BY <1>2
  <2> HIDE DEF g
  <2>2. \A k \in 0 .. N : g[k] = IF k = 0 THEN 0 ELSE g[k - 1] + input.prints[k]
    BY <2>1 DEF Sums
  <2> QED
    BY <2>2 DEF g
<1>4. Printing[0] = 0 /\ \A n \in 1 .. N : Printing[n] = Printing[n - 1] + input.prints[n]
  <2>1. 0 \in 0 .. N /\ \A n \in 1 .. N : n \in 0 .. N /\ n # 0
    BY <1>1
  <2> QED
    BY <1>3, <2>1
<1>5. \A n \in 0 .. N : Printing[n] \in Nat
  <2> DEFINE S == {n \in Nat : n <= N => Printing[n] \in Nat}
  <2>1. 0 \in S
    BY <1>4
  <2>2. ASSUME NEW n \in Nat, n \in S PROVE n + 1 \in S
    <3> SUFFICES ASSUME n + 1 <= N PROVE Printing[n + 1] \in Nat
      OBVIOUS
    <3>1. n + 1 \in 1 .. N /\ (n + 1) - 1 = n /\ n <= N
      BY <1>1
    <3>2. Printing[n + 1] = Printing[n] + input.prints[n + 1] /\ Printing[n] \in Nat
      BY <1>4, <2>2, <3>1
    <3> QED
      BY <1>1, <3>1, <3>2
  <2>3. Nat \subseteq S
    <3> HIDE DEF S
    <3> QED
      BY <2>1, <2>2, NaturalsFrom0
  <2> QED
    BY <1>1, <2>3
<1> QED
  BY <1>4, <1>5 DEF N

-----------------------------------------------------------------------------
\* The call in progress.
LEMMA FirstCall ==
  ASSUME TypeOK, CallsLeft, calls # <<>>
  PROVE  /\ Len(calls) \in Nat \ {0} /\ DOMAIN calls = 1 .. Len(calls) /\ 1 \in DOMAIN calls
         /\ Head(calls) = calls[1] /\ calls[1].len \in Nat /\ calls[1].stream \in Stream
         /\ input.prints \in Seq(Nat) /\ Len(input.prints) \in Nat
         /\ Done \in Nat /\ Len(calls) = Len(input.prints) + 1 - Done
         /\ calls[1].stream = Original(Done + 1).stream
         /\ calls[1].len <= Original(Done + 1).len
         /\ AtMessage <=> Done = Len(input.prints)
<1> DEFINE Call == [stream : Stream, len : Nat]
<1>1. calls \in Seq(Call)
  BY DEF TypeOK
<1>2. input.prints \in Seq(Nat)
  BY DEF TypeOK, Input
<1>3. calls[1] \in Call /\ Head(calls) = calls[1] /\ Len(calls) \in Nat \ {0}
      /\ DOMAIN calls = 1 .. Len(calls) /\ 1 \in DOMAIN calls
  <2> HIDE DEF Call
  <2> QED
    BY <1>1
<1>4. calls[1].len \in Nat /\ calls[1].stream \in Stream
  BY <1>3
<1>5. Len(input.prints) \in Nat /\ Done \in Nat /\ Len(calls) = Len(input.prints) + 1 - Done
      /\ Done <= Len(input.prints)
  BY <1>2, <1>3 DEF CallsLeft, Done
<1>6. calls[1].stream = Original(Done + 1).stream /\ calls[1].len <= Original(Done + 1).len
  BY <1>3 DEF CallsLeft
<1>7. AtMessage <=> Done = Len(input.prints)
  <2>1. Done + 1 <= Len(input.prints) <=> Done # Len(input.prints)
    BY <1>5
  <2> QED
    BY <1>6, <2>1 DEF AtMessage, Original
<1> QED
  BY <1>2, <1>3, <1>4, <1>5, <1>6, <1>7

\* Without a call, too, all results are printed.
LEMMA NoCall ==
  ASSUME TypeOK, calls = <<>>
  PROVE  AtMessage /\ Done = Len(input.prints) + 1 /\ Len(input.prints) \in Nat
<1>1. Len(calls) = 0 /\ input.prints \in Seq(Nat)
  BY DEF TypeOK, Input
<1> QED
  BY <1>1 DEF AtMessage, Done

LEMMA InitPrinted == Init => PrintedInv
<1> SUFFICES ASSUME Init PROVE PrintedInv
  OBVIOUS
<1> DEFINE N == Len(input.prints)
           results == [i \in DOMAIN input.prints |->
                         [stream |-> "out", len |-> input.prints[i]]]
           last == <<[stream |-> "err", len |-> input.message]>>
<1>1. TypeOK
  BY InitInv DEF OutputInv
<1>2. input.prints \in Seq(Nat) /\ input.message \in Nat
  BY <1>1 DEF TypeOK, Input
<1>3. N \in Nat /\ DOMAIN input.prints = 1 .. N
  BY <1>2
<1>4. calls = results \o last
  BY DEF Init
<1> HIDE DEF N
<1>5. results \in Seq([stream : {"out"}, len : Nat]) /\ Len(results) = N
      /\ \A i \in 1 .. N : results[i] = [stream |-> "out", len |-> input.prints[i]]
  <2> DEFINE C == [stream : {"out"}, len : Nat]
             c(i) == [stream |-> "out", len |-> input.prints[i]]
  <2>1. \A i \in 1 .. N : c(i) \in C
    BY <1>2, <1>3
  <2>2. results = [i \in 1 .. N |-> c(i)]
    BY <1>3
  <2> HIDE DEF results, C, c
  <2>3. results \in Seq(C) /\ Len(results) = N /\ \A i \in 1 .. N : results[i] = c(i)
    BY <1>3, <2>1, <2>2
  <2> QED
    BY <2>3 DEF C, c
<1>6. Len(calls) = N + 1 /\ DOMAIN calls = 1 .. N + 1
      /\ (\A i \in 1 .. N : calls[i] = results[i]) /\ calls[N + 1] = last[1]
  <2> DEFINE C == [stream : Stream, len : Nat]
  <2>1. last \in Seq(C) /\ Len(last) = 1
    BY <1>2 DEF Stream
  <2>2. results \in Seq(C) /\ Len(results) = N
    <3>1. \A i \in 1 .. N : results[i] \in C
      BY <1>2, <1>3, <1>5 DEF Stream, N
    <3> HIDE DEF results, C
    <3>2. results \in Seq([stream : {"out"}, len : Nat]) /\ DOMAIN results = 1 .. N
      BY <1>5
    <3> QED
      BY <1>5, <3>1, <3>2
  <2> HIDE DEF results, last, C
  <2> DEFINE both == results \o last
  <2>3. /\ both \in Seq(C) /\ Len(both) = Len(results) + Len(last)
        /\ \A i \in 1 .. Len(results) + Len(last) :
             both[i] = IF i <= Len(results) THEN results[i] ELSE last[i - Len(results)]
    BY <2>1, <2>2, ConcatProperties, Zenon
  <2> HIDE DEF both
  <2>4. calls = both
    BY <1>4 DEF both
  <2>5. calls \in Seq(C) /\ Len(calls) = N + 1
    BY <2>1, <2>2, <2>3, <2>4
  <2>6. \A i \in 1 .. N + 1 : calls[i] = IF i <= N THEN results[i] ELSE last[i - N]
    BY <2>1, <2>2, <2>3, <2>4
  <2>7. /\ \A i \in 1 .. N : i \in 1 .. N + 1 /\ i <= N
        /\ N + 1 \in 1 .. N + 1 /\ ~(N + 1 <= N) /\ (N + 1) - N = 1 /\ N + 1 \in Nat
    BY <1>3
  <2>8. DOMAIN calls = 1 .. N + 1
    BY <2>5
  <2> QED
    BY <2>5, <2>6, <2>7, <2>8
<1>7. \A i \in DOMAIN calls : calls[i] = Original(i)
  <2> SUFFICES ASSUME NEW i \in 1 .. N + 1 PROVE calls[i] = Original(i)
    BY <1>6
  <2>1. i \in 1 .. N \/ (i = N + 1 /\ ~(i <= N))
    BY <1>3
  <2>2. i \in 1 .. N => i <= N
    BY <1>3
  <2> QED
    BY <1>5, <1>6, <2>1, <2>2 DEF Original, N
<1>8. Done = 0
  BY <1>3, <1>6 DEF Done, N
<1>9. CallsLeft
  <2>1. \A i \in DOMAIN calls : 0 + i = i
    BY <1>6
  <2>2. \A i \in DOMAIN calls : Original(i).len \in Nat
    <3> SUFFICES ASSUME NEW i \in 1 .. N + 1 PROVE Original(i).len \in Nat
      BY <1>6
    <3>1. i <= N => i \in 1 .. N
      BY <1>3
    <3>2. i <= N => input.prints[i] \in Nat
      BY <1>2, <1>3, <3>1 DEF N
    <3> QED
      BY <1>2, <3>2 DEF Original, N
  <2> QED
    BY <1>7, <1>8, <2>1, <2>2 DEF CallsLeft
<1>10. calls # <<>>
  BY <1>3, <1>6
<1>11. printed["out"] = 0 /\ printed["err"] = 0
  BY DEF Init, Stream
<1>12. AtMessage <=> N = 0
  BY <1>1, <1>8, <1>9, <1>10, FirstCall DEF N
<1>13. calls[1] = Original(1)
  BY <1>3, <1>6, <1>7
<1>14. ResultsPrinted
  <2>1. N # 0 => 1 \in 1 .. N /\ 1 - 1 = 0
    BY <1>3
  <2>2. N # 0 => Original(1).len = input.prints[1]
    BY <2>1 DEF Original, N
  <2>3. /\ Printing[0] = 0
        /\ N # 0 => Printing[1] = Printing[0] + input.prints[1] /\ input.prints[1] \in Nat
    BY <1>2, <2>1, PrintingSteps DEF N
  <2> QED
    BY <1>8, <1>11, <1>12, <1>13, <2>2, <2>3 DEF ResultsPrinted, N
<1>15. MessagePrinted
  <2>1. AtMessage => calls[1].len = input.message
    BY <1>3, <1>12, <1>13 DEF Original, N
  <2> QED
    BY <1>2, <1>10, <1>11, <2>1 DEF MessagePrinted
<1> QED
  BY <1>9, <1>14, <1>15 DEF PrintedInv

LEMMA PrintedSame ==
  ASSUME PrintedInv, UNCHANGED <<input, calls, printed>>
  PROVE  PrintedInv'
<1>1. Printing' = Printing
  BY DEF Printing
<1> QED
  BY <1>1 DEF PrintedInv, CallsLeft, ResultsPrinted, MessagePrinted, Done, Original, AtMessage,
              Discarded

LEMMA CopyPrinted == OutputInv /\ PrintedInv /\ Copy => PrintedInv'
<1> SUFFICES ASSUME OutputInv, PrintedInv, Copy PROVE PrintedInv'
  OBVIOUS
<1> DEFINE Call  == [stream : Stream, len : Nat]
           s     == calls[1].stream
           avail == CapOf(BufferOf(s)) - Len(buf[BufferOf(s)])
           count == IF avail < calls[1].len THEN avail ELSE calls[1].len
<1>1. TypeOK /\ CallsLeft /\ ResultsPrinted /\ MessagePrinted /\ calls # <<>>
  BY DEF OutputInv, PrintedInv, Copy
<1>2. /\ Len(calls) \in Nat \ {0} /\ DOMAIN calls = 1 .. Len(calls) /\ 1 \in DOMAIN calls
      /\ Head(calls) = calls[1] /\ calls[1].len \in Nat /\ s \in Stream
      /\ Done \in Nat
  BY <1>1, FirstCall
<1>3. /\ UNCHANGED input /\ ~Discarded(s)
      /\ printed' = [printed EXCEPT ![s] = printed[s] + count]
      /\ calls' = [calls EXCEPT ![1].len = @ - count]
  BY <1>2 DEF Copy
<1>4. count \in Nat /\ count <= calls[1].len
  <2>1. BufferOf(s) \in Stream
    BY <1>2 DEF BufferOf, Stream
  <2>2. buf[BufferOf(s)] \in Seq(Item) /\ CapOf(BufferOf(s)) \in Nat
    BY <1>1, <2>1, Types
  <2>3. Len(buf[BufferOf(s)]) < CapOf(BufferOf(s))
    BY <1>1, <2>1 DEF TypeOK
  <2>4. avail \in Nat
    BY <2>2, <2>3
  <2> HIDE DEF avail
  <2> QED
    BY <1>2, <2>4
<1> HIDE DEF count
<1>5. /\ Len(calls') = Len(calls) /\ DOMAIN calls' = DOMAIN calls /\ calls' # <<>>
      /\ \A i \in DOMAIN calls : calls'[i].stream = calls[i].stream
      /\ \A i \in DOMAIN calls : i # 1 => calls'[i] = calls[i]
      /\ calls'[1].len = calls[1].len - count
  <2> DEFINE e == [calls[1] EXCEPT !.len = calls[1].len - count]
  <2>1. calls \in Seq(Call)
    BY <1>1 DEF TypeOK
  <2>2. calls[1] \in Call /\ calls[1].len - count \in Nat
    <3>1. calls[1] \in Call
      <4> HIDE DEF Call
      <4> QED
        BY <1>2, <2>1
    <3> QED
      BY <1>2, <1>4, <3>1
  <2>3. e \in Call /\ e.stream = calls[1].stream /\ e.len = calls[1].len - count
    BY <2>2
  <2>4. calls' = [calls EXCEPT ![1] = e]
    BY <1>3
  <2> HIDE DEF e, Call
  <2>5. calls' \in Seq(Call) /\ Len(calls') = Len(calls) /\ DOMAIN calls' = DOMAIN calls
        /\ \A i \in DOMAIN calls : calls'[i] = IF i = 1 THEN e ELSE calls[i]
    BY <1>2, <2>1, <2>3, <2>4
  <2> QED
    BY <1>2, <2>3, <2>5
<1>6. Done' = Done /\ (AtMessage' <=> AtMessage) /\ Printing' = Printing
      /\ (\A i : Original(i)' = Original(i)) /\ (Discarded("err")' <=> Discarded("err"))
  BY <1>1, <1>2, <1>3, <1>5 DEF Done, AtMessage, Original, Printing, Discarded
<1>7. CallsLeft'
  <2>1. calls'[1].len <= Original(Done + 1).len
    <3>1. calls[1].len <= Original(Done + 1).len /\ Original(Done + 1).len \in Nat
      <4>1. /\ calls[1].len <= Original(Done + 1).len
            /\ input.prints \in Seq(Nat) /\ Len(input.prints) \in Nat
        BY <1>1, FirstCall
      <4>2. Done + 1 <= Len(input.prints) => Done + 1 \in 1 .. Len(input.prints)
        BY <1>2, <4>1
      <4>3. Done + 1 <= Len(input.prints) => input.prints[Done + 1] \in Nat
        BY <4>1, <4>2
      <4>4. input.message \in Nat
        BY <1>1 DEF TypeOK, Input
      <4> QED
        BY <4>1, <4>3, <4>4 DEF Original
    <3> QED
      BY <1>2, <1>4, <1>5, <3>1
  <2>2. ASSUME NEW i \in DOMAIN calls
        PROVE  /\ calls'[i].stream = Original(Done + i).stream
               /\ IF i = 1 THEN calls'[i].len <= Original(Done + i).len
                  ELSE calls'[i].len = Original(Done + i).len
    BY <1>1, <1>5, <2>1 DEF CallsLeft
  <2> QED
    BY <1>1, <1>5, <1>6, <2>2 DEF CallsLeft
<1>8. printed["out"] \in Nat /\ printed["err"] \in Nat
      /\ \A r \in Stream : printed'[r] = IF r = s THEN printed[r] + count ELSE printed[r]
  BY <1>1, <1>2, <1>3 DEF TypeOK, Stream
<1>9. AtMessage <=> s = "err"
  BY <1>1 DEF AtMessage
<1>10. ResultsPrinted'
  <2>1. CASE AtMessage
    BY <1>1, <1>3, <1>6, <1>8, <1>9, <2>1 DEF ResultsPrinted, Stream
  <2>2. CASE ~AtMessage
    <3>1. s = "out" /\ "out" \in Stream
      BY <1>2, <1>9, <2>2 DEF Stream
    <3>2. printed'["out"] = printed["out"] + count
          /\ printed["out"] = Printing[Done + 1] - calls[1].len
      BY <1>1, <1>8, <2>2, <3>1 DEF ResultsPrinted
    <3>3. Printing[Done + 1] \in Nat
      <4>1. Done + 1 \in 0 .. Len(input.prints) /\ input.prints \in Seq(Nat)
        <5>1. /\ Len(input.prints) \in Nat /\ Done # Len(input.prints)
              /\ Len(calls) = Len(input.prints) + 1 - Done /\ input.prints \in Seq(Nat)
          BY <1>1, <2>2, FirstCall
        <5> QED
          BY <1>2, <5>1
      <4> QED
        BY <4>1, PrintingSteps
    <3>4. printed'["out"] = Printing[Done + 1] - calls'[1].len
      BY <1>2, <1>4, <1>5, <3>2, <3>3
    <3> QED
      BY <1>6, <2>2, <3>4 DEF ResultsPrinted
  <2> QED
    BY <2>1, <2>2
<1>11. MessagePrinted'
  <2>1. CASE AtMessage
    <3>1. printed'["err"] = printed["err"] + count /\ ~Discarded("err")
      BY <1>3, <1>8, <1>9, <2>1 DEF Stream
    <3>2. printed["err"] = input.message - calls[1].len
      BY <1>1, <2>1, <3>1 DEF MessagePrinted
    <3>3. input.message \in Nat
      BY <1>1 DEF TypeOK, Input
    <3>4. printed'["err"] = input'.message - calls'[1].len
      BY <1>2, <1>3, <1>4, <1>5, <3>1, <3>2, <3>3
    <3> QED
      BY <1>5, <1>6, <2>1, <3>1, <3>4 DEF MessagePrinted
  <2>2. CASE ~AtMessage
    <3>1. printed'["err"] = printed["err"]
      BY <1>8, <1>9, <2>2 DEF Stream
    <3> QED
      BY <1>1, <1>6, <2>2, <3>1 DEF MessagePrinted
  <2> QED
    BY <2>1, <2>2
<1> QED
  BY <1>7, <1>10, <1>11 DEF PrintedInv

LEMMA CopiedPrinted == OutputInv /\ PrintedInv /\ Copied => PrintedInv'
<1> SUFFICES ASSUME OutputInv, PrintedInv, Copied PROVE PrintedInv'
  OBVIOUS
<1> DEFINE Call == [stream : Stream, len : Nat]
           N    == Len(input.prints)
<1>1. TypeOK /\ CallsLeft /\ ResultsPrinted /\ MessagePrinted /\ calls # <<>>
  BY DEF OutputInv, PrintedInv, Copied
<1>2. /\ Len(calls) \in Nat \ {0} /\ DOMAIN calls = 1 .. Len(calls) /\ 1 \in DOMAIN calls
      /\ Head(calls) = calls[1] /\ calls[1].len \in Nat /\ calls[1].stream \in Stream
      /\ input.prints \in Seq(Nat) /\ N \in Nat
      /\ Done \in Nat /\ Len(calls) = N + 1 - Done
      /\ AtMessage <=> Done = N
  BY <1>1, FirstCall
<1>3. /\ UNCHANGED <<input, printed>> /\ calls' = Tail(calls)
      /\ calls[1].len = 0 \/ Discarded(calls[1].stream)
  BY <1>2 DEF Copied
<1>4. /\ Len(calls') = Len(calls) - 1 /\ DOMAIN calls' = 1 .. Len(calls) - 1
      /\ \A i \in 1 .. Len(calls) - 1 : calls'[i] = calls[i + 1]
      /\ (calls' = <<>> <=> Len(calls) = 1)
  <2>1. calls \in Seq(Call)
    BY <1>1 DEF TypeOK
  <2> HIDE DEF Call
  <2>2. calls' \in Seq(Call) /\ Len(calls') = Len(calls) - 1
        /\ DOMAIN calls' = 1 .. Len(calls) - 1
    BY <1>1, <1>3, <2>1
  <2>3. \A i \in 1 .. Len(calls) - 1 : calls'[i] = calls[i + 1]
    BY <1>1, <1>3, <2>1
  <2>4. calls' = <<>> <=> Len(calls') = 0
    BY <2>2, EmptySeq
  <2> QED
    BY <1>2, <2>2, <2>3, <2>4
<1>5. /\ Done' = Done + 1 /\ Printing' = Printing
      /\ (\A i : Original(i)' = Original(i)) /\ (Discarded("err")' <=> Discarded("err"))
  <2>1. Done' = N + 1 - (Len(calls) - 1)
    BY <1>3, <1>4 DEF Done
  <2>2. Done' = Done + 1
    BY <1>2, <2>1
  <2> QED
    BY <1>3, <2>2 DEF Original, Printing, Discarded
<1>6. CallsLeft'
  <2>1. ASSUME NEW i \in DOMAIN calls'
        PROVE  calls'[i].stream = Original(Done + 1 + i).stream
               /\ calls'[i].len = Original(Done + 1 + i).len
               /\ calls'[i].len <= Original(Done + 1 + i).len
    <3>1. i + 1 \in DOMAIN calls /\ i + 1 # 1 /\ Done + (i + 1) = Done + 1 + i
          /\ calls'[i] = calls[i + 1]
      <4>1. i \in 1 .. Len(calls) - 1
        BY <1>4
      <4>2. i + 1 \in 1 .. Len(calls) /\ i + 1 # 1 /\ Done + (i + 1) = Done + 1 + i
        <5>1. Len(calls) \in Nat /\ Done \in Nat
          BY <1>2
        <5> QED
          BY <4>1, <5>1
      <4> QED
        BY <1>2, <1>4, <4>1, <4>2
    <3>2. calls'[i].stream = Original(Done + 1 + i).stream
          /\ calls'[i].len = Original(Done + 1 + i).len
      BY <1>1, <3>1 DEF CallsLeft
    <3>3. calls'[i].len \in Nat
      <4>1. calls[i + 1] \in Call
        <5>1. calls \in Seq(Call)
          BY <1>1 DEF TypeOK
        <5> HIDE DEF Call
        <5> QED
          BY <1>2, <3>1, <5>1
      <4> QED
        BY <3>1, <4>1
    <3> QED
      BY <3>2, <3>3
  <2>2. Done + 1 >= 0
    BY <1>2
  <2> QED
    BY <1>5, <2>1, <2>2 DEF CallsLeft
<1>7. CASE AtMessage
  <2>1. Len(calls) = 1 /\ calls' = <<>>
    BY <1>2, <1>4, <1>7
  <2>2. AtMessage'
    BY <2>1 DEF AtMessage
  <2>3. ResultsPrinted'
    BY <1>1, <1>3, <1>5, <1>7, <2>2 DEF ResultsPrinted
  <2>4. calls[1].stream = "err"
    BY <1>1, <1>7 DEF AtMessage
  <2>5. input.message \in Nat
    BY <1>1 DEF TypeOK, Input
  <2>6. MessagePrinted'
    BY <1>1, <1>3, <1>5, <1>7, <2>1, <2>2, <2>4, <2>5 DEF MessagePrinted
  <2> QED
    BY <1>6, <2>3, <2>6 DEF PrintedInv
<1>8. CASE ~AtMessage
  <2>1. calls[1].stream = "out" /\ calls[1].len = 0
    BY <1>1, <1>2, <1>3, <1>8 DEF AtMessage, Stream, Discarded
  <2>2. /\ Done + 1 \in 1 .. N /\ Done + 1 \in 0 .. N /\ calls' # <<>> /\ 1 \in DOMAIN calls'
        /\ (Done + 1 # N => Done + 2 \in 1 .. N /\ Done + 2 <= N /\ (Done + 2) - 1 = Done + 1)
    <3>1. /\ Len(calls) \in Nat \ {0} /\ Len(calls) = N + 1 - Done
          /\ N \in Nat /\ Done \in Nat /\ Done # N
      BY <1>2, <1>8
    <3> HIDE DEF N
    <3>2. Done + 1 \in 1 .. N /\ Done + 1 \in 0 .. N
          /\ Len(calls) # 1 /\ 1 \in 1 .. Len(calls) - 1
      BY <3>1
    <3>3. Done + 1 # N => Done + 2 \in 1 .. N /\ Done + 2 <= N /\ (Done + 2) - 1 = Done + 1
      BY <3>1
    <3> QED
      BY <1>4, <3>2, <3>3
  <2>8. calls'[1] = calls[2] /\ 2 \in DOMAIN calls
    <3>1. Len(calls) \in Nat /\ Len(calls) = N + 1 - Done /\ N \in Nat /\ Done \in Nat
      BY <1>2
    <3>2. 1 \in 1 .. Len(calls) - 1 /\ 2 \in 1 .. Len(calls)
      <4> HIDE DEF N
      <4> QED
        BY <2>2, <3>1
    <3>3. calls'[1] = calls[1 + 1]
      BY <1>4, <3>2
    <3> QED
      BY <1>2, <3>2, <3>3
  <2>9. Done + 1 = N => ~(Done + 2 <= N)
    <3>1. N \in Nat /\ Done \in Nat
      BY <1>2
    <3> HIDE DEF N
    <3> QED
      BY <3>1
  <2>3. AtMessage' <=> Done + 1 = N
    <3>1. calls'[1] = calls[2] /\ 2 \in DOMAIN calls
      BY <2>8
    <3>2. calls[2].stream = Original(Done + 2).stream
      BY <1>1, <3>1 DEF CallsLeft
    <3>3. Done + 2 <= N <=> Done + 1 # N
      BY <1>2, <2>2
    <3> QED
      BY <2>2, <3>1, <3>2, <3>3 DEF AtMessage, Original
  <2>4. printed'["out"] = Printing[Done + 1]
    <3>1. Printing[Done + 1] \in Nat
      BY <1>2, <2>2, PrintingSteps
    <3> QED
      BY <1>1, <1>3, <1>8, <2>1, <3>1 DEF ResultsPrinted
  <2>5. ~AtMessage' => Printing[Done + 2] = Printing[Done + 1] + calls'[1].len
                       /\ calls'[1].len \in Nat
    <3> SUFFICES ASSUME Done + 1 # N
                 PROVE  Printing[Done + 2] = Printing[Done + 1] + calls'[1].len
                        /\ calls'[1].len \in Nat
      BY <2>3
    <3>1. calls'[1] = calls[2] /\ 2 \in DOMAIN calls
      BY <2>8
    <3>2. calls[2].len = input.prints[Done + 2]
      BY <1>1, <2>2, <3>1 DEF CallsLeft, Original
    <3>3. Printing[Done + 2] = Printing[Done + 1] + input.prints[Done + 2]
          /\ input.prints[Done + 2] \in Nat
      <4>1. \A n \in 1 .. N : Printing[n] = Printing[n - 1] + input.prints[n]
        BY <1>2, PrintingSteps
      <4>2. \A n \in 1 .. N : input.prints[n] \in Nat
        BY <1>2, SMTT(30)
      <4> HIDE DEF N
      <4>3. Done + 2 \in 1 .. N /\ (Done + 2) - 1 = Done + 1
        BY <2>2
      <4>4. Printing[Done + 2] = Printing[(Done + 2) - 1] + input.prints[Done + 2]
        BY <4>1, <4>3
      <4> QED
        BY <4>2, <4>3, <4>4
    <3> QED
      BY <3>1, <3>2, <3>3
  <2>6. ResultsPrinted'
    <3>1. CASE AtMessage'
      BY <1>3, <1>5, <2>3, <2>4, <3>1 DEF ResultsPrinted
    <3>2. CASE ~AtMessage'
      <4>1. Done' + 1 = Done + 2 /\ Printing[Done + 1] \in Nat
        BY <1>2, <1>5, <2>2, PrintingSteps
      <4>2. printed'["out"] = Printing[Done + 2] - calls'[1].len
        BY <2>4, <2>5, <3>2, <4>1
      <4> QED
        BY <1>5, <3>2, <4>1, <4>2 DEF ResultsPrinted
    <3> QED
      BY <3>1, <3>2
  <2>7. MessagePrinted'
    <3>1. printed'["err"] = 0
      BY <1>1, <1>3, <1>8 DEF MessagePrinted
    <3>2. CASE AtMessage'
      <4>1. calls'[1].len = input.message
        <5>1. ~(Done + 2 <= N)
          BY <2>3, <2>9, <3>2
        <5>2. calls[2].len = Original(Done + 2).len
          BY <1>1, <2>8 DEF CallsLeft
        <5>3. Original(Done + 2).len = input.message
          BY <5>1 DEF Original
        <5> QED
          BY <2>8, <5>2, <5>3
      <4>2. input.message \in Nat
        BY <1>1 DEF TypeOK, Input
      <4>3. input'.message - calls'[1].len = 0
        <5>1. input' = input
          BY <1>3
        <5>2. input.message - input.message = 0
          BY <4>2
        <5> QED
          BY <4>1, <5>1, <5>2
      <4> QED
        BY <2>2, <3>1, <4>3 DEF MessagePrinted
    <3>3. CASE ~AtMessage'
      BY <3>1, <3>3 DEF MessagePrinted
    <3> QED
      BY <3>2, <3>3
  <2> QED
    BY <1>6, <2>6, <2>7 DEF PrintedInv
<1> QED
  BY <1>7, <1>8

-----------------------------------------------------------------------------
\* A buffer from which nothing was written holds all results.
LEMMA NothingWritten ==
  ASSUME OutputInv, input.messages # "stdout", fds["out"] = <<>>, writing.to # "out",
         "out" \notin broken
  PROVE  Len(buf["out"]) = printed["out"]
<1>1. TypeOK /\ "out" \in Stream /\ Sent("out") = Everything("out")
  BY DEF OutputInv, Stream, AllThere
<1>2. buf["out"] \in Seq(Item) /\ Sent("out") = buf["out"]
  <2>1. buf["out"] \in Seq(Item) /\ Unwritten("out") = <<>>
    BY <1>1, Types DEF Unwritten
  <2>2. Sent("out") = (<<>> \o <<>>) \o buf["out"]
    BY <2>1 DEF Sent
  <2> QED
    BY <2>1, <2>2
<1>3. Everything("out") = Bytes("out", 1, printed["out"])
  <2>1. BufferOf("err") = "err"
    BY DEF BufferOf
  <2>2. Messages("out") = <<>> /\ Results("out") = Bytes("out", 1, printed["out"])
    BY <2>1 DEF Messages, Results
  <2>3. /\ Everything("out") = Results("out") \o Messages("out")
        /\ Results("out") \in Seq(Item)
    BY <1>1, EverythingParts
  <2> QED
    BY <2>2, <2>3
<1>4. printed["out"] \in Nat
  BY <1>1, Types
<1>5. Len(Bytes("out", 1, printed["out"])) = printed["out"]
  <2>1. 1 <= printed["out"] + 1 /\ printed["out"] - 1 + 1 = printed["out"] /\ 1 \in Nat
    BY <1>4
  <2> QED
    BY <1>1, <1>4, <2>1, BytesType
<1> QED
  BY <1>1, <1>2, <1>3, <1>5

\* What is handed over is not for another descriptor.
LEMMA HandedTo ==
  ASSUME NEW d, d # "out", NEW contents, writing' = Handed(d, contents)
  PROVE  writing'.to # "out"
BY DEF Handed, Nowhere

LEMMA InitEnd == Init => EndInv
<1> SUFFICES ASSUME Init PROVE EndInv
  OBVIOUS
<1>1. AtEnd
  BY DEF Init, AtEnd
<1>2. Quiet
  BY DEF Init, Quiet, Nowhere, Stream
<1> QED
  BY <1>1, <1>2, InitInv, InitPrinted DEF EndInv

LEMMA CopyQuiet ==
  ASSUME OutputInv, OutputInv', Quiet, Copy
  PROVE  Quiet'
<1> DEFINE s     == calls[1].stream
           d     == BufferOf(s)
           avail == CapOf(d) - Len(buf[d])
           count == IF avail < calls[1].len THEN avail ELSE calls[1].len
           last  == printed[s] + count
           new   == Bytes(s, printed[s] + 1, last)
           contents == buf[d] \o new
<1>1. TypeOK /\ calls # <<>> /\ UNCHANGED <<input, fds, broken>>
  BY DEF OutputInv, Copy
<1>2. Head(calls) = calls[1] /\ calls[1].len \in Nat /\ s \in Stream
  <2> DEFINE Call == [stream : Stream, len : Nat]
  <2>1. calls \in Seq(Call)
    BY <1>1 DEF TypeOK
  <2>2. Head(calls) = calls[1] /\ calls[1] \in Call
    <3> HIDE DEF Call
    <3> QED
      BY <1>1, <2>1
  <2> QED
    BY <2>2
<1>3. /\ printed' = [printed EXCEPT ![s] = last]
      /\ IF Full(d, contents)
         THEN writing' = Handed(d, contents)
         ELSE UNCHANGED writing
  BY <1>2 DEF Copy, Flushed
<1> HIDE DEF s
<1>4. d \in Stream
  BY <1>2 DEF BufferOf, Stream
<1>5. printed[s] \in Nat /\ buf[d] \in Seq(Item) /\ Len(buf[d]) \in Nat /\ count \in Nat
  <2>1. printed[s] \in Nat /\ buf[d] \in Seq(Item) /\ CapOf(d) \in Nat /\ Len(buf[d]) \in Nat
    BY <1>1, <1>2, <1>4, Types
  <2>2. Len(buf[d]) < CapOf(d)
    BY <1>1, <1>4 DEF TypeOK
  <2>3. avail \in Nat
    BY <2>1, <2>2
  <2>4. calls[1].len \in Nat
    BY <1>2
  <2> HIDE DEF avail
  <2> QED
    BY <2>1, <2>3, <2>4
<1> HIDE DEF count
<1>6. last \in Nat /\ Len(contents) = Len(buf[d]) + count
  <2>1. /\ printed[s] + 1 \in Nat /\ last \in Nat /\ printed[s] + 1 <= last + 1
        /\ last - (printed[s] + 1) + 1 = count
    BY <1>5
  <2>2. new \in Seq(Item) /\ Len(new) = count
    BY <1>2, <2>1, BytesType DEF From
  <2> HIDE DEF new
  <2>3. Len(contents) = Len(buf[d]) + count
    <3> HIDE DEF d
    <3> QED
      BY <1>5, <2>2
  <2> QED
    BY <2>1, <2>3
<1>7. printed["out"] \in Nat /\ printed'["out"] = IF s = "out" THEN last ELSE printed["out"]
  BY <1>1, <1>2, <1>3 DEF TypeOK, Stream
<1>8. SUFFICES ASSUME printed'["out"] < OutCap, input.messages # "stdout", Fails
               PROVE  fds["out"] = <<>> /\ writing'.to # "out" /\ "out" \notin broken
  BY <1>1 DEF Quiet, Fails
<1>9. fds["out"] = <<>> /\ writing.to # "out" /\ "out" \notin broken
  <2>1. OutCap \in Nat
    BY CapAssumption
  <2>2. printed["out"] < OutCap
    <3>1. CASE s = "out"
      BY <1>5, <1>6, <1>7, <1>8, <2>1, <3>1
    <3>2. CASE s # "out"
      BY <1>7, <1>8, <3>2
    <3> QED
      BY <3>1, <3>2
  <2> QED
    BY <1>8, <2>2 DEF Quiet
<1>10. CASE Full(d, contents)
  <2>1. d # "out"
    <3> SUFFICES ASSUME d = "out" PROVE FALSE
      OBVIOUS
    <3>1. s = "out"
      BY <1>2, <1>8 DEF BufferOf, Stream
    <3>2. Len(buf["out"]) = printed["out"]
      BY <1>8, <1>9, NothingWritten
    <3>3. Len(contents) = OutCap
      BY <1>10 DEF Full, CapOf
    <3>4. last = OutCap
      BY <1>5, <1>6, <3>1, <3>2, <3>3
    <3>5. OutCap \in Nat
      BY CapAssumption
    <3> QED
      BY <1>7, <1>8, <3>1, <3>4, <3>5
  <2>2. writing' = Handed(d, contents)
    BY <1>3, <1>10
  <2> HIDE DEF d, contents
  <2>3. writing'.to # "out"
    BY <2>1, <2>2, HandedTo
  <2> QED
    BY <1>9, <2>3
<1>11. CASE ~Full(d, contents)
  BY <1>3, <1>9, <1>11
<1> QED
  BY <1>10, <1>11

\* Steps of os_write() that are not for standard output.
LEMMA QuietSteps ==
  ASSUME TypeOK, Quiet, UNCHANGED <<input, printed>>,
         writing.to # "out" =>
           /\ fds'["out"] = fds["out"] /\ writing'.to # "out"
           /\ "out" \in broken' => "out" \in broken
  PROVE  Quiet'
BY DEF Quiet, Fails

\* After a step of os_write() the run goes on, if it did not fail.
LEMMA EndSteps ==
  ASSUME AtEnd, ~Computing, UNCHANGED <<input, calls, buf>>,
         \/ UNCHANGED status /\ (input.platform = "posix" => UNCHANGED broken)
         \/ status' = "failure" /\ broken' # {} /\ Computing'
  PROVE  AtEnd'
<1>1. LastFlush' = LastFlush
  BY DEF LastFlush, BufferOf, Fails
<1>2. status \notin {"success", "failure"}
  BY DEF AtEnd
<1>3. CASE UNCHANGED status /\ (input.platform = "posix" => UNCHANGED broken)
  BY <1>1, <1>2, <1>3 DEF AtEnd
<1>4. CASE status' = "failure" /\ broken' # {} /\ Computing'
  BY <1>4 DEF AtEnd
<1> QED
  BY <1>3, <1>4

LEMMA StepEnd == EndInv /\ input.platform \in Plain /\ [Next]_vars => EndInv'
<1> SUFFICES ASSUME EndInv, input.platform \in Plain, [Next]_vars PROVE EndInv'
  OBVIOUS
<1>0. /\ OutputInv /\ PrintedInv /\ AtEnd /\ Quiet /\ TypeOK /\ OutputInv'
  BY StepInv DEF EndInv, OutputInv
<1>1. ASSUME UNCHANGED <<input, calls, printed>>, AtEnd', Quiet' PROVE EndInv'
  BY <1>0, <1>1, PrintedSame DEF EndInv
<1>2. CASE Copy
  <2>1. status = "running" /\ UNCHANGED <<input, broken, status>>
    BY <1>2 DEF Copy
  <2>2. AtEnd'
    BY <1>0, <2>1 DEF AtEnd
  <2> QED
    BY <1>0, <1>2, <2>2, CopyPrinted, CopyQuiet DEF EndInv
<1>3. CASE Copied
  <2>1. status = "running" /\ UNCHANGED <<input, printed, buf, writing, fds, broken, status>>
    BY <1>3 DEF Copied
  <2>2. AtEnd'
    BY <1>0, <2>1 DEF AtEnd
  <2>3. Quiet'
    BY <1>0, <2>1 DEF Quiet, Fails
  <2> QED
    BY <1>0, <1>3, <2>2, <2>3, CopiedPrinted DEF EndInv
<1>4. CASE Ending
  <2>1. /\ status = "running" /\ calls = <<>> /\ status' = "ending"
        /\ writing' = Handed(LastFlush, buf[LastFlush])
        /\ buf' = [buf EXCEPT ![LastFlush] = <<>>]
        /\ UNCHANGED <<input, calls, printed, fds, broken>>
    BY <1>4 DEF Ending, Flushed
  <2>2. LastFlush' = LastFlush /\ LastFlush \in Stream
    BY <2>1 DEF LastFlush, BufferOf, Fails, Stream
  <2>3. buf'[LastFlush] = <<>>
    BY <1>0, <2>1, <2>2 DEF TypeOK
  <2>4. AtEnd'
    BY <1>0, <2>1, <2>2, <2>3 DEF AtEnd
  <2>5. Quiet'
    <3>1. Fails /\ input.messages # "stdout" => LastFlush # "out"
      BY DEF LastFlush, BufferOf
    <3>2. Fails /\ input.messages # "stdout" => writing'.to # "out"
      BY <2>1, <3>1, HandedTo
    <3> QED
      BY <1>0, <2>1, <3>2 DEF Quiet, Fails
  <2> QED
    BY <1>1, <2>1, <2>4, <2>5
<1>5. CASE Exit
  <2>1. /\ status = "ending" /\ Computing
        /\ status' = IF Fails \/ (input.platform \in {"windows", "console"} /\ broken # {})
                     THEN "failure" ELSE "success"
        /\ UNCHANGED <<input, calls, printed, buf, writing, fds, broken>>
    BY <1>5 DEF Exit
  <2>2. LastFlush' = LastFlush /\ (Fails' <=> Fails) /\ Computing'
    BY <2>1 DEF LastFlush, BufferOf, Fails, Computing, Nowhere
  <2>3. calls = <<>> /\ buf[LastFlush] = <<>> /\ ~(input.platform = "posix" /\ broken # {})
    BY <1>0, <2>1 DEF AtEnd
  <2>4. AtEnd'
    BY <2>1, <2>2, <2>3 DEF AtEnd, Files
  <2>5. Quiet'
    BY <1>0, <2>1, <2>2 DEF Quiet
  <2> QED
    BY <1>1, <2>1, <2>4, <2>5
<1>6. CASE Write \/ WriteFile
  <2>1. PICK n, data : ~Computing /\ Writes(n, data)
    BY <1>6 DEF Write, WriteFile, Accepts
  <2>2. /\ fds' = [fds EXCEPT ![writing.to] = @ \o data]
        /\ writing' = Handed(writing.to, SubSeq(writing.data, n + 1, Len(writing.data)))
        /\ UNCHANGED <<input, calls, printed, buf, broken, status>>
    BY <2>1 DEF Writes, Remains
  <2>3. AtEnd'
    BY <1>0, <2>1, <2>2, EndSteps
  <2>4. writing.to # "out" => fds'["out"] = fds["out"] /\ writing'.to # "out"
    <3>1. writing.to # "out" => fds'["out"] = fds["out"]
      BY <1>0, <2>2 DEF TypeOK, Stream
    <3>2. writing.to # "out" => writing'.to # "out"
      BY <2>2, HandedTo
    <3> QED
      BY <3>1, <3>2
  <2>5. Quiet'
    BY <1>0, <2>2, <2>4, QuietSteps
  <2> QED
    BY <1>1, <2>2, <2>3, <2>5
<1>7. CASE WriteOnce
  <2>1. PICK n \in DOMAIN writing.data :
          /\ fds' = [fds EXCEPT ![writing.to] = @ \o SubSeq(writing.data, 1, n)]
          /\ broken' = IF n < Len(writing.data) THEN broken \cup {writing.to} ELSE broken
    BY <1>7 DEF WriteOnce
  <2>2. /\ input.platform = "wasm" /\ ~Computing /\ writing' = Nowhere
        /\ UNCHANGED <<input, calls, printed, buf, status>>
    BY <1>7 DEF WriteOnce
  <2>3. AtEnd'
    BY <1>0, <2>2, EndSteps
  <2>4. Quiet'
    <3>1. writing.to # "out" => fds'["out"] = fds["out"]
      BY <1>0, <2>1 DEF TypeOK, Stream
    <3>2. writing'.to # "out"
      BY <2>2 DEF Nowhere
    <3> QED
      BY <1>0, <2>1, <2>2, <3>1, <3>2, QuietSteps
  <2> QED
    BY <1>1, <2>2, <2>3, <2>4
<1>8. CASE WriteFails \/ WriteIgnored
  <2>1. /\ ~Computing /\ writing' = Nowhere /\ broken' = broken \cup {writing.to}
        /\ UNCHANGED <<input, calls, printed, buf, fds>>
        /\ status' = "failure" \/ (status' = status /\ input.platform # "posix")
    BY <1>8 DEF WriteFails, WriteIgnored
  <2>2. broken' # {} /\ Computing'
    BY <2>1 DEF Computing, Nowhere
  <2>3. AtEnd'
    BY <1>0, <2>1, <2>2, EndSteps
  <2>4. Quiet'
    <3>1. writing'.to # "out"
      BY <2>1 DEF Nowhere
    <3> QED
      BY <1>0, <2>1, <3>1, QuietSteps
  <2> QED
    BY <1>1, <2>1, <2>3, <2>4
<1>9. CASE UNCHANGED vars
  <2>1. UNCHANGED <<input, calls, printed, buf, writing, fds, broken, status>>
    BY <1>9 DEF vars
  <2>2. AtEnd' /\ Quiet'
    BY <1>0, <2>1 DEF AtEnd, Quiet, LastFlush, BufferOf, Fails, Computing, Nowhere
  <2> QED
    BY <1>1, <2>1, <2>2
<1>10. ~WriteConsole
  BY DEF WriteConsole, Accepts, Plain, Files
<1> QED
  BY <1>2, <1>3, <1>4, <1>5, <1>6, <1>7, <1>8, <1>9, <1>10 DEF Next, Stopped

LEMMA EndSuccess == EndInv /\ input.platform \in Plain => SuccessIsComplete
<1> SUFFICES ASSUME EndInv, input.platform \in Plain, status = "success"
             PROVE  /\ printed["out"] = Printing[Len(input.prints)]
                    /\ \/ Is("out", fds["out"], Bytes("out", 1, printed["out"]))
                       \/ input.platform = "wasm" /\ "out" \in broken
  BY DEF SuccessIsComplete
<1>1. /\ OutputInv /\ TypeOK /\ calls = <<>> /\ buf[LastFlush] = <<>> /\ Computing /\ ~Fails
      /\ input.platform \in Files => broken = {}
  BY DEF EndInv, AtEnd, OutputInv
<1>2. printed["out"] = Printing[Len(input.prints)]
  BY <1>1 DEF EndInv, PrintedInv, ResultsPrinted, AtMessage
<1>3. printed["err"] = 0
  <2>1. input.message = 0
    BY <1>1 DEF Fails, TypeOK, Input
  <2> QED
    BY <1>1, <2>1 DEF EndInv, PrintedInv, MessagePrinted, AtMessage
<1>4. CASE "out" \notin broken
  <2>1. "out" \in Stream /\ LastFlush = "out"
    BY <1>1 DEF Stream, LastFlush
  <2>2. Sent("out") = Everything("out")
    BY <1>1, <1>4, <2>1 DEF OutputInv, AllThere
  <2>3. Sent("out") = fds["out"]
    <3>1. fds["out"] \in Seq(Item) /\ Unwritten("out") = <<>> /\ buf["out"] = <<>>
      BY <1>1, <2>1, Types
    <3>2. Sent("out") = (fds["out"] \o <<>>) \o <<>>
      BY <3>1 DEF Sent
    <3> QED
      BY <3>1, <3>2, ConcatEmptySeq
  <2>4. Everything("out") = Bytes("out", 1, printed["out"])
    <3>1. Messages("out") = <<>> /\ Results("out") = Bytes("out", 1, printed["out"])
      BY <1>3 DEF Messages, Results, Bytes
    <3>2. /\ Everything("out") = Results("out") \o Messages("out")
          /\ Results("out") \in Seq(Item)
      BY <1>1, <2>1, EverythingParts
    <3> QED
      BY <3>1, <3>2, ConcatEmptySeq
  <2>5. Is("out", fds["out"], fds["out"])
    BY DEF Is
  <2> QED
    BY <1>2, <2>2, <2>3, <2>4, <2>5
<1>5. CASE "out" \in broken
  <2>1. input.platform = "wasm"
    BY <1>1, <1>5 DEF Plain
  <2> QED
    BY <1>2, <1>5, <2>1
<1> QED
  BY <1>4, <1>5

LEMMA SuffixOfConcat ==
  ASSUME NEW x \in Seq(Item), NEW y \in Seq(Item)
  PROVE  IsSuffix(y, x \o y)
<1> DEFINE z == x \o y
<1>1. z \in Seq(Item) /\ Len(z) = Len(x) + Len(y)
      /\ \A k \in 1 .. Len(x) + Len(y) : z[k] = IF k <= Len(x) THEN x[k] ELSE y[k - Len(x)]
  BY ConcatProperties, Zenon
<1>2. Len(x) \in Nat /\ Len(y) \in Nat
  OBVIOUS
<1> HIDE DEF z
<1> DEFINE r == Reverse(y)
           t == Reverse(z)
<1>3. /\ r \in Seq(Item) /\ Len(r) = Len(y)
      /\ \A k \in 1 .. Len(y) : r[k] = y[(Len(y) - k) + 1]
  BY <1>2 DEF Reverse
<1>4. /\ t \in Seq(Item) /\ Len(t) = Len(z)
      /\ \A k \in 1 .. Len(z) : t[k] = z[(Len(z) - k) + 1]
  BY <1>1, <1>2 DEF Reverse
<1> HIDE DEF r, t
<1>5. \A k \in 1 .. Len(y) : r[k] = t[k]
  <2> SUFFICES ASSUME NEW k \in 1 .. Len(y) PROVE r[k] = t[k]
    OBVIOUS
  <2>1. /\ k \in 1 .. Len(z) /\ (Len(z) - k) + 1 \in 1 .. Len(x) + Len(y)
        /\ ~((Len(z) - k) + 1 <= Len(x)) /\ ((Len(z) - k) + 1) - Len(x) = (Len(y) - k) + 1
    BY <1>1, <1>2
  <2>2. t[k] = z[(Len(z) - k) + 1]
    BY <1>4, <2>1
  <2>3. z[(Len(z) - k) + 1] = y[((Len(z) - k) + 1) - Len(x)]
    BY <1>1, <2>1
  <2> QED
    BY <1>3, <2>1, <2>2, <2>3
<1>6. Len(r) <= Len(t)
  BY <1>1, <1>2, <1>3, <1>4
<1>7. SubSeq(r, 1, Len(r)) = SubSeq(t, 1, Len(r))
  <2>1. /\ SubSeq(r, 1, Len(r)) = [k \in 1 .. Len(y) |-> r[k]]
        /\ SubSeq(t, 1, Len(r)) = [k \in 1 .. Len(y) |-> t[k]]
    BY <1>2, <1>3, <1>4, <1>6
  <2> QED
    BY <1>5, <2>1
<1> QED
  BY <1>6, <1>7 DEF IsSuffix, IsPrefix, r, t, z

LEMMA EndFailure == EndInv => FailureIsQuiet
<1> SUFFICES ASSUME EndInv, status = "failure"
             PROVE  /\ printed["out"] < OutCap /\ input.messages # "stdout" /\ Fails
                         => fds["out"] = <<>>
                    /\ broken = {} /\ input.messages # "null" =>
                         IsSuffix(Bytes("err", 1, input.message), fds[BufferOf("err")])
  BY DEF FailureIsQuiet
<1>1. printed["out"] < OutCap /\ input.messages # "stdout" /\ Fails => fds["out"] = <<>>
  BY DEF EndInv, Quiet
<1>2. ASSUME broken = {}, input.messages # "null"
      PROVE  IsSuffix(Bytes("err", 1, input.message), fds[BufferOf("err")])
  <2> DEFINE b == BufferOf("err")
  <2>1. /\ OutputInv /\ TypeOK /\ calls = <<>> /\ buf[b] = <<>> /\ Computing
    BY <1>2 DEF EndInv, AtEnd, OutputInv, LastFlush
  <2>2. printed["err"] = input.message
    BY <1>2, <2>1 DEF EndInv, PrintedInv, MessagePrinted, AtMessage, Discarded
  <2>3. b \in Stream
    BY DEF BufferOf, Stream
  <2>4. Messages(b) = Bytes("err", 1, input.message)
    BY <2>2 DEF Messages
  <2> HIDE DEF b
  <2>5. fds[b] = Everything(b)
    <3>1. fds[b] \in Seq(Item) /\ Unwritten(b) = <<>>
      BY <2>1, <2>3, Types
    <3>2. Sent(b) = (fds[b] \o <<>>) \o <<>>
      BY <2>1, <3>1 DEF Sent
    <3>3. Sent(b) = fds[b]
      BY <3>1, <3>2, ConcatEmptySeq
    <3> QED
      BY <1>2, <2>1, <2>3, <3>3 DEF OutputInv, AllThere
  <2>6. /\ Everything(b) = Results(b) \o Messages(b)
        /\ Results(b) \in Seq(Item) /\ Messages(b) \in Seq(Item)
    BY <2>1, <2>3, EverythingParts
  <2>7. IsSuffix(Messages(b), Results(b) \o Messages(b))
    BY <2>6, SuffixOfConcat
  <2> QED
    BY <2>4, <2>5, <2>6, <2>7 DEF b
<1> QED
  BY <1>1, <1>2

(***************************************************************************)
(* Where bytes are written as they are (not on a console), a run that      *)
(* succeeds has written all of its results, unless a write fell short on   *)
(* WASI: prints8() has copied every text, flush() has emptied the buffer,  *)
(* and os_write() has left nothing and met no failure.                     *)
(***************************************************************************)
THEOREM PlainSuccess == Spec => [](input.platform \in Plain => SuccessIsComplete)
<1> DEFINE I == input.platform \in Plain => EndInv
<1>1. Init => I
  BY InitEnd
<1>2. I /\ [Next]_vars => I'
  <2>1. [Next]_vars => input' = input
    BY DEF Next, vars, Copy, Copied, Ending, Exit, Write, WriteFile, WriteConsole, WriteOnce,
           WriteFails, WriteIgnored, Stopped, Writes
  <2> QED
    BY <2>1, StepEnd
<1>3. I => (input.platform \in Plain => SuccessIsComplete)
  BY EndSuccess
<1> QED
  BY <1>1, <1>2, <1>3, PTL DEF Spec

(***************************************************************************)
(* There, too, a run that fails has left its results in the buffer, if     *)
(* they fit and messages do not go the same way, and its message is the    *)
(* last thing written, complete unless a write failed or it is discarded.  *)
(***************************************************************************)
THEOREM PlainFailure == Spec => [](input.platform \in Plain => FailureIsQuiet)
<1> DEFINE I == input.platform \in Plain => EndInv
<1>1. Init => I
  BY InitEnd
<1>2. I /\ [Next]_vars => I'
  <2>1. [Next]_vars => input' = input
    BY DEF Next, vars, Copy, Copied, Ending, Exit, Write, WriteFile, WriteConsole, WriteOnce,
           WriteFails, WriteIgnored, Stopped, Writes
  <2> QED
    BY <2>1, StepEnd
<1>3. I => (input.platform \in Plain => FailureIsQuiet)
  BY EndFailure
<1> QED
  BY <1>1, <1>2, <1>3, PTL DEF Spec

=============================================================================
