----------------------------- MODULE ArgsProofs -----------------------------
(***************************************************************************)
(* Proofs about the fieldwriter, for any arguments and any job: what is    *)
(* written is exactly one representative of what was appended, and the     *)
(* orders of libraries and directories that matter are kept.               *)
(***************************************************************************)
EXTENDS Args, FiniteSetTheorems, TLAPS

\* Excluded arguments have position -1, or will have once the path is read.
ExcludedPositions ==
  /\ SysArgs(path) \subseteq Excluded
  /\ \A a \in Arg : positions[a] = -1 => a \in Excluded
  /\ \A a \in Excluded : positions[a] = -1 \/ a \in SysArgs(path)
  /\ phase # "exclude" => path = <<>>
  /\ phase = "exclude" => list = <<>>

\* The position of any other argument is that of its representative.
PositionsRepresent ==
  \A a \in Arg :
    /\ ~dedupable(a) /\ a \notin Excluded => positions[a] = 0
    /\ dedupable(a) /\ a \notin Excluded =>
         IF positions[a] = 0
         THEN \A i \in DOMAIN list : list[i] # a
         ELSE /\ positions[a] \in DOMAIN list
              /\ list[positions[a]] = a
              /\ Representative(list, positions[a])

\* writeargs() has written the nodes in position among those it passed.
WrittenSoFar ==
  /\ \A k, m \in DOMAIN written : k < m => written[k] < written[m]
  /\ {written[k] : k \in DOMAIN written} = {i \in 1 .. cursor : inposition(i)}
  /\ phase \in {"exclude", "append", "unmatched"} => cursor = 0
  /\ phase = "done" => cursor = Len(list)

\* How many tokens appendfield() has taken.
Taken == Len(job.tokens) - Len(field)

\* The list is the tokens taken so far that the filter lets through.
ListPassed ==
  /\ Taken \in Nat
  /\ \A k \in 1 .. Len(field) : field[k] = job.tokens[Taken + k]
  /\ Len(list) = Passed(Taken)
  /\ \A j \in Through(Taken) : Passed(j) \in 1 .. Len(list) /\ list[Passed(j)] = job.tokens[j]
  /\ phase \in {"write", "done"} => field = <<>>

ArgsInv == TypeOK /\ ExcludedPositions /\ PositionsRepresent /\ WrittenSoFar /\ ListPassed

-----------------------------------------------------------------------------
LEMMA JobFields ==
  ASSUME NEW j \in Job
  PROVE  /\ j.sysflag \in {"-I", "-L"}
         /\ j.syspath \in Seq(Dir)
         /\ j.tokens \in Seq(Arg \cup {Unmatched})
BY DEF Job

\* What insertsyspath() excludes is an argument, and no library.
LEMMA SysArgType ==
  ASSUME TypeOK, NEW d \in Dir
  PROVE  SysArg(d) \in Arg /\ SysArg(d).flag \in {"-I", "-L"}
<1>1. job.sysflag \in {"-I", "-L"} /\ d.value \in Value \cup {NoValue}
  BY JobFields DEF TypeOK, Dir
<1>2. SysArg(d) \in Arg
  BY <1>1 DEF SysArg, Arg, Flag
<1>3. SysArg(d).flag = job.sysflag
  BY DEF SysArg
<1> QED
  BY <1>1, <1>2, <1>3

\* The entries of a path are its head and those of its tail.
LEMMA SysArgsHeadTail ==
  ASSUME NEW dirs \in Seq(Dir), dirs # <<>>
  PROVE  /\ Head(dirs) \in Dir /\ Tail(dirs) \in Seq(Dir)
         /\ SysArgs(dirs) = (IF Usable(Head(dirs)) THEN {SysArg(Head(dirs))} ELSE {})
                              \cup SysArgs(Tail(dirs))
<1>1. Head(dirs) \in Dir /\ Tail(dirs) \in Seq(Dir) /\ Head(dirs) = dirs[1]
  OBVIOUS
<1>2. \A i \in DOMAIN dirs :
        i = 1 \/ (i - 1 \in DOMAIN Tail(dirs) /\ Tail(dirs)[i-1] = dirs[i])
  OBVIOUS
<1>3. \A i \in DOMAIN Tail(dirs) : i + 1 \in DOMAIN dirs /\ Tail(dirs)[i] = dirs[i+1]
  OBVIOUS
<1>4. 1 \in DOMAIN dirs
  OBVIOUS
<1> DEFINE R == (IF Usable(Head(dirs)) THEN {SysArg(Head(dirs))} ELSE {})
                  \cup SysArgs(Tail(dirs))
<1>5. SysArgs(dirs) \subseteq R
  <2>1. ASSUME NEW i \in DOMAIN dirs, Usable(dirs[i]) PROVE SysArg(dirs[i]) \in R
    BY <1>1, <1>2, <2>1 DEF SysArgs
  <2> QED
    BY <2>1 DEF SysArgs
<1>6. R \subseteq SysArgs(dirs)
  <2>1. Usable(Head(dirs)) => SysArg(Head(dirs)) \in SysArgs(dirs)
    BY <1>1, <1>4 DEF SysArgs
  <2>2. SysArgs(Tail(dirs)) \subseteq SysArgs(dirs)
    BY <1>3 DEF SysArgs
  <2> QED
    BY <2>1, <2>2
<1> QED
  BY <1>1, <1>5, <1>6

\* An excluded argument names a directory, or is the flag for one.
LEMMA ExcludedType ==
  ASSUME TypeOK, NEW a \in Excluded
  PROVE  a \in Arg /\ a.flag \in {"-I", "-L"} /\ a.flag # "-l"
<1>1. job.syspath \in Seq(Dir)
  BY JobFields DEF TypeOK
<1>2. PICK i \in DOMAIN job.syspath : Usable(job.syspath[i]) /\ a = SysArg(job.syspath[i])
  BY DEF Excluded, SysArgs
<1>3. job.syspath[i] \in Dir
  BY <1>1, <1>2
<1>4. "-I" # "-l" /\ "-L" # "-l"
  OBVIOUS
<1> QED
  BY <1>2, <1>3, <1>4, SysArgType

-----------------------------------------------------------------------------
\* Of no tokens, none passes.
LEMMA PassedNone == Passed(0) = 0 /\ Through(0) = {}
<1>1. Through(0) = {}
  BY DEF Through
<1> QED
  BY <1>1, FS_EmptySet DEF Passed

\* One more token is one more that passes, if it does.
LEMMA PassedOneMore ==
  ASSUME NEW n \in Nat
  PROVE  /\ Passed(n) \in Nat
         /\ n + 1 \in Through(n + 1) =>
              Passed(n + 1) = Passed(n) + 1 /\ Through(n + 1) = Through(n) \cup {n + 1}
         /\ n + 1 \notin Through(n + 1) =>
              Passed(n + 1) = Passed(n) /\ Through(n + 1) = Through(n)
<1>1. Through(n) \subseteq 1 .. n
  BY DEF Through
<1>2. IsFiniteSet(Through(n)) /\ Passed(n) \in Nat
  <2>1. IsFiniteSet(1 .. n)
    BY FS_Interval
  <2>2. IsFiniteSet(Through(n))
    BY <1>1, <2>1, FS_Subset
  <2> QED
    BY <2>2, FS_CardinalityType DEF Passed
<1>3. n + 1 \notin Through(n)
  BY <1>1
<1>4. ASSUME n + 1 \in Through(n + 1) PROVE Through(n + 1) = Through(n) \cup {n + 1}
  BY <1>4 DEF Through
<1>5. ASSUME n + 1 \notin Through(n + 1) PROVE Through(n + 1) = Through(n)
  BY <1>5 DEF Through
<1>6. Cardinality(Through(n) \cup {n + 1}) = Cardinality(Through(n)) + 1
  BY <1>2, <1>3, FS_AddElement
<1> QED
  BY <1>2, <1>4, <1>5, <1>6 DEF Passed

\* Steps that take no token and append nothing keep what the list is.
LEMMA SameTokens ==
  ASSUME ListPassed, UNCHANGED <<job, field, list>>,
         phase' \in {"write", "done"} => field = <<>>
  PROVE  ListPassed'
<1>1. Taken' = Taken
  BY DEF Taken
<1>2. \A n : Through(n)' = Through(n) /\ Passed(n)' = Passed(n)
  BY DEF Through, Passed
<1> QED
  BY <1>1, <1>2 DEF ListPassed

\* A token is taken: it is appended if it passes, and only then.
LEMMA TakenToken ==
  ASSUME TypeOK, ListPassed, TakesToken, phase' \notin {"write", "done"},
         Head(field) \in Arg /\ filterok(job.filter, Head(field)) =>
           list' = Append(list, Head(field)),
         ~(Head(field) \in Arg /\ filterok(job.filter, Head(field))) => list' = list
  PROVE  ListPassed'
<1> DEFINE n == Taken  a == Head(field)
<1>1. /\ field \in Seq(Arg \cup {Unmatched}) /\ field # <<>> /\ field' = Tail(field)
      /\ job' = job /\ list \in Seq(Arg)
  BY DEF TypeOK, TakesToken
<1>2. job.tokens \in Seq(Arg \cup {Unmatched})
  BY JobFields DEF TypeOK
<1>3. n \in Nat /\ Len(list) = Passed(n)
  BY DEF ListPassed
<1>4. /\ Len(field) \in Nat \ {0} /\ Len(field') = Len(field) - 1 /\ a = field[1]
      /\ \A k \in 1 .. Len(field') : field'[k] = field[k + 1]
  BY <1>1
<1>5. Taken' = n + 1
  BY <1>1, <1>2, <1>3, <1>4 DEF Taken
<1>6. a = job.tokens[n + 1]
  BY <1>3, <1>4 DEF ListPassed
<1>7. \A m : Through(m)' = Through(m) /\ Passed(m)' = Passed(m)
  BY <1>1 DEF Through, Passed
<1>8. n + 1 \in Through(n + 1) <=> a \in Arg /\ filterok(job.filter, a)
  BY <1>3, <1>6 DEF Through
<1>9. \A k \in 1 .. Len(field') : field'[k] = job'.tokens[Taken' + k]
  <2> SUFFICES ASSUME NEW k \in 1 .. Len(field') PROVE field'[k] = job.tokens[n + 1 + k]
    BY <1>1, <1>5
  <2>1. k + 1 \in 1 .. Len(field) /\ n + (k + 1) = n + 1 + k
    BY <1>3, <1>4
  <2>2. field[k + 1] = job.tokens[n + (k + 1)]
    BY <2>1 DEF ListPassed
  <2> QED
    BY <1>4, <2>1, <2>2
<1>10. /\ Len(list') = Passed(n + 1)
       /\ \A j \in Through(n + 1) :
            Passed(j) \in 1 .. Len(list') /\ list'[Passed(j)] = job.tokens[j]
  <2>1. \A j \in Through(n) :
          Passed(j) \in 1 .. Len(list) /\ list[Passed(j)] = job.tokens[j]
    BY DEF ListPassed
  <2>2. CASE n + 1 \in Through(n + 1)
    <3>1. list' = Append(list, a)
      BY <1>8, <2>2
    <3>2. Passed(n + 1) = Passed(n) + 1 /\ Through(n + 1) = Through(n) \cup {n + 1}
      BY <1>3, <2>2, PassedOneMore
    <3>3. /\ Len(list) \in Nat /\ Len(list') = Len(list) + 1 /\ list'[Len(list) + 1] = a
          /\ \A k \in 1 .. Len(list) : list'[k] = list[k]
      BY <1>1, <1>8, <2>2, <3>1
    <3>4. Len(list') = Passed(n + 1)
      BY <1>3, <3>2, <3>3
    <3>5. ASSUME NEW j \in Through(n)
          PROVE  Passed(j) \in 1 .. Len(list') /\ list'[Passed(j)] = job.tokens[j]
      BY <2>1, <3>3
    <3>6. Passed(n + 1) \in 1 .. Len(list') /\ list'[Passed(n + 1)] = job.tokens[n + 1]
      BY <1>3, <1>6, <3>2, <3>3
    <3> QED
      BY <3>2, <3>4, <3>5, <3>6
  <2>3. CASE n + 1 \notin Through(n + 1)
    <3>1. list' = list
      BY <1>8, <2>3
    <3>2. Passed(n + 1) = Passed(n) /\ Through(n + 1) = Through(n)
      BY <1>3, <2>3, PassedOneMore
    <3> QED
      BY <1>3, <2>1, <3>1, <3>2
  <2> QED
    BY <2>2, <2>3
<1> QED
  BY <1>1, <1>3, <1>5, <1>7, <1>9, <1>10 DEF ListPassed

-----------------------------------------------------------------------------
LEMMA InitArgsInv == Init => ArgsInv
<1> SUFFICES ASSUME Init PROVE ArgsInv
  OBVIOUS
<1>1. job \in Job /\ path \in Seq(Dir) /\ field \in Seq(Arg \cup {Unmatched})
  BY InputsAssumption, JobFields DEF Init
<1>2. TypeOK
  BY <1>1 DEF Init, TypeOK
<1>3. ExcludedPositions
  BY DEF Init, ExcludedPositions, Excluded, SysArgs
<1>4. PositionsRepresent
  BY DEF Init, PositionsRepresent
<1>5. WrittenSoFar
  BY DEF Init, WrittenSoFar
<1>6. ListPassed
  <2>1. Taken = 0 /\ field = job.tokens /\ list = <<>> /\ phase = "exclude"
    BY <1>1 DEF Init, Taken
  <2>2. Passed(0) = 0 /\ Through(0) = {}
    BY <1>1, PassedNone
  <2> QED
    BY <2>1, <2>2 DEF ListPassed
<1> QED
  BY <1>2, <1>3, <1>4, <1>5, <1>6 DEF ArgsInv

LEMMA ExcludeInv == ASSUME ArgsInv, Exclude PROVE ArgsInv'
<1> DEFINE d == Head(path)
<1>1. /\ d \in Dir /\ Tail(path) \in Seq(Dir) /\ path' = Tail(path)
      /\ SysArgs(path) = (IF Usable(d) THEN {SysArg(d)} ELSE {}) \cup SysArgs(path')
  BY SysArgsHeadTail DEF ArgsInv, TypeOK, Exclude
<1>2. /\ UNCHANGED <<job, field, list, cursor, written, phase>>
      /\ list = <<>> /\ phase = "exclude"
      /\ Excluded' = Excluded
      /\ positions \in [Arg -> {-1} \cup (0 .. Len(list))]
  BY DEF Exclude, ArgsInv, ExcludedPositions, TypeOK, Excluded, SysArgs, SysArg
<1>3. SysArg(d) \in Arg
  BY <1>1, SysArgType DEF ArgsInv
<1>4. \A a \in Arg : positions'[a] = IF Usable(d) /\ a = SysArg(d) THEN -1 ELSE positions[a]
  BY <1>2, <1>3 DEF Exclude
<1>5. TypeOK'
  BY <1>1, <1>2, <1>3 DEF ArgsInv, TypeOK, Exclude
<1>6. SysArgs(path)' = SysArgs(path')
  BY <1>2 DEF SysArgs, SysArg
<1>7. Usable(d) => SysArg(d) \in Excluded
  BY <1>1 DEF ArgsInv, ExcludedPositions
<1>8. ExcludedPositions'
  <2>1. SysArgs(path') \subseteq Excluded
    BY <1>1 DEF ArgsInv, ExcludedPositions
  <2>2. \A a \in Arg : positions'[a] = -1 => a \in Excluded
    BY <1>4, <1>7 DEF ArgsInv, ExcludedPositions
  <2>3. \A a \in Excluded : positions'[a] = -1 \/ a \in SysArgs(path')
    BY <1>1, <1>4, ExcludedType DEF ArgsInv, ExcludedPositions
  <2> QED
    BY <1>2, <1>6, <2>1, <2>2, <2>3 DEF ExcludedPositions
<1>9. PositionsRepresent'
  BY <1>2, <1>3, <1>4, <1>7 DEF ArgsInv, PositionsRepresent, Representative
<1>10. WrittenSoFar'
  <2>1. cursor = 0
    BY <1>2 DEF ArgsInv, WrittenSoFar
  <2>2. {i \in 1 .. cursor : inposition(i)} = {} /\ {i \in 1 .. cursor' : inposition(i)'} = {}
    BY <1>2, <2>1
  <2> QED
    BY <1>2, <2>1, <2>2 DEF ArgsInv, WrittenSoFar
<1>11. ListPassed'
  BY <1>2, SameTokens DEF ArgsInv
<1> QED
  BY <1>5, <1>8, <1>9, <1>10, <1>11 DEF ArgsInv

\* Steps that leave the list and the positions alone keep what they mean.
LEMMA SameList ==
  ASSUME ArgsInv, UNCHANGED <<job, path, list, positions>>,
         phase' # "exclude" \/ phase' = phase,
         phase # "exclude" \/ path = <<>> \/ phase' = phase
  PROVE  ExcludedPositions' /\ PositionsRepresent' /\ Excluded' = Excluded
<1>1. Excluded' = Excluded /\ SysArgs(path)' = SysArgs(path)
  BY DEF Excluded, SysArgs, SysArg
<1>2. ExcludedPositions'
  BY <1>1 DEF ArgsInv, ExcludedPositions
<1>3. PositionsRepresent'
  BY <1>1 DEF ArgsInv, PositionsRepresent, Representative
<1> QED
  BY <1>1, <1>2, <1>3

\* Appending an argument makes it the representative, unless it is a
\* repetition that stays where it is.
LEMMA AppendArgInv == ASSUME ArgsInv, NEW a \in Arg, AppendArg(a) PROVE ArgsInv'
<1>1. /\ UNCHANGED <<job, path, cursor, written, phase>> /\ phase = "append"
      /\ list \in Seq(Arg) /\ list' = Append(list, a)
      /\ Len(list) \in Nat /\ Len(list') = Len(list) + 1
      /\ \A i \in 1 .. Len(list) : list'[i] = list[i]
      /\ list'[Len(list) + 1] = a
      /\ DOMAIN list = 1 .. Len(list) /\ DOMAIN list' = 1 .. Len(list) + 1
      /\ positions \in [Arg -> {-1} \cup (0 .. Len(list))]
      /\ cursor = 0
      /\ field' \in Seq(Arg \cup {Unmatched})
      /\ written \in Seq(1 .. Len(list))
  <2>1. list \in Seq(Arg) /\ field \in Seq(Arg \cup {Unmatched}) /\ field # <<>>
    BY DEF ArgsInv, TypeOK, AppendArg, TakesToken
  <2>2. UNCHANGED <<job, path, cursor, written, phase>> /\ phase = "append"
         /\ list' = Append(list, a) /\ field' = Tail(field)
    BY DEF AppendArg, TakesToken
  <2>3. /\ positions \in [Arg -> {-1} \cup (0 .. Len(list))]
        /\ written \in Seq(1 .. Len(list))
    BY DEF ArgsInv, TypeOK
  <2>4. cursor = 0
    BY <2>2 DEF ArgsInv, WrittenSoFar
  <2> QED
    BY <2>1, <2>2, <2>3, <2>4
<1>2. \A b \in Arg : positions'[b] = IF b = a /\ dedupable(a) /\ Placed(a)
                                     THEN 1 + Len(list) ELSE positions[b]
  BY <1>1 DEF AppendArg, Position
<1>3. positions' \in [Arg -> {-1} \cup (0 .. Len(list'))]
  BY <1>1 DEF AppendArg, Position
<1>4. written' = <<>>
  <2>1. \A k \in DOMAIN written : written[k] \in 1 .. cursor
    BY DEF ArgsInv, WrittenSoFar
  <2>2. DOMAIN written = {}
    <3>1. \A k : k \notin 1 .. cursor
      BY <1>1
    <3> QED
      BY <2>1, <3>1
  <2> QED
    BY <1>1, <2>2
<1>5. TypeOK'
  BY <1>1, <1>3, <1>4 DEF ArgsInv, TypeOK
<1>6. Excluded' = Excluded /\ SysArgs(path)' = SysArgs(path)
  BY <1>1 DEF Excluded, SysArgs, SysArg
<1>7. \A b \in Excluded : positions[b] = -1 /\ b \in Arg /\ b.flag # "-l"
  <2>1. SysArgs(path) = {}
    BY <1>1 DEF ArgsInv, ExcludedPositions, SysArgs
  <2> QED
    BY <2>1, ExcludedType DEF ArgsInv, ExcludedPositions
<1>8. ExcludedPositions'
  <2>1. \A b \in Excluded : positions'[b] = -1
    BY <1>2, <1>7 DEF Placed
  <2>2. \A b \in Arg : positions'[b] = -1 => b \in Excluded
    BY <1>1, <1>2 DEF ArgsInv, ExcludedPositions
  <2> QED
    BY <1>1, <1>6, <2>1, <2>2 DEF ArgsInv, ExcludedPositions
<1>9. PositionsRepresent'
  <2> SUFFICES ASSUME NEW b \in Arg
               PROVE  /\ ~dedupable(b) /\ b \notin Excluded => positions'[b] = 0
                      /\ dedupable(b) /\ b \notin Excluded =>
                           IF positions'[b] = 0
                           THEN \A i \in DOMAIN list' : list'[i] # b
                           ELSE /\ positions'[b] \in DOMAIN list'
                                /\ list'[positions'[b]] = b
                                /\ Representative(list', positions'[b])
    BY <1>6 DEF PositionsRepresent
  <2>1. CASE ~dedupable(b)
    BY <1>2, <2>1 DEF ArgsInv, PositionsRepresent
  <2>2. CASE dedupable(b) /\ b \notin Excluded /\ b # a
    <3>1. positions'[b] = positions[b]
      BY <1>2, <2>2
    <3>2. CASE positions[b] = 0
      BY <1>1, <2>2, <3>1, <3>2 DEF ArgsInv, PositionsRepresent
    <3>3. CASE positions[b] # 0
      <4> DEFINE n == positions[b]
      <4>1. n \in DOMAIN list /\ list[n] = b /\ Representative(list, n)
        BY <2>2, <3>3 DEF ArgsInv, PositionsRepresent
      <4>2. n \in DOMAIN list' /\ list'[n] = b /\ positions'[b] = n
        BY <1>1, <3>1, <4>1
      <4>3. Representative(list', n)
        <5> HIDE DEF n
        <5>1. \A j \in DOMAIN list' : list'[j] = b => j \in DOMAIN list /\ list[j] = b
          BY <1>1, <2>2
        <5> QED
          BY <4>1, <4>2, <5>1 DEF Representative
      <4> QED
        BY <2>2, <3>1, <3>3, <4>2, <4>3
    <3> QED
      BY <3>2, <3>3
  <2>3. CASE dedupable(b) /\ b \notin Excluded /\ b = a
    <3>1. CASE Placed(a)
      <4> DEFINE n == 1 + Len(list)
      <4>1. positions'[b] = n /\ n \in DOMAIN list' /\ list'[n] = b /\ n # 0
        BY <1>1, <1>2, <2>3, <3>1
      <4>2. Representative(list', n)
        <5>1. CASE b.flag = "-l"
          BY <1>1, <4>1, <5>1 DEF Representative
        <5>2. CASE b.flag # "-l"
          <6>1. \A j \in DOMAIN list : list[j] # b
            BY <2>3, <3>1, <5>2 DEF Placed, ArgsInv, PositionsRepresent
          <6> QED
            BY <1>1, <4>1, <5>2, <6>1 DEF Representative
        <5> QED
          BY <5>1, <5>2
      <4> QED
        BY <2>3, <4>1, <4>2
    <3>2. CASE ~Placed(a)
      <4> DEFINE n == positions[b]
      <4>1. positions'[b] = n /\ n # 0 /\ b.flag # "-l"
        BY <1>2, <2>3, <3>2 DEF Placed
      <4>2. n \in DOMAIN list /\ list[n] = b /\ Representative(list, n)
        BY <2>3, <4>1 DEF ArgsInv, PositionsRepresent
      <4>3. n \in DOMAIN list' /\ list'[n] = b
        BY <1>1, <4>2
      <4>4. Representative(list', n)
        <5> HIDE DEF n
        <5> QED
          BY <1>1, <2>3, <4>1, <4>2, <4>3 DEF Representative
      <4> QED
        BY <2>3, <4>1, <4>3, <4>4
    <3> QED
      BY <3>1, <3>2
  <2> QED
    BY <2>1, <2>2, <2>3
<1>10. WrittenSoFar'
  BY <1>1, <1>4 DEF WrittenSoFar
<1>11. ListPassed'
  <2>1. TakesToken /\ a = Head(field) /\ filterok(job.filter, a)
    BY DEF AppendArg
  <2> QED
    BY <1>1, <2>1, TakenToken DEF ArgsInv
<1> QED
  BY <1>5, <1>8, <1>9, <1>10, <1>11 DEF ArgsInv

\* The steps that change neither the list nor the positions.
LEMMA PassInv ==
  ASSUME ArgsInv, UNCHANGED <<job, path, list, positions, cursor, written>>,
         \/ \E a \in Arg : FilterOut(a)
         \/ FailQuote \/ StartAppending \/ StartWriting \/ Finish \/ UNCHANGED vars
  PROVE  ArgsInv'
<1>0. field' = field \/ (field # <<>> /\ field' = Tail(field))
  BY DEF FilterOut, FailQuote, TakesToken, StartAppending, StartWriting, Finish, vars
<1>1. field' \in Seq(Arg \cup {Unmatched})
  <2>1. field \in Seq(Arg \cup {Unmatched})
    BY DEF ArgsInv, TypeOK
  <2> QED
    BY <1>0, <2>1
<1>2. TypeOK'
  BY <1>1 DEF ArgsInv, TypeOK, FilterOut, FailQuote, TakesToken, StartAppending,
         StartWriting, Finish, vars
<1>3. ExcludedPositions' /\ PositionsRepresent'
  BY SameList DEF FilterOut, FailQuote, TakesToken, StartAppending, StartWriting, Finish, vars
<1>4. {i \in 1 .. cursor' : inposition(i)'} = {i \in 1 .. cursor : inposition(i)}
  BY DEF inposition
<1>5. phase' \in {"exclude", "append", "unmatched"} => cursor' = 0
  BY DEF ArgsInv, WrittenSoFar, FilterOut, FailQuote, TakesToken, StartAppending,
         StartWriting, Finish, vars
<1>6. phase' = "done" => cursor' = Len(list')
  BY DEF ArgsInv, WrittenSoFar, FilterOut, FailQuote, TakesToken, StartAppending,
         StartWriting, Finish, vars
<1>7. WrittenSoFar'
  BY <1>4, <1>5, <1>6 DEF ArgsInv, WrittenSoFar
<1>8. ListPassed'
  <2>1. ASSUME NEW a \in Arg, FilterOut(a) PROVE ListPassed'
    BY <2>1, TakenToken DEF ArgsInv, FilterOut, TakesToken
  <2>2. CASE FailQuote
    <3>1. Head(field) \notin Arg
      BY <2>2, TokenAssumption DEF FailQuote
    <3> QED
      BY <2>2, <3>1, TakenToken DEF ArgsInv, FailQuote
  <2>3. CASE StartAppending \/ StartWriting \/ Finish \/ UNCHANGED vars
    <3>1. UNCHANGED <<job, field, list>>
      BY <2>3 DEF StartAppending, StartWriting, Finish, vars
    <3>2. phase' \in {"write", "done"} => field = <<>>
      BY <2>3 DEF ArgsInv, ListPassed, StartAppending, StartWriting, Finish, vars
    <3> QED
      BY <3>1, <3>2, SameTokens DEF ArgsInv
  <2> QED
    BY <2>1, <2>2, <2>3
<1> QED
  BY <1>2, <1>3, <1>7, <1>8 DEF ArgsInv

LEMMA WriteInv == ASSUME ArgsInv, Write PROVE ArgsInv'
<1>1. /\ UNCHANGED <<job, path, field, list, positions, phase>> /\ phase = "write"
      /\ list \in Seq(Arg) /\ Len(list) \in Nat /\ cursor \in Nat
      /\ cursor' = cursor + 1 /\ cursor' \in 1 .. Len(list)
      /\ written \in Seq(1 .. Len(list))
      /\ \A k \in DOMAIN written : written[k] \in 1 .. cursor
      /\ \A k, m \in DOMAIN written : k < m => written[k] < written[m]
      /\ {written[k] : k \in DOMAIN written} = {i \in 1 .. cursor : inposition(i)}
  BY DEF ArgsInv, TypeOK, WrittenSoFar, Write
<1>2. ExcludedPositions' /\ PositionsRepresent'
  BY <1>1, SameList
<1>3. \A i : inposition(i)' = inposition(i)
  BY <1>1 DEF inposition
<1>4. {i \in 1 .. cursor' : inposition(i)} =
        {i \in 1 .. cursor : inposition(i)}
          \cup (IF inposition(cursor') THEN {cursor'} ELSE {})
  BY <1>1
<1>7. ListPassed'
  BY <1>1, SameTokens DEF ArgsInv, ListPassed
<1>5. CASE inposition(cursor')
  <2>1. /\ written' = Append(written, cursor')
        /\ written' \in Seq(1 .. Len(list))
        /\ DOMAIN written = 1 .. Len(written) /\ Len(written) \in Nat
        /\ DOMAIN written' = 1 .. Len(written) + 1
        /\ \A k \in DOMAIN written : written'[k] = written[k]
        /\ written'[Len(written) + 1] = cursor'
    BY <1>1, <1>5, SMTT(30) DEF Write
  <2>2. \A k, m \in DOMAIN written' : k < m => written'[k] < written'[m]
    BY <1>1, <2>1
  <2>3. {written'[k] : k \in DOMAIN written'} = {written[k] : k \in DOMAIN written} \cup {cursor'}
    <3>1. \A k \in DOMAIN written' : k \in DOMAIN written \/ k = Len(written) + 1
      BY <2>1
    <3>2. \A k \in DOMAIN written : k \in DOMAIN written'
      BY <2>1
    <3>3. Len(written) + 1 \in DOMAIN written'
      BY <2>1
    <3> QED
      BY <2>1, <3>1, <3>2, <3>3
  <2>4. {written'[k] : k \in DOMAIN written'} = {i \in 1 .. cursor' : inposition(i)}
    BY <1>1, <1>4, <1>5, <2>3
  <2>5. WrittenSoFar'
    BY <1>1, <1>3, <2>2, <2>4 DEF WrittenSoFar
  <2> QED
    BY <1>1, <1>2, <1>7, <2>1, <2>5 DEF ArgsInv, TypeOK
<1>6. CASE ~inposition(cursor')
  <2>1. written' = written
    BY <1>1, <1>6 DEF Write
  <2>2. WrittenSoFar'
    BY <1>1, <1>3, <1>4, <1>6, <2>1 DEF WrittenSoFar
  <2> QED
    BY <1>1, <1>2, <1>7, <2>1, <2>2 DEF ArgsInv, TypeOK
<1> QED
  BY <1>5, <1>6

LEMMA NextArgsInv == ArgsInv /\ [Next]_vars => ArgsInv'
<1> SUFFICES ASSUME ArgsInv, [Next]_vars PROVE ArgsInv'
  OBVIOUS
<1>1. CASE Exclude
  BY <1>1, ExcludeInv
<1>2. CASE StartAppending
  BY <1>2, PassInv DEF StartAppending
<1>3. ASSUME NEW a \in Arg, AppendArg(a) PROVE ArgsInv'
  BY <1>3, AppendArgInv
<1>4. ASSUME NEW a \in Arg, FilterOut(a) PROVE ArgsInv'
  BY <1>4, PassInv DEF FilterOut, TakesToken
<1>5. CASE FailQuote
  BY <1>5, PassInv DEF FailQuote, TakesToken
<1>6. CASE StartWriting
  BY <1>6, PassInv DEF StartWriting
<1>7. CASE Write
  BY <1>7, WriteInv
<1>8. CASE Finish
  BY <1>8, PassInv DEF Finish
<1>9. CASE UNCHANGED vars
  BY <1>9, PassInv DEF vars
<1> QED
  BY <1>1, <1>2, <1>3, <1>4, <1>5, <1>6, <1>7, <1>8, <1>9 DEF Next, Stopped

THEOREM ArgsInvariant == Spec => []ArgsInv
BY InitArgsInv, NextArgsInv, PTL DEF Spec

-----------------------------------------------------------------------------
\* A node is in position exactly if it is to be kept.
LEMMA InPositionKept ==
  ASSUME ArgsInv, path = <<>>, NEW i \in DOMAIN list
  PROVE  inposition(i) <=> i \in Kept
<1> DEFINE a == list[i]
<1>1. a \in Arg /\ i \in Nat \ {0}
  BY DEF ArgsInv, TypeOK
<1>2. \A b \in Excluded : positions[b] = -1
  BY DEF ArgsInv, ExcludedPositions, SysArgs
<1>3. CASE ~dedupable(a) /\ a \notin Excluded
  BY <1>1, <1>3 DEF ArgsInv, PositionsRepresent, inposition, Kept
<1>4. CASE a \in Excluded
  <2>1. positions[a] = -1
    BY <1>2, <1>4
  <2> QED
    BY <1>1, <1>4, <2>1 DEF inposition, Kept
<1>5. CASE dedupable(a) /\ a \notin Excluded
  <2> DEFINE n == positions[a]
  <2>1. n # 0 /\ n \in DOMAIN list /\ list[n] = a /\ Representative(list, n)
    BY <1>1, <1>5 DEF ArgsInv, PositionsRepresent
  <2>2. n \in Nat
    BY <2>1 DEF ArgsInv, TypeOK
  <2>3. Representative(list, i) => i = n
    <3> HIDE DEF n
    <3> QED
      BY <1>1, <2>1, <2>2 DEF Representative
  <2> QED
    BY <1>5, <2>1, <2>3 DEF inposition, Kept
<1> QED
  BY <1>3, <1>4, <1>5

LEMMA ArgsInvWritten == ArgsInv => WrittenExactly
<1> SUFFICES ASSUME ArgsInv, phase = "done"
             PROVE  {written[k] : k \in DOMAIN written} = Kept
  BY DEF WrittenExactly
<1>1. /\ path = <<>> /\ cursor = Len(list) /\ DOMAIN list = 1 .. Len(list)
      /\ {written[k] : k \in DOMAIN written} = {i \in 1 .. cursor : inposition(i)}
  BY DEF ArgsInv, ExcludedPositions, WrittenSoFar, TypeOK
<1>2. {i \in DOMAIN list : inposition(i)} = Kept
  <2>1. \A i \in DOMAIN list : inposition(i) <=> i \in Kept
    BY <1>1, InPositionKept
  <2>2. Kept \subseteq DOMAIN list
    BY DEF Kept
  <2> QED
    BY <2>1, <2>2
<1> QED
  BY <1>1, <1>2

(***************************************************************************)
(* writeargs() writes one representative of every argument that may be     *)
(* merged and every argument that may not, and nothing that an entry of    *)
(* the system path excludes.                                               *)
(***************************************************************************)
THEOREM WrittenCorrect == Spec => []WrittenExactly
BY ArgsInvariant, ArgsInvWritten, PTL

\* Some occurrence of an argument is kept: no later than any other or, of a
\* library, no earlier.
LEMMA KeptOccurrence ==
  ASSUME ArgsInv, path = <<>>, NEW i \in DOMAIN list, list[i] \notin Excluded
  PROVE  \E r \in Kept : /\ list[r] = list[i]
                         /\ list[i].flag = "-l" => i <= r
                         /\ list[i].flag # "-l" => r <= i
<1> DEFINE a == list[i]
<1>1. a \in Arg /\ i \in Nat /\ DOMAIN list \subseteq Nat
  BY DEF ArgsInv, TypeOK
<1>2. CASE ~dedupable(a)
  BY <1>1, <1>2 DEF Kept
<1>3. CASE dedupable(a)
  <2> DEFINE r == positions[a]
  <2>1. r \in DOMAIN list /\ list[r] = a /\ Representative(list, r)
    BY <1>1, <1>3 DEF ArgsInv, PositionsRepresent
  <2>2. r \in Kept
    BY <1>3, <2>1 DEF Kept
  <2>3. IF a.flag = "-l" THEN i <= r ELSE r <= i
    <3> HIDE DEF r
    <3> QED
      BY <2>1 DEF Representative
  <2> QED
    BY <2>1, <2>2, <2>3
<1> QED
  BY <1>2, <1>3

\* What is kept is written in the order of the list.
LEMMA KeptInOrder ==
  ASSUME ArgsInv, phase = "done", NEW r \in Kept, NEW s \in Kept, r < s
  PROVE  WrittenBefore(list[r], list[s])
<1>1. {written[k] : k \in DOMAIN written} = Kept
  BY ArgsInvWritten DEF WrittenExactly
<1>2. PICK k \in DOMAIN written, m \in DOMAIN written : written[k] = r /\ written[m] = s
  BY <1>1
<1>3. k < m
  <2>1. k \in Nat /\ m \in Nat /\ r \in Nat /\ s \in Nat
    BY <1>2 DEF ArgsInv, TypeOK
  <2>2. m < k => s < r
    BY <1>2 DEF ArgsInv, WrittenSoFar
  <2>3. m = k => r = s
    BY <1>2
  <2> QED
    BY <2>1, <2>2, <2>3
<1> QED
  BY <1>2, <1>3 DEF WrittenBefore

\* At the end the path is read, and positions are numbers.
LEMMA AtTheEnd ==
  ASSUME ArgsInv, phase = "done"
  PROVE  path = <<>> /\ DOMAIN list \subseteq Nat /\ Kept \subseteq DOMAIN list
BY DEF ArgsInv, ExcludedPositions, TypeOK, Kept

LEMMA ArgsInvDirectory == ArgsInv => DirectoryBeforeLibrary
<1> SUFFICES ASSUME ArgsInv, phase = "done",
                    NEW i \in DOMAIN list, NEW j \in DOMAIN list, i < j,
                    list[i].flag = "-L", list[i] \notin Excluded, list[j].flag = "-l"
             PROVE  WrittenBefore(list[i], list[j])
  BY DEF DirectoryBeforeLibrary
<1>1. list[j] \notin Excluded
  BY ExcludedType DEF ArgsInv
<1>2. PICK r \in Kept : list[r] = list[i] /\ r <= i
  BY AtTheEnd, KeptOccurrence
<1>3. PICK s \in Kept : list[s] = list[j] /\ j <= s
  BY <1>1, AtTheEnd, KeptOccurrence
<1>4. r < s
  BY <1>2, <1>3, AtTheEnd
<1>5. WrittenBefore(list[r], list[s])
  BY <1>4, KeptInOrder
<1> QED
  BY <1>2, <1>3, <1>5

(***************************************************************************)
(* However arguments are repeated and merged, a library is never written   *)
(* before a -L directory that the packages had named before it.            *)
(***************************************************************************)
THEOREM DirectoryCorrect == Spec => []DirectoryBeforeLibrary
BY ArgsInvariant, ArgsInvDirectory, PTL

LEMMA ArgsInvLibraryOrder == ArgsInv => LibraryOrder
<1> SUFFICES ASSUME ArgsInv, phase = "done",
                    NEW i \in DOMAIN list, NEW j \in DOMAIN list, i < j,
                    list[i].flag = "-l", list[j].flag = "-l",
                    \A k \in DOMAIN list : k > i => list[k] # list[i]
             PROVE  WrittenBefore(list[i], list[j])
  BY DEF LibraryOrder
<1>1. list[i] \notin Excluded /\ list[j] \notin Excluded
  BY ExcludedType DEF ArgsInv
<1>2. PICK r \in Kept : list[r] = list[i] /\ i <= r
  BY <1>1, AtTheEnd, KeptOccurrence
<1>3. r = i
  BY <1>2, AtTheEnd
<1>4. PICK s \in Kept : list[s] = list[j] /\ j <= s
  BY <1>1, AtTheEnd, KeptOccurrence
<1>5. r < s
  BY <1>3, <1>4, AtTheEnd
<1>6. WrittenBefore(list[r], list[s])
  BY <1>5, KeptInOrder
<1> QED
  BY <1>2, <1>4, <1>6

(***************************************************************************)
(* A library that follows the last mention of another follows it in the    *)
(* output, for every sequence of arguments.                                *)
(***************************************************************************)
THEOREM LibraryOrderCorrect == Spec => []LibraryOrder
BY ArgsInvariant, ArgsInvLibraryOrder, PTL

LEMMA ArgsInvSearchOrder == ArgsInv => SearchOrder
<1> SUFFICES ASSUME ArgsInv, phase = "done",
                    NEW i \in DOMAIN list, NEW j \in DOMAIN list, i < j,
                    list[i].flag \in {"-I", "-L"}, list[j].flag = list[i].flag,
                    {list[i], list[j]} \cap Excluded = {},
                    \A k \in 1 .. i : list[k] # list[j]
             PROVE  WrittenBefore(list[i], list[j])
  BY DEF SearchOrder
<1>1. list[i].flag # "-l" /\ list[j].flag # "-l"
  <2>1. "-I" # "-l" /\ "-L" # "-l"
    OBVIOUS
  <2> QED
    BY <2>1
<1>2. list[i] \notin Excluded /\ list[j] \notin Excluded
  OBVIOUS
<1>3. PICK r \in Kept : list[r] = list[i] /\ r <= i
  BY <1>1, <1>2, AtTheEnd, KeptOccurrence
<1>4. PICK s \in Kept : list[s] = list[j]
  BY <1>2, AtTheEnd, KeptOccurrence
<1>5. r < s
  <2>1. r \in Nat /\ s \in Nat \ {0} /\ i \in Nat
    BY AtTheEnd DEF ArgsInv, TypeOK
  <2>2. s \notin 1 .. i
    BY <1>4
  <2> QED
    BY <1>3, <2>1, <2>2
<1>6. WrittenBefore(list[r], list[s])
  BY <1>5, KeptInOrder
<1> QED
  BY <1>3, <1>4, <1>6

(***************************************************************************)
(* The directory that was named first is written first, and so searched    *)
(* first, for every sequence of arguments.                                 *)
(***************************************************************************)
THEOREM SearchOrderCorrect == Spec => []SearchOrder
BY ArgsInvariant, ArgsInvSearchOrder, PTL

\* Two neighbours that are kept are written one right behind the other.
LEMMA KeptNeighbours ==
  ASSUME ArgsInv, phase = "done", NEW p \in Kept, p + 1 \in Kept
  PROVE  \E k \in DOMAIN written :
           k + 1 \in DOMAIN written /\ written[k] = p /\ written[k + 1] = p + 1
<1>1. {written[k] : k \in DOMAIN written} = Kept
  BY ArgsInvWritten DEF WrittenExactly
<1>2. PICK k \in DOMAIN written, m \in DOMAIN written : written[k] = p /\ written[m] = p + 1
  BY <1>1
<1>3. /\ written \in Seq(1 .. Len(list)) /\ p \in Nat /\ Len(list) \in Nat
      /\ \A i, j \in DOMAIN written : i < j => written[i] < written[j]
  <2>1. p \in Nat
    BY AtTheEnd
  <2>2. written \in Seq(1 .. Len(list)) /\ list \in Seq(Arg)
    BY DEF ArgsInv, TypeOK
  <2>3. \A i, j \in DOMAIN written : i < j => written[i] < written[j]
    BY DEF ArgsInv, WrittenSoFar
  <2> QED
    BY <2>1, <2>2, <2>3
<1>4. /\ DOMAIN written = 1 .. Len(written) /\ Len(written) \in Nat
      /\ \A i \in DOMAIN written : written[i] \in Nat
  BY <1>3
<1>5. k < m
  <2>1. m < k => p + 1 < p
    BY <1>2, <1>3
  <2>2. m = k => p = p + 1
    BY <1>2
  <2> QED
    BY <1>2, <1>3, <1>4, <2>1, <2>2
<1>6. k + 1 \in DOMAIN written
  BY <1>2, <1>4, <1>5
<1>7. ~(k + 1 < m)
  <2>1. k + 1 < m => p < written[k + 1] /\ written[k + 1] < p + 1
    BY <1>2, <1>3, <1>4, <1>6
  <2> QED
    BY <1>3, <1>4, <1>6, <2>1
<1>8. m = k + 1
  BY <1>2, <1>4, <1>5, <1>7
<1> QED
  BY <1>2, <1>6, <1>8

\* At the end every token that passes the filter is in the list.
LEMMA PassedAtTheEnd ==
  ASSUME ArgsInv, phase = "done", NEW i \in Through(Len(job.tokens))
  PROVE  Passed(i) \in DOMAIN list /\ list[Passed(i)] = job.tokens[i]
<1>1. field = <<>>
  BY DEF ArgsInv, ListPassed
<1>2. job.tokens \in Seq(Arg \cup {Unmatched}) /\ list \in Seq(Arg)
  BY JobFields DEF ArgsInv, TypeOK
<1>3. Taken = Len(job.tokens)
  BY <1>1, <1>2 DEF Taken
<1>4. DOMAIN list = 1 .. Len(list)
  BY <1>2
<1> QED
  BY <1>3, <1>4 DEF ArgsInv, ListPassed

LEMMA ArgsInvDetached == ArgsInv => DetachedKept
<1> SUFFICES ASSUME ArgsInv, phase = "done", NEW i \in DOMAIN job.tokens,
                    {i, i + 1} \subseteq Through(Len(job.tokens)),
                    Detached(job.tokens[i]), job.tokens[i] \notin Excluded,
                    Plain(job.tokens[i + 1])
             PROVE  \E k \in DOMAIN written :
                      /\ k + 1 \in DOMAIN written
                      /\ written[k] = Passed(i) /\ list[written[k]] = job.tokens[i]
                      /\ written[k + 1] = Passed(i) + 1
                      /\ list[written[k + 1]] = job.tokens[i + 1]
  BY DEF DetachedKept
<1> DEFINE p == Passed(i)
<1>1. job.tokens \in Seq(Arg \cup {Unmatched})
  BY JobFields DEF ArgsInv, TypeOK
<1>2. i \in Nat
  BY <1>1
<1>3. Passed(i + 1) = p + 1
  <2>1. i + 1 \in Through(i + 1)
    BY <1>2 DEF Through
  <2> QED
    BY <1>2, <2>1, PassedOneMore
<1>4. /\ p \in DOMAIN list /\ list[p] = job.tokens[i]
      /\ p + 1 \in DOMAIN list /\ list[p + 1] = job.tokens[i + 1]
  BY <1>3, PassedAtTheEnd
<1>5. p \in Kept
  BY <1>4 DEF Kept, Detached, dedupable
<1>6. p + 1 \in Kept
  <2>1. job.tokens[i + 1] \notin Excluded
    BY ExcludedType DEF ArgsInv, Plain
  <2> QED
    BY <1>4, <2>1 DEF Kept, Plain, dedupable
<1>7. PICK k \in DOMAIN written :
        k + 1 \in DOMAIN written /\ written[k] = p /\ written[k + 1] = p + 1
  BY <1>5, <1>6, KeptNeighbours
<1> QED
  BY <1>4, <1>7

(***************************************************************************)
(* A flag and its detached value that both pass the filter are written one *)
(* right behind the other, however often they occur, for any tokens and    *)
(* any system path that does not exclude the flag alone.                   *)
(***************************************************************************)
THEOREM DetachedCorrect == Spec => []DetachedKept
BY ArgsInvariant, ArgsInvDetached, PTL

=============================================================================
