-------------------------------- MODULE Args --------------------------------
(***************************************************************************)
(* The fieldwriter: from the fields of the loaded packages to the          *)
(* arguments that --cflags or --libs prints.                               *)
(*                                                                         *)
(* uconfig() first excludes the system directories, then appends the       *)
(* arguments of every package in list order, and at last writes those that *)
(* are in position.  A repeated argument is written once: where it was     *)
(* first seen or, for a library, where it was last seen.                   *)
(*                                                                         *)
(* An argument is abstracted to its flag and to what follows the flag.     *)
(* The fields of all packages form one sequence of tokens, as the loops    *)
(* over them hand it to appendfield(); dequote() makes the tokens.         *)
(***************************************************************************)
EXTENDS Integers, Sequences, FiniteSets

CONSTANTS
  Value,       \* what may follow a flag
  NoValue,     \* nothing does: "-I" with its argument detached, or "-l"
  Unmatched,   \* a token with an unmatched quote
  Inputs       \* the jobs under consideration

Flag == {"-D", "-I", "-L", "-l", "-f", "-m", "-pthread", "other"}

Arg == [flag : Flag, value : Value \cup {NoValue}]

Filter == {"ANY", "I", "L", "l", "OTHERC", "OTHERL"}

(***************************************************************************)
(* A job: the filter; the flag and the entries of the system path; and the *)
(* tokens of the fields.  An entry is empty, or dequote() makes one whole  *)
(* token of it, or it does not.  Of one that is only quotes it makes a     *)
(* whole token without a value.                                            *)
(***************************************************************************)
Dir == [kind : {"empty", "whole", "other"}, value : Value \cup {NoValue}]

Job ==
  [filter  : Filter,
   sysflag : {"-I", "-L"},
   syspath : Seq(Dir),
   tokens  : Seq(Arg \cup {Unmatched})]

ASSUME ValueAssumption  == NoValue \notin Value
ASSUME TokenAssumption  == Unmatched \notin Arg
ASSUME InputsAssumption == Inputs \subseteq Job

VARIABLES
  job,         \* the job; never changes
  path,        \* insertsyspath(): the entries it has not split off yet
  field,       \* appendfield(): the tokens it has not taken yet
  list,        \* args.list, the arguments appended so far
  positions,   \* args.positions; 0 where it has no node
  cursor,      \* writeargs(): the number of nodes it has passed
  written,     \* the numbers of the nodes it has written
  phase        \* "exclude", "append", "write", "done" or "unmatched"

vars == <<job, path, field, list, positions, cursor, written, phase>>

TypeOK ==
  /\ job \in Job
  /\ path \in Seq(Dir)
  /\ field \in Seq(Arg \cup {Unmatched})
  /\ list \in Seq(Arg)
  /\ positions \in [Arg -> {-1} \cup (0 .. Len(list))]
  /\ cursor \in 0 .. Len(list)
  /\ written \in Seq(1 .. Len(list))
  /\ phase \in {"exclude", "append", "write", "done", "unmatched"}

Init ==
  /\ job \in Inputs
  /\ path = job.syspath
  /\ field = job.tokens
  /\ list = <<>>
  /\ positions = [a \in Arg |-> 0]
  /\ cursor = 0
  /\ written = <<>>
  /\ phase = "exclude"

-----------------------------------------------------------------------------
\* Which arguments a filter lets through.
filterok(f, a) ==
  CASE f = "ANY"    -> TRUE
    [] f = "I"      -> a.flag = "-I"
    [] f = "L"      -> a.flag = "-L"
    [] f = "l"      -> a.flag = "-l"
    [] f = "OTHERC" -> a.flag # "-I"
    [] f = "OTHERL" -> a.flag # "-L" /\ a.flag # "-l"

\* Fault: a detached "-I" or "-L" counts too.
DedupableDetached(a) == a.flag # "other"

\* Arguments that mean the same when repeated.  Not "-I" alone: the
\* directory is the next argument.
dedupable(a) ==
  \/ a.flag = "-pthread"
  \/ a.flag \in {"-D", "-I", "-L", "-l", "-f", "-m"} /\ a.value # NoValue

\* Faults: a library stays where it was first seen; everything else moves to
\* where it was last seen; an excluded directory comes back.
PlacedFirst(a) == positions[a] = 0
PlacedLast(a)  == positions[a] # -1
PlacedAnew(a)  == positions[a] <= 0 \/ a.flag = "-l"

\* Should this occurrence of a become the one that is written?
Placed(a) == positions[a] = 0 \/ a.flag = "-l"

\* Fault: positions are not biased.
PositionUnbiased == Len(list)

\* The position of the node being appended, biased by one.
Position == 1 + Len(list)

\* Is this the correct position for the argument in node i?
inposition(i) == positions[list[i]] = 0 \/ positions[list[i]] = i

-----------------------------------------------------------------------------
(***************************************************************************)
(* insertsyspath(): one entry of the path, or its end.                     *)
(***************************************************************************)
SysArg(dir) == [flag |-> job.sysflag, value |-> dir.value]

\* Empty entries are skipped, and those that are not one whole token.  An
\* entry of quotes alone excludes the flag alone.
Usable(dir) == dir.kind = "whole"

Exclude ==
  /\ phase = "exclude"
  /\ path # <<>>
  /\ positions' = IF Usable(Head(path))
                  THEN [positions EXCEPT ![SysArg(Head(path))] = -1]
                  ELSE positions
  /\ path' = Tail(path)
  /\ UNCHANGED <<job, field, list, cursor, written, phase>>

StartAppending ==
  /\ phase = "exclude"
  /\ path = <<>>
  /\ phase' = "append"
  /\ UNCHANGED <<job, path, field, list, positions, cursor, written>>

(***************************************************************************)
(* appendfield(): one token, filtered and given to appendarg().            *)
(***************************************************************************)
TakesToken ==
  /\ phase = "append"
  /\ field # <<>>
  /\ field' = Tail(field)
  /\ UNCHANGED <<job, path, cursor, written>>

AppendArg(a) ==
  /\ TakesToken
  /\ a = Head(field)
  /\ filterok(job.filter, a)
  /\ list' = Append(list, a)
  /\ positions' = IF dedupable(a) /\ Placed(a)
                  THEN [positions EXCEPT ![a] = Position]
                  ELSE positions
  /\ UNCHANGED phase

FilterOut(a) ==
  /\ TakesToken
  /\ a = Head(field)
  /\ ~filterok(job.filter, a)
  /\ UNCHANGED <<list, positions, phase>>

\* The program exits; what was appended is never written.
FailQuote ==
  /\ TakesToken
  /\ Head(field) = Unmatched
  /\ phase' = "unmatched"
  /\ UNCHANGED <<list, positions>>

StartWriting ==
  /\ phase = "append"
  /\ field = <<>>
  /\ phase' = "write"
  /\ UNCHANGED <<job, path, field, list, positions, cursor, written>>

(***************************************************************************)
(* writeargs(): one node of the list, or its end.                          *)
(***************************************************************************)
Write ==
  /\ phase = "write"
  /\ cursor < Len(list)
  /\ cursor' = cursor + 1
  /\ written' = IF inposition(cursor + 1) THEN Append(written, cursor + 1) ELSE written
  /\ UNCHANGED <<job, path, field, list, positions, phase>>

Finish ==
  /\ phase = "write"
  /\ cursor = Len(list)
  /\ phase' = "done"
  /\ UNCHANGED <<job, path, field, list, positions, cursor, written>>

Stopped == phase \in {"done", "unmatched"} /\ UNCHANGED vars

Next ==
  \/ Exclude
  \/ StartAppending
  \/ \E a \in Arg : AppendArg(a) \/ FilterOut(a)
  \/ FailQuote
  \/ StartWriting
  \/ Write
  \/ Finish
  \/ Stopped

Spec == Init /\ [][Next]_vars

-----------------------------------------------------------------------------
(***************************************************************************)
(* Properties.                                                             *)
(***************************************************************************)

\* The arguments that name the usable entries of a path.
SysArgs(dirs) == {SysArg(dirs[i]) : i \in {k \in DOMAIN dirs : Usable(dirs[k])}}

Excluded == SysArgs(job.syspath)

\* The i-th of these arguments stands for all repetitions of it.
Representative(args, i) ==
  \A j \in DOMAIN args :
    args[j] = args[i] => IF args[i].flag = "-l" THEN j <= i ELSE i <= j

(***************************************************************************)
(* What is written, in terms of what was appended: of the arguments that   *)
(* no entry of the system path excludes, each that may not be merged, and  *)
(* one representative of each other.                                       *)
(***************************************************************************)
Kept ==
  {i \in DOMAIN list :
     /\ list[i] \notin Excluded
     /\ ~dedupable(list[i]) \/ Representative(list, i)}

WrittenExactly ==
  phase = "done" => {written[k] : k \in DOMAIN written} = Kept

\* A written node with argument a comes before one with argument b.
WrittenBefore(a, b) ==
  \E k, m \in DOMAIN written :
    k < m /\ list[written[k]] = a /\ list[written[m]] = b

(***************************************************************************)
(* Removing repetitions never puts a library in front of a -L directory    *)
(* that the packages had named before it.                                  *)
(***************************************************************************)
DirectoryBeforeLibrary ==
  phase = "done" =>
    \A i, j \in DOMAIN list :
      /\ i < j
      /\ list[i].flag = "-L" /\ list[i] \notin Excluded
      /\ list[j].flag = "-l"
      => WrittenBefore(list[i], list[j])

(***************************************************************************)
(* A library that still follows the last mention of another follows it in  *)
(* the output, so that it can resolve what the other leaves undefined.     *)
(***************************************************************************)
LibraryOrder ==
  phase = "done" =>
    \A i, j \in DOMAIN list :
      /\ i < j
      /\ list[i].flag = "-l" /\ list[j].flag = "-l"
      /\ \A k \in DOMAIN list : k > i => list[k] # list[i]
      => WrittenBefore(list[i], list[j])

(***************************************************************************)
(* The directory that was named first is searched first.                   *)
(***************************************************************************)
SearchOrder ==
  phase = "done" =>
    \A i, j \in DOMAIN list :
      /\ i < j
      /\ list[i].flag \in {"-I", "-L"} /\ list[j].flag = list[i].flag
      /\ {list[i], list[j]} \cap Excluded = {}
      /\ \A k \in 1 .. i : list[k] # list[j]
      => WrittenBefore(list[i], list[j])

\* The tokens among the first n that the filter lets through.  The i-th
\* token, if it is one of them, is node Passed(i) of the list.
Through(n) ==
  {j \in 1 .. n : job.tokens[j] \in Arg /\ filterok(job.filter, job.tokens[j])}

Passed(n) == Cardinality(Through(n))

\* A flag whose value is the next argument, if that is one.
Detached(a) == a \in Arg /\ a.value = NoValue /\ a.flag \notin {"-pthread", "other"}

Plain(a) == a \in Arg /\ a.flag = "other"

(***************************************************************************)
(* A flag and its detached value, such as "-I" and "dir", are written one  *)
(* right behind the other, however often either of them occurs, if the     *)
(* filter lets both through and the system path does not exclude the flag  *)
(* alone.                                                                  *)
(***************************************************************************)
DetachedKept ==
  phase = "done" =>
    \A i \in DOMAIN job.tokens :
      /\ {i, i + 1} \subseteq Through(Len(job.tokens))
      /\ Detached(job.tokens[i]) /\ job.tokens[i] \notin Excluded
      /\ Plain(job.tokens[i + 1])
      => \E k \in DOMAIN written :
           /\ k + 1 \in DOMAIN written
           /\ written[k] = Passed(i) /\ list[written[k]] = job.tokens[i]
           /\ written[k + 1] = Passed(i) + 1 /\ list[written[k + 1]] = job.tokens[i + 1]

=============================================================================
