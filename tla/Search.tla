-------------------------------- MODULE Search ------------------------------
(***************************************************************************)
(* Where packages are looked for, and which file is taken: the search list *)
(* built from the environment, the configuration and --with-path, and then *)
(* findpackage() and setprefix() for one package.                          *)
(***************************************************************************)
EXTENDS Integers, Sequences, SequencesExt

CONSTANTS
  Dirs,       \* directories
  Standard,   \* those among them that are named "pkgconfig"
  Inputs      \* the environments and requests under consideration

ASSUME StandardAssumption == Standard \subseteq Dirs

\* A path is a list of directories, of which some may be empty.
Empty == "empty"
Path  == Seq(Dirs \cup {Empty})

\* What there may be in the place of a package file.
Status == {"none", "unreadable", "good", "duplicate", "incomplete"}

(***************************************************************************)
(* A request is a name to be searched for, a path to the file itself (it   *)
(* ends with ".pc"), "pkg-config", which is built in, or a listing.        *)
(***************************************************************************)
Input ==
  [envpath : Path, fixedpath : Path, withs : Seq(Path), define_prefix : BOOLEAN,
   request : {"name", "path", "self", "list"},
   direct  : Status,              \* what there is at the path
   home    : Dirs,                \* where the path leads
   files   : [Dirs -> Status]]    \* what there is under the name

ASSUME InputsAssumption == Inputs \subseteq Input

None == "none"

VARIABLES
  input,     \* never changes
  list,      \* the directories to search
  withs,     \* the values of --with-path to come
  rest,      \* the directories still to be searched
  dir,       \* the directory of the file that was found
  contents,  \* its status, or "builtin"
  prefix,    \* whose grandparent the prefix is, or "own" if it is as in the file
  phase      \* in the end "found", or why it is not, or "crash"

vars == <<input, list, withs, rest, dir, contents, prefix, phase>>

Failed == {"notfound", "readerr", "dup", "missing"}

-----------------------------------------------------------------------------
(***************************************************************************)
(* The list.                                                               *)
(***************************************************************************)
\* Fault: two delimiters in a row end the path.
DirsUpToEmpty(path) ==
  IF \E i \in DOMAIN path : path[i] = Empty
  THEN SubSeq(path, 1, SelectInSeq(path, LAMBDA d : d = Empty) - 1) ELSE path

\* What appendpath() appends: the parts that are not empty.
DirsOf(path) ==
  LET upTo[n \in 0 .. Len(path)] ==
        IF n = 0 THEN <<>>
        ELSE IF path[n] = Empty THEN upTo[n - 1] ELSE Append(upTo[n - 1], path[n])
  IN  upTo[Len(path)]

\* newprocessor()
Init ==
  /\ input \in Inputs
  /\ list = DirsOf(input.envpath) \o DirsOf(input.fixedpath)
  /\ withs = input.withs
  /\ rest = <<>>
  /\ dir = None
  /\ contents = "none"
  /\ prefix = "own"
  /\ phase = "options"

Earlier ==
  {input.envpath, input.fixedpath} \cup
  {input.withs[k] : k \in 1 .. Len(input.withs) - Len(withs)}

\* The list has had directories.  Its tail is still behind the last of them.
Beheaded == list = <<>> /\ \E path \in Earlier : DirsOf(path) # <<>>

\* Without a head, the list is appended to: if it was lost, where none will look.
PrependPath ==
  /\ phase = "options" /\ withs # <<>>
  /\ list # <<>> => DirsOf(Head(withs)) # <<>>
  /\ list' = IF Beheaded THEN <<>> ELSE DirsOf(Head(withs)) \o list
  /\ withs' = Tail(withs)
  /\ UNCHANGED <<input, rest, dir, contents, prefix, phase>>

(***************************************************************************)
(* A path without a directory leaves the new list without a tail, and the  *)
(* old one is to be stored where that points: through a null pointer.      *)
(* That is the end, or, where there is memory at this address (in          *)
(* WebAssembly), the old list is lost, and all that is to come.            *)
(***************************************************************************)
PrependNothing ==
  /\ phase = "options" /\ withs # <<>>
  /\ list # <<>> /\ DirsOf(Head(withs)) = <<>>
  /\ \/ phase' = "crash" /\ UNCHANGED list
     \/ list' = <<>> /\ UNCHANGED phase
  /\ withs' = Tail(withs)
  /\ UNCHANGED <<input, rest, dir, contents, prefix>>

StartSearch ==
  /\ phase = "options" /\ withs = <<>> /\ input.request # "list"
  /\ phase' = IF input.request = "path" THEN "direct" ELSE "search"
  /\ rest' = list
  /\ UNCHANGED <<input, list, withs, dir, contents, prefix>>

-----------------------------------------------------------------------------
(***************************************************************************)
(* findpackage()                                                           *)
(***************************************************************************)
\* Fault: a file that cannot be read is as good as none.
ReadLenient(status) ==
  CASE status \in {"none", "unreadable"} -> "next"
    [] OTHER                -> "take"

\* readpackage()
Read(status) ==
  CASE status = "none"       -> "next"
    [] status = "unreadable" -> "fail"
    [] OTHER                 -> "take"

Taken(status, from) ==
  /\ contents' = status
  /\ dir' = from
  /\ phase' = "check"

\* The file at the path; if there is none, the path is searched for.
LookDirect ==
  /\ phase = "direct"
  /\ CASE Read(input.direct) = "next" -> phase' = "search" /\ UNCHANGED <<contents, dir>>
       [] Read(input.direct) = "fail" -> phase' = "readerr" /\ UNCHANGED <<contents, dir>>
       [] Read(input.direct) = "take" -> Taken(input.direct, input.home)
  /\ UNCHANGED <<input, list, withs, rest, prefix>>

StatusIn(d) == IF input.request = "self" THEN "builtin" ELSE input.files[d]

Look ==
  /\ phase = "search" /\ rest # <<>>
  /\ LET d == Head(rest)
     IN  CASE Read(StatusIn(d)) = "next" -> UNCHANGED <<contents, dir, phase>>
           [] Read(StatusIn(d)) = "fail" -> phase' = "readerr" /\ UNCHANGED <<contents, dir>>
           [] Read(StatusIn(d)) = "take" -> Taken(StatusIn(d), d)
  /\ rest' = Tail(rest)
  /\ UNCHANGED <<input, list, withs, prefix>>

NotFound ==
  /\ phase = "search" /\ rest = <<>>
  /\ phase' = "notfound"
  /\ UNCHANGED <<input, list, withs, rest, dir, contents, prefix>>

\* Fault: the first directory of the list is taken for the package's.
RelocatedFirst == IF input.define_prefix /\ dir \in Standard THEN Head(list) ELSE "own"

\* setprefix(): in a directory "pkgconfig" the prefix is where that is.
Relocated == IF input.define_prefix /\ dir \in Standard THEN dir ELSE "own"

Check ==
  /\ phase = "check"
  /\ CASE contents = "duplicate"  -> phase' = "dup" /\ UNCHANGED prefix
       [] contents = "incomplete" -> phase' = "missing" /\ UNCHANGED prefix
       [] OTHER -> phase' = "found" /\ prefix' = Relocated
  /\ UNCHANGED <<input, list, withs, rest, dir, contents>>

Stopped == phase \in Failed \cup {"found", "crash"} /\ UNCHANGED vars

Next ==
  \/ PrependPath \/ PrependNothing \/ StartSearch
  \/ LookDirect \/ Look \/ NotFound \/ Check
  \/ Stopped

Spec == Init /\ [][Next]_vars

-----------------------------------------------------------------------------
(***************************************************************************)
(* Properties.                                                             *)
(***************************************************************************)

\* The paths that were named, by precedence: later --with-path options first.
Sources == {0 - k : k \in 1 .. Len(input.withs) - Len(withs)} \cup {1, 2}

PathAt(p) ==
  CASE p = 1 -> input.envpath [] p = 2 -> input.fixedpath [] OTHER -> input.withs[0 - p]

\* The parts of a path that name a directory.
Parts(path) == {i \in DOMAIN path : path[i] # Empty}

\* Where a directory is named, and all that are named up to there.
Spots   == UNION {{p} \X Parts(PathAt(p)) : p \in Sources}
UpTo(s) == {t \in Spots : t[1] < s[1] \/ (t[1] = s[1] /\ t[2] <= s[2])}

\* The list has each directory that was named at the place it should have.
AsNamed ==
  /\ Len(list) = Cardinality(Spots)
  /\ \A s \in Spots : list[Cardinality(UpTo(s))] = PathAt(s[1])[s[2]]

\* All values of --with-path name a directory.
AllNameSome ==
  \A i \in DOMAIN input.withs : \E k \in DOMAIN input.withs[i] : input.withs[i][k] # Empty

(***************************************************************************)
(* --with-path puts its directories, in their order, in front of all there *)
(* are, and PKG_CONFIG_PATH comes before the configured path; of these,    *)
(* empty parts are left out, and nothing else is.                          *)
(***************************************************************************)
DirsInOrder == AllNameSome => phase # "crash" /\ AsNamed

(***************************************************************************)
(* The same whatever the value of --with-path, as "Append to an empty      *)
(* Search, then transplant in front" says.                                 *)
(***************************************************************************)
NothingLost == phase # "crash" /\ AsNamed

\* Where a package may be, and what there is, in the order of precedence.
Places ==
  (IF input.request = "path" THEN <<[at |-> input.home, is |-> input.direct]>> ELSE <<>>) \o
  [i \in DOMAIN list |->
     [at |-> list[i], is |-> IF input.request = "self" THEN "good" ELSE input.files[list[i]]]]

\* The first place where there is something.
Occupied == {i \in DOMAIN Places : Places[i].is # "none"}

(***************************************************************************)
(* The first place that has something under the name decides: its file is  *)
(* taken, and if that is unreadable or wrong in itself it is an error, not *)
(* a reason to look further.                                               *)
(***************************************************************************)
FirstDecides ==
  /\ phase = "notfound" => Occupied = {}
  /\ phase \in (Failed \ {"notfound"}) \cup {"found"} =>
       \E i \in Occupied :
         /\ \A j \in Occupied : i <= j
         /\ CASE phase = "found"   -> Places[i].is = "good" /\ dir = Places[i].at
              [] phase = "readerr" -> Places[i].is = "unreadable"
              [] phase = "dup"     -> Places[i].is = "duplicate" /\ dir = Places[i].at
              [] phase = "missing" -> Places[i].is = "incomplete" /\ dir = Places[i].at

(***************************************************************************)
(* A package that was moved with its prefix is found a prefix that fits    *)
(* its own place, whether it was searched for or not, and only if that is  *)
(* wanted.                                                                 *)
(***************************************************************************)
PrefixFits ==
  /\ prefix # "own" =>
       /\ phase = "found" /\ input.define_prefix
       /\ \E i \in DOMAIN Places : Places[i].at = prefix /\ Places[i].is = "good"
       /\ prefix = dir
  /\ phase = "found" /\ dir \in Standard /\ input.define_prefix => prefix = dir

=============================================================================
