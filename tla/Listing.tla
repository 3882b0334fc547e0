------------------------------- MODULE Listing ------------------------------
(***************************************************************************)
(* --list-all and --list-package-names: list() goes through the search     *)
(* list, reads the names of the package files in each directory            *)
(* (os_listing()) and then the files (os_mapfile()), and prints a line for *)
(* each that is a package.                                                 *)
(*                                                                         *)
(* All memory is one arena.  Objects are allocated at its end, text that   *)
(* grows and files at its beginning; memory is given back by going on with *)
(* a copy of the arena that was made before.  The sizes of objects are     *)
(* abstract: a path, a buffer and a variable are of size 1.                *)
(***************************************************************************)
EXTENDS Search

CONSTANT Shelves    \* directories and files, and the memory, that there may be

(***************************************************************************)
(* A directory entry is the name of a package file or another one; of a    *)
(* package file, "file" can be read, "dir" is a directory, and "gone"      *)
(* cannot be opened, as what is named ".pc" only.  A file has a size and   *)
(* defines variables, may be no package, and its description may refer to  *)
(* a variable that is not defined in the file, as pcfiledir.               *)
(***************************************************************************)
Entry == [kind : {"other", "gone", "dir", "file"},
          size : Nat, variables : Nat, parses : BOOLEAN, refers : BOOLEAN]

Shelf == [platform : {"posix", "linux", "windows", "wasm"},
          memory : Nat, all : BOOLEAN,
          opens : SUBSET Dirs, entries : [Dirs -> Seq(Entry)]]

ASSUME ShelvesAssumption == Shelves \subseteq Shelf

\* For requests other than a listing.
Bare == [platform |-> "posix", memory |-> 0, all |-> FALSE, opens |-> {},
         entries |-> [d \in Dirs |-> <<>>]]

VARIABLES
  shelf,     \* never changes
  scratch,   \* the arena for a directory
  temp,      \* the arena for a file
  here,      \* where the objects for the directory are
  now,       \* where the objects for the file are
  batch,     \* entries that one call returned
  next,      \* the first entry that is not yet taken
  files,     \* the package files still to be read
  len,       \* how much of the file was read
  hit,       \* a read failed, or fell short
  lines      \* the packages listed

shelfvars == <<shelf, scratch, temp, here, now, batch, next, files, len, hit, lines>>
allvars   == <<vars, shelfvars>>

Arena == [beg |-> 0, end |-> shelf.memory]

InitListing ==
  /\ Init
  /\ shelf \in IF input.request = "list" THEN Shelves ELSE {Bare}
  /\ scratch = Arena /\ temp = Arena
  /\ here = <<>> /\ now = <<>>
  /\ batch = <<>> /\ next = 1
  /\ files = <<>>
  /\ len = 0
  /\ hit = FALSE
  /\ lines = <<>>

-----------------------------------------------------------------------------
(***************************************************************************)
(* The arena.                                                              *)
(***************************************************************************)
Room(a) == a.end - a.beg

\* alloc()
Alloc(a, size) == [a EXCEPT !.end = @ - size]
AtEnd(a, size)  == [lo |-> a.end - size, hi |-> a.end]

\* finalize() of a buffer from newmembuf(), or of a file.
Extended(a, size) == [a EXCEPT !.beg = @ + size]
AtBeg(a, size)   == [lo |-> a.beg, hi |-> a.beg + size]

\* A text that just fills the memory is as bad as one that does not fit.
FitsText(a, size) == size < Room(a)

Oom == phase' = "oom" /\ UNCHANGED <<input, list, withs, rest, dir, contents, prefix, shelfvars>>

Searching == <<input, list, withs, dir, contents, prefix>>

-----------------------------------------------------------------------------
(***************************************************************************)
(* os_listing()                                                            *)
(***************************************************************************)
Here    == Head(rest)
Entries == shelf.entries[Here]

Buffered == shelf.platform \in {"linux", "wasm"}

\* Windows builds a pattern and a wide string of it in a copy of the arena.
Patterns == IF shelf.platform = "windows" THEN 2 ELSE 0

OpenDir ==
  /\ phase = "dir" /\ rest # <<>>
  /\ LET named  == Extended(Arena, 1)
         opened == Alloc(named, IF Buffered THEN 1 ELSE 0)
     IN  IF ~FitsText(Arena, 1) \/ Room(named) < Patterns
            \/ (Here \in shelf.opens /\ Room(opened) < 0)
         THEN Oom
         ELSE /\ scratch' = opened
              /\ here' = <<AtBeg(Arena, 1), AtEnd(named, IF Buffered THEN 1 ELSE 0)>>
              /\ phase' = IF Here \in shelf.opens THEN "entries" ELSE "files"
              /\ next' = 1
              /\ UNCHANGED <<Searching, rest, shelf, temp, now, batch, files, len, hit, lines>>

\* One call returns one entry (POSIX, Windows) or as many as fit in the
\* buffer, of which the last one may be cut off (WASI).
ReadDir ==
  /\ phase = "entries" /\ batch = <<>> /\ next <= Len(Entries)
  /\ \E last \in next .. Len(Entries), cut \in BOOLEAN :
       /\ ~Buffered => last = next
       /\ cut => shelf.platform = "wasm" /\ last < Len(Entries)
       /\ batch' = [k \in 1 .. last - next + 1 |-> [at |-> next + k - 1, cut |-> FALSE]]
                     \o (IF cut THEN <<[at |-> last + 1, cut |-> TRUE]>> ELSE <<>>)
  /\ UNCHANGED <<Searching, rest, phase, shelf, scratch, temp, here, now, next, files, len,
                 hit, lines>>

\* Fault: the cookie is taken before the entry is found to be cut off.
FollowingCut(entry) == entry.at + 1

\* Where the next call goes on.
Following(entry) == IF entry.cut THEN next ELSE entry.at + 1

\* A name and a node of the list.
TakeEntry ==
  /\ phase = "entries" /\ batch # <<>>
  /\ LET entry  == Head(batch)
         wanted == ~entry.cut /\ Entries[entry.at].kind # "other"
     IN  IF wanted /\ Room(scratch) < 2 THEN Oom
         ELSE /\ next' = Following(entry)
              /\ batch' = Tail(batch)
              /\ IF wanted
                 THEN /\ files' = Append(files, entry.at)
                      /\ scratch' = Alloc(scratch, 2)
                      /\ here' = Append(here, AtEnd(scratch, 2))
                 ELSE UNCHANGED <<files, scratch, here>>
              /\ UNCHANGED <<Searching, rest, phase, shelf, temp, now, len, hit, lines>>

\* The end of the directory, or an error, which is taken for it.
CloseDir ==
  /\ phase = "entries" /\ batch = <<>>
  /\ hit' = (hit \/ next <= Len(Entries))
  /\ phase' = "files"
  /\ UNCHANGED <<Searching, rest, shelf, scratch, temp, here, now, batch, next, files, len, lines>>

NextDir ==
  /\ phase = "files" /\ files = <<>>
  /\ phase' = "dir"
  /\ rest' = Tail(rest)
  /\ now' = <<>>
  /\ UNCHANGED <<Searching, shelf, scratch, temp, here, batch, next, files, len, hit, lines>>

-----------------------------------------------------------------------------
(***************************************************************************)
(* os_mapfile(), and what becomes of the file.                             *)
(***************************************************************************)
File == Entries[Head(files)]

\* Fault: the names in the directory are not kept.
TempOuter == Arena

\* The arena that each file begins with.
Temp == scratch

SkipFile ==
  /\ files' = Tail(files)
  /\ phase' = "files"

\* Only POSIX opens a directory to read, and takes the error for the end.
Opens ==
  \/ File.kind = "file"
  \/ File.kind = "dir" /\ shelf.platform \in {"posix", "linux"}

OpenFile ==
  /\ phase = "files" /\ files # <<>>
  /\ LET wide == IF shelf.platform = "windows" THEN 1 ELSE 0
     IN  IF Room(Temp) < 1 + wide THEN Oom
         ELSE /\ temp' = Alloc(Temp, 1)
              /\ now' = <<AtEnd(Temp, 1)>>
              /\ len' = 0
              /\ IF Opens THEN phase' = "file" /\ UNCHANGED files ELSE SkipFile
              /\ UNCHANGED <<Searching, rest, shelf, scratch, here, batch, next, hit, lines>>

Cap == Room(temp)

\* What can be read of the file: what there is, and there is room for.
Readable == {n \in 0 .. Cap : n <= IF File.kind = "dir" THEN 0 ELSE File.size}

More(n) == \E m \in Readable : n < m

\* A read returns some of it, and they are repeated.
ReadSome ==
  /\ phase = "file" /\ shelf.platform # "wasm"
  /\ \E n \in Readable : len < n /\ len' = n
  /\ UNCHANGED <<Searching, rest, phase, shelf, scratch, temp, here, now, batch, next, files,
                 hit, lines>>

\* The file ends, or fills the memory.
Mapped(size) ==
  IF size = Cap
  THEN SkipFile /\ UNCHANGED <<temp, now>>
  ELSE /\ temp' = Extended(temp, size)
       /\ now' = Append(now, AtBeg(temp, size))
       /\ phase' = "parse"
       /\ UNCHANGED files

\* An error is taken for the end.
ReadEnd ==
  /\ phase = "file" /\ shelf.platform # "wasm"
  /\ hit' = (hit \/ More(len))
  /\ Mapped(len)
  /\ UNCHANGED <<Searching, rest, shelf, scratch, here, batch, next, len, lines>>

\* WASI: a single read, which may fall short.
ReadOnce ==
  /\ phase = "file" /\ shelf.platform = "wasm"
  /\ len' \in Readable
  /\ len' = 0 => Readable = {0}
  /\ hit' = (hit \/ More(len'))
  /\ Mapped(len')
  /\ UNCHANGED <<Searching, rest, shelf, scratch, here, batch, next, lines>>

ReadError ==
  /\ phase = "file" /\ shelf.platform = "wasm"
  /\ hit' = TRUE
  /\ SkipFile
  /\ UNCHANGED <<Searching, rest, shelf, scratch, temp, here, now, batch, next, len, lines>>

(***************************************************************************)
(* parsepackage() allocates the variables.  If the file has lost its end,  *)
(* there may be fewer of them, and all may be different.                   *)
(***************************************************************************)
Lost == File.kind = "file" /\ len < File.size

ParseFile ==
  /\ phase = "parse"
  /\ \E n \in 0 .. File.variables, ok, refers \in BOOLEAN :
       /\ Lost \/ <<n, ok, refers>> = <<File.variables, File.parses, File.refers>>
       /\ IF Room(temp) < n THEN Oom
          ELSE /\ temp' = Alloc(temp, n)
               /\ now' = Append(now, AtEnd(temp, n))
               /\ IF ok /\ shelf.all /\ refers
                  THEN phase' = "undefined" /\ UNCHANGED files
                  ELSE SkipFile
               /\ lines' = IF ok /\ ~(shelf.all /\ refers)
                           THEN Append(lines, <<Here, Head(files)>>) ELSE lines
               /\ UNCHANGED <<Searching, rest, shelf, scratch, here, batch, next, len, hit>>

-----------------------------------------------------------------------------
StartListing ==
  /\ phase = "options" /\ withs = <<>>
  /\ input.request = "list"
  /\ phase' = "dir"
  /\ rest' = list
  /\ UNCHANGED <<Searching, shelfvars>>

Listed ==
  /\ phase = "dir" /\ rest = <<>>
  /\ phase' = "listed"
  /\ UNCHANGED <<Searching, rest, shelfvars>>

StoppedListing == phase \in {"listed", "oom", "undefined"} /\ UNCHANGED allvars

NextListing ==
  \/ Next /\ UNCHANGED shelfvars
  \/ StartListing \/ Listed \/ StoppedListing
  \/ OpenDir \/ ReadDir \/ TakeEntry \/ CloseDir \/ NextDir
  \/ OpenFile \/ ReadSome \/ ReadEnd \/ ReadOnce \/ ReadError \/ ParseFile

SpecListing == InitListing /\ [][NextListing]_allvars

-----------------------------------------------------------------------------
(***************************************************************************)
(* Properties.                                                             *)
(***************************************************************************)

(***************************************************************************)
(* What should become of a directory and of a file, by their sizes.        *)
(***************************************************************************)
Packages(d) == SelectSeq([k \in DOMAIN shelf.entries[d] |-> k],
                         LAMBDA k : shelf.entries[d][k].kind # "other")

Taken0 == IF Buffered THEN 2 ELSE 1

\* What is left for a file, without its path.
Left(d) == shelf.memory - Taken0 - 2 * Len(Packages(d)) - 1

DirFate(d) ==
  IF shelf.memory < 2 \/ shelf.memory < 1 + Patterns THEN "oom"
  ELSE IF d \notin shelf.opens THEN "closed"
  ELSE IF shelf.memory < Taken0 + 2 * Len(Packages(d)) THEN "oom" ELSE "open"

FileFate(d, e) ==
  LET size == IF e.kind = "dir" THEN 0 ELSE e.size
  IN  CASE Left(d) < (IF shelf.platform = "windows" THEN 1 ELSE 0) -> "oom"
        [] e.kind = "gone" -> "skipped"
        [] e.kind = "dir" /\ shelf.platform \in {"windows", "wasm"} -> "skipped"
        [] size >= Left(d) -> "skipped"
        [] size + e.variables > Left(d) -> "oom"
        [] ~e.parses -> "skipped"
        [] shelf.all /\ e.refers -> "undefined"
        [] OTHER -> "listed"

\* All that should happen, without a stop.
Story ==
  FlattenSeq([i \in DOMAIN list |->
    CASE DirFate(list[i]) = "oom"    -> <<[fate |-> "oom", at |-> <<>>]>>
      [] DirFate(list[i]) = "closed" -> <<>>
      [] OTHER -> [k \in DOMAIN Packages(list[i]) |->
                     [fate |-> FileFate(list[i], shelf.entries[list[i]][Packages(list[i])[k]]),
                      at   |-> <<list[i], Packages(list[i])[k]>>]]])

Stops == {i \in DOMAIN Story : Story[i].fate \in {"oom", "undefined"}}

ListedUpTo(n) ==
  LET found == SelectSeq(SubSeq(Story, 1, n), LAMBDA s : s.fate = "listed")
  IN  [k \in DOMAIN found |-> found[k].at]

(***************************************************************************)
(* Unless a read fails or falls short, the files listed are those that are *)
(* packages and fit in the memory, each once, in the order of the search   *)
(* list and of the directories: what is done for one file or directory     *)
(* takes nothing away from the next.  The listing ends early only because  *)
(* of a file that refers to what is not defined, or of one directory or    *)
(* file that is too large on its own.                                      *)
(***************************************************************************)
ListedExactly ==
  phase \in {"listed", "oom", "undefined"} /\ ~hit =>
    IF phase = "listed" THEN Stops = {} /\ lines = ListedUpTo(Len(Story))
    ELSE \E i \in Stops :
           /\ \A j \in Stops : i <= j
           /\ Story[i].fate = phase
           /\ lines = ListedUpTo(i)

\* Objects in use; a file is in the memory while it is read.
Live ==
  here \o now \o IF phase = "file" THEN <<AtBeg(temp, len)>> ELSE <<>>

(***************************************************************************)
(* The paths, names, files and variables in use lie within the memory, and *)
(* no two of them overlap.                                                 *)
(***************************************************************************)
LiveDisjoint ==
  phase \in {"entries", "files", "file", "parse"} =>
    /\ \A i \in DOMAIN Live : 0 <= Live[i].lo /\ Live[i].hi <= shelf.memory
    /\ \A i, j \in DOMAIN Live : i < j => Live[i].hi <= Live[j].lo \/ Live[j].hi <= Live[i].lo
                                            \/ Live[i].lo = Live[i].hi \/ Live[j].lo = Live[j].hi

=============================================================================
