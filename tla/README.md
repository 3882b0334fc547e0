# A verification project for u-config

u-config is a clone of pkg-config in C: it finds the `.pc` files of packages,
resolves what they require, expands their variables and prints compiler and
linker flags. This directory holds TLA+ models of its logic, configurations
that TLC checks them with, and proofs that TLAPS checks. The models are
translations of `src/src/u-config.c`, of `src/src/cmdline.c`, and of the system
calls of the platform layers (`src/main_posix.c`, `src/main_linux_*.c` with
`src/src/linux_noarch.c`, `src/main_windows.c`, `src/main_wasm.c`);
`PROJECT.json` names the lines that each definition stands for.

To repeat the checks, for the module and configuration of a run below:

    tlc -config MCProcess.cfg MCProcess.tla
    tlapm ProcessProofs.tla

## 1. The program

u-config is a single process with a single thread. It reads options, loads
packages, prints, and exits. There is no concurrency within it; what makes it
hard is

- a traversal of arbitrary graphs with an explicit, bounded stack whose slots
  are reused without being cleared;
- data that passes several layers of encoding (path bytes, escapes in files,
  quotes in fields, the shell that reads the output) which must agree;
- removal of repetitions from an ordered list in which order has meaning;
- error paths everywhere, with buffers that must or must not be flushed;
- system calls that do less than they were asked for, and that differ between
  platforms;
- memory that is given back by going on with an older copy of the arena.

| component | state | operations | who uses it |
|---|---|---|---|
| driver, `uconfig()` | settings, words, `argcount`, which buffer is `err` | options, routing, the results in their order | platform entry points |
| `parsespecs()` | spec under way | names, operators, versions from words or a field | driver, traversal |
| traversal, `process()` | stack of frames, set of packages with flags, list | one spec per iteration, revisit, load, pop | driver |
| search, `findpackage()` | search list | append, prepend, look in each place, check, set prefix | traversal; `--with-path` in the driver |
| parser, `parsepackage()` | position, name, value, variables, fields | one byte or line at a time | search, listing |
| expansion, `expand()` | stack of texts, output buffer | literal, reference, `$$` | traversal, `--variable`, listing |
| quoting, `dequote()`, `pathencode()` | text left, open quote, token | one byte at a time | argument writer; search and driver encode |
| argument writer | list, map of positions | exclude, append, write | driver |
| buffers, `u8buf` | contents, length | print, flush | all |
| platform `os_write()`, `os_fail()` | failed descriptors (Windows) | write loop, exit | buffers |
| platform `os_mapfile()`, `os_listing()` | file, directory, bytes read | open, read, close | search, listing |
| versions, `compareversions()` | two positions | compare | traversal, driver |
| listing, `list()` | search list left, names, lines | enumerate, read, parse, print | driver |
| hash tries | nodes | insert, find | variables, packages, positions |
| arena | two pointers | allocate, claim, go back | all |
| Windows command line, `cmdline.c` | position, state, pointers, bytes | split, decode | Windows entry point |

The driver first reads all options. Then it routes messages, hands the words
to `parsespecs()` and the specs to `process()`. That takes specs off frames;
for a package not yet loaded it calls `findpackage()` (which searches, reads
and parses), `setprefix()` and `expandmerge()`, and pushes the specs of the two
kinds of requires. It returns a list that the driver goes through once per kind
of result. Arguments go through `dequote()` into the argument writer, then to
the buffer `out`. Any failure prints to `err`, flushes it, and exits.

What makes each of them correct:

- traversal: exactly what is reachable is loaded, and what is publicly
  reachable is public; each package is listed once, before what it requires;
  the bounds hold; it ends.
- search: order of precedence; the first file found decides; the prefix fits.
- parser: what is written in a file is what is read, however it is written.
- expansion: the meaning of a text, or the right error; it ends.
- quoting: the shell sees what the text of a field means, and a path as itself.
- argument writer: nothing is lost but repetitions and system directories, and
  no order that matters is changed.
- buffers: every byte once, in order; the exit status tells of failures.
- command line: the documented rules, within the memory it is given.
- tries: what was bound to a name is found for it and for no other.
- versions: a total order.
- listing: each package once, whatever the files before it took or did.
- arena: nothing in use overlaps.
- driver: status, message and flags depend on the whole command line as
  documented, not on accidents of the order of options.

## 2. The modules

| module | models | proofs | run configurations |
|---|---|---|---|
| `Requirements` | an invocation as a graph of specs | | |
| `Resolution` | what resolution promises, abstractly | `ProcessProofs` | refined in `resolution` |
| `Process` | `process()` | `ProcessProofs` | `resolution`, `versions` |
| `Args` | the argument writer | `ArgsProofs` | `args` |
| `CommandLine` | `cmdline_to_argv8()` | `CommandLineProofs` | `paths`, `cmdoverflow` |
| `Quoting` | `pathencode()`, `dequote()` | `CommandLineProofs` | `paths`, `apostrophe` |
| `Paths` | a path from the command line to the shell | `CommandLineProofs` | `paths`, `cmdoverflow`, `apostrophe` |
| `Expand` | `expand()`, `expandmerge()` | `ExpandProofs` | `expand` |
| `Output` | `prints8()`, `flush()`, `os_write()`, exits | `OutputProofs` | `output` |
| `Trie` | `insert()`, `lookup()`, `locate()`, `findargpos()` | `ParseProofs` | `parse` |
| `Parse` | `parsepackage()` | `ParseProofs` | `parse` |
| `Versions` | `compareversions()` | `DriverProofs` | `driver` |
| `Driver` | `uconfig()`, `parsespecs()` | `DriverProofs` | `driver` |
| `Search` | search list, `findpackage()`, `setprefix()` | `ListingProofs` | `search`, `searchempty` |
| `Listing` | `list()`, `os_listing()`, `os_mapfile()`, the arena | `ListingProofs` | `search`, `searchempty` |

Compositions:

- `Process` and `Resolution` both extend `Requirements`. `Process` instantiates
  `Resolution` with `public` as the packages with the flag PUBLIC and `outcome`
  as its status.
- `Paths` extends `CommandLine` and instantiates `Quoting`: the last argument
  that was split off becomes the path of a field.
- `Parse` extends `Trie`: its variables are such a tree.
- `Driver` extends `Versions`: its versions are texts that are compared.
- `Listing` extends `Search`: it lists the search list that was built.

The other modules stand by themselves: the program composes these parts by calls
that return before anything else happens, so a part is a single step of whoever
calls it. Where this is so, the caller's module says which one has the detail.

In all modules a variable that "never changes" holds the input of the run,
chosen in `Init` from the constant `Inputs`. The `MC` modules define it.
Operators whose comment begins with "Fault" are never used by the
specifications: each is a plausible mistake in a definition that follows it, and
`PROJECT.json` lists which property notices it.

### Process

| code | model |
|---|---|
| `proc->stack[256]`, never cleared | `stack`, a function on `0..Cap-1`; slots above `top` keep what was there |
| `procstate` | `Frame`: the specs left, `newpkg`, `depth`, `flags` |
| `p->contents.s` set | `p \in loaded` |
| `pkgs.head`, `p->list` | `list` |
| an iteration of the loop | one of `Return`, `Revisit`, `Reveal`, `Load`, `LoadLeaf`, or a `Fail` action |
| `findpackage()`, `setprefix()`, `expandmerge()` | one step; fails exactly for the packages in `broken` |
| `compareversions()`, `validcompare()` | `sat` of a spec, or `ignoreVersions` |

The deferred `prepend()` that starts an iteration is part of each action
(`Prepended`). `parsespecs()` builds lists back to front, so the first element of
`roots` is the last package of the command line; this is why prepending restores
the order that the user gave.

### Args

A token's class and value take the place of its text. `positions` is the trie of
`argpos`, with 0 for no node; `list` and `cursor` are the linked list and
`writeargs()`'s place in it. `insertsyspath()`, `appendfield()` and
`writeargs()` take a step per entry, token and node. An entry of the system path
is empty, becomes one whole token, or does not; one of quotes alone becomes a
whole token without a value, and excludes the bare option. What is written is
recorded as node numbers, so that properties can tell repetitions apart.

### Quoting

One action per byte of `dequote()`. The branch for a backslash within double
quotes is absent, because it is unreachable: `shellmeta()` holds of the
backslash, so the branch that would set `escaped` is never taken.

What a shell makes of a token is stated apart from what the code escapes.
`ShellActive` has the bytes that a shell does not take literally, whether they are
in the list of `shellmeta()` or not: the blanks, the marks, `$()`, `;`, and `*` for
the list. `Shell` reads a token byte by byte: a backslash makes the next byte
literal, or vanishes with a line end. `Meaning` says what the text of a field
means in the first place: blanks outside of quotation marks end a word, marks make
literal what they enclose, encoded bytes are what they stand for, and `$`, `(`,
`)`, `;` and a `~` in front of a word are meant for the shell. An encoded line end
means nothing, since the shell drops it (section 6).

### CommandLine and Paths

A UTF-16 unit stands for its kind: a blank, a quotation mark, a backslash, one
that takes one, two or three bytes, or half of a surrogate pair. Each branch of
the switch in `cmdline_to_argv8()` is an action; a rune that the code reads again
in another state (`goto`) is read again here. Backslashes are written as they
come and taken back when a quotation mark follows, as in the code. Pointers and
bytes are in one array: `argv` and `buf` are its parts, and the null pointer at
the end overwrites the bytes if there is no pointer left.

`ArgumentsExact` compares with `Arguments`, the rules read with lookahead: `Rest`
says what is left of an argument from any unit on, within quotation marks or
not. It counts the backslashes, sees whether a quotation mark follows, and halves
their number. `Paths` takes the last argument, encodes it and hands it to `Quoting`,
whose properties then speak of a path that came from a command line.

### Expand

A text is a sequence of literals, references and `$$`. `stack` holds the texts
left, the top first, `Cap` entries at most (128 in the code). `Reference` pushes
the rest and the value; the bound check and its off-by-two are those of the code.

### Output

Bytes are numbered, texts are lengths. `Copy` is one round of the loop in
`prints8()`; when it fills the buffer, all of it is handed to `os_write()`,
which writes in parts of any size (POSIX, Linux), whole (Windows), once only (WASI), or
decoded into a small buffer of UTF-16 units (Windows console). A write may fail:
POSIX and WASI exit, Windows remembers. One character takes two bytes, so that a
flush can tear it. A run ends with a flush of `out`, or of
`err` and `os_fail()`.

### Parse

One action per byte for names and values, one per line for comments. The input
is a list of lines with the style each is written in, and `FileOf` writes the
file, so that the property compares what was read with what was written. `Style`,
`NameText` and `ValueText` say what may be written where: any white space before a
name, blanks and escaped line ends before a value, anything in a comment; a name
without separators, a value that does not begin or end with white space and does not
end with a backslash. Other values cannot be written down in a package file.

### Trie

A tree is a function from places, which are sequences of digits, to nodes. The
hash is an arbitrary operator; `Steps` is how far the walk for a name goes.
`Parse` binds names in it, with a hash under which some names agree in all
digits and others in the first ones.

### Versions

`compareversions()` is a recursive function of the position up to which two
texts do not differ. `Before`, the order it is compared with, does not walk: there is a position
before which the texts are the same, at which in both a number or a byte that is
no digit begins (`Parted`), and at which the first is less by its `Key`: that is
the byte, or for a number how many digits it has, leading zeros included, and its
value. It is an order of this program, not that of RPM, to which the comment on
`compareversions()` refers (section 6). `BeforeByValue` is the same with numbers by
their values alone.

### Driver

One action per kind of option (`SimpleOption` and `ValuedOption` have a case
each), then one per stage. Packages, versions and fields are those of `Repo`.
The properties do not use the settings: they read the command line from the
start, by `Role`, which says what each argument is. Constraints are evaluated
by `compareversions()` of `Versions`; the properties use `Before` instead. The
variable that `--variable` asks for, and that descriptions in a listing refer to,
is missing, expands or does not; a failure after some lines were printed is that
of `flush(err)` with `out` unflushed (`FailAfter`). With `--list-all` the driver
prints or fails in one step, of which `Listing` has the detail. Of
`Repo` it is assumed that it is finite and holds packages (`RepoAssumption`), of
the text of an argument that it consists of bytes (`TextAssumption`).

### Search

A path is a sequence of directories and empty parts. The files in the
directories are in one of five states. `Read` is `readpackage()`; `Check` is the
result of `parsepackage()`, the check for missing fields, and `setprefix()`.
`PrependNothing` is the store through a null pointer in `prependpath()`. Where it
is no crash, the list has lost its head but not its tail (`Beheaded`), so that
later options append to what is not in the list any more.

### Listing

`scratch` is the arena of `list()` for one directory, `temp` its copy for one file:
objects are allocated at the end, texts and files at the beginning, and what was
taken is given back by going on with the older copy. `here` and `now` are the
objects in use. A directory is read one entry at a time (POSIX, Windows), many
at a time (Linux), or many of which the last is cut off (WASI); a file is read
in parts, or once (WASI). Reads may fail wherever the code takes this for the
end. What `parsepackage()` and `expand()` make of a file is given by the entry,
and is arbitrary if the file lost its end. A file that defines the variable it
refers to, and one that does not, are told apart, as `list()` does not set
`pcfiledir` or a prefix.

## 3. The runs

| run | question | bounds | states |
|---|---|---|---|
| `resolution` | Is the result of the traversal right for every graph, and do limits and failures do what they should? | 3 packages, each with up to 2 public requires in either order and up to 1 private; 4 command lines up to renaming; a stack of 7, so that `2 * 3 < Cap` and it suffices. Graphs of 4 packages, some of which need more of the stack than there is; maximum depth 0 to 3 and beyond the stack; self-requires, broken packages, unsatisfied versions, no recursion | 293,656 |
| `versions` | Is every version constraint honoured? | violated, see section 6 | |
| `args` | Which arguments are written? | up to 4 tokens out of 6 kinds; up to 5 out of 2 directories and 2 libraries; all filters with up to 3 tokens of 8 kinds, both options with a detached value, an unmatched quote, and system entries of all kinds | 133,614 |
| `paths` | Is a command line split by the rules, and does the shell see what was meant? | command lines of up to 6 units of 4 kinds, up to 4 of 5 other kinds, an array of 5 pointers; paths of up to 3 bytes of 10 kinds in 3 contexts; texts of up to 4 bytes of 10 kinds; texts that end in a path, with bytes of any kind | 271,438 |
| `cmdoverflow` | The same for a command line of maximum length | violated, see section 6 | |
| `apostrophe` | The same for paths with an apostrophe | violated, see section 6 | |
| `expand` | Is a field expanded to its meaning? | 3 variables, 9 values each for two of them, 2 fields, stack of 4 | 99,505 |
| `output` | What arrives where? | buffers of 4 and 3 bytes, a console buffer of 3 units, up to 2 texts, lengths around the size of a buffer and its double, a character at each place; POSIX, Windows, console, WASI | 40,316 |
| `parse` | Is what was written read, whatever the hashes? | up to 2 lines, 5 names, 5 values, 5 styles; 5 definitions of 5 names with 3 different hashes | 232,407 |
| `driver` | Does the command line mean what it says? | 1 to 3 options out of all, 10 lists of words; versions of up to 3 bytes out of 5; a variable that is missing, expands or does not | 83,901 |
| `search` | Which file, which error, which prefix? Which packages are listed, and does memory hold? | 3 directories in 3 places, 5 states of each file; 4 x 3 x 3 ways to build a list; for listings 4 platforms, 8 sizes of memory, 3 entries of 5 kinds, the same directory twice, one that cannot be opened | 557,715 |
| `searchempty` | Does `--with-path` keep the list? | violated, see section 6 | |

The bounds are enough because of what the code can tell apart. The traversal
looks at one spec, one package and one frame at a time; a circle, a diamond, a
package that is reached first privately and then publicly with something below
it, and a slot reused after a pop all occur with three packages. The properties
of the traversal that matter most are proved for all sizes besides. The parser,
`dequote()` and `expand()` look at most two or three bytes or one token ahead,
and their inputs include all combinations of this length. The splitting of a
command line has to count the backslashes in front of a quotation mark, and six
units hold every combination of a run of up to four with what precedes and follows
it. Buffers behave the same
whatever their size; what matters is whether a text is shorter than, as long as
or longer than the room left. Memory from too little for anything to enough for
everything, in steps that are finer than the largest object, meets every
allocation with too little. Options are independent but for the settings they
share, and pairs in both orders, some triples, and options behind the words
cover those.

All runs check deadlock: every specification has an action `Stopped` that may
stutter only when the program has exited.

Fairness is weak fairness of `Next`, stated only where a liveness property is
checked (`Process`, `Expand`, `Output`, `Parse`). It says that a process with
one thread keeps running until it exits, and for `Output` that `write()` returns
and makes progress. A `write()` that returns 0 for ever is not
considered; the loop in `os_write()` would not end. A console buffer of 3 units
stands for 256: it is filled as long as there is room for two.

What the runs show, by property:

- `EachListedOnce`: nothing is listed twice or forgotten, and no stale `newpkg`
  remains in a free slot (the assertions in `prepend()` and `process()`).
- `LoadedExact`, `PublicExact`: the result is reachability, in the graph of all
  requires, and in that of public ones.
- `DependentsFirst`, `CommandLineOrder`: the link order.
- `StackSuffices`: 256 frames are enough for any graph of 127 packages.
- `DepthRespected`, `DirectExact`: `--maximum-traverse-depth`, and the packages
  whose version is printed.
- `ImplementsResolution`: every step is a step of `Resolution` or changes nothing.
- `WrittenExactly`, `DirectoryBeforeLibrary`, `LibraryOrder`, `SearchOrder`,
  `DetachedKept`: which occurrence of an argument survives, and that this neither
  moves a library before its directory, nor before one that needs it, nor
  changes the order of directories, nor comes between an `-I` and a directory that
  is the next argument, where the filter lets both through.
- `ArgumentsExact`, `Fits`: the arguments of a command line are those of the rules,
  and pointers and bytes stay in their parts of the array.
- `TokenMeaning`: a shell takes a token for what the text of the field means, with
  neither too few backslashes nor too many. The bytes that the code leaves to the
  shell are those of `Meaning`.
- `PathAsItself`: a path with blanks, `$`, parentheses or backslashes is one word of
  the shell, and that very path. The inputs of `paths` leave out quotation marks,
  semicolons, line ends and a `~` at the beginning of a word, which are not
  protected: `apostrophe` shows it for the first, and `Meaning`, which is confirmed
  by `TokenMeaning`, says what becomes of the others.
- `Consumes`: fields are read to the end.
- `ExpandedExactly`, `FailsRightly`: values and errors of expansion; with 128
  entries, references nested 127 deep are expanded and others are refused.
- `InOrder`, `SuccessIsComplete`, `FailureIsQuiet`: bytes and exit status.
  `FailureIsQuiet` holds for less than a buffer of results (4096 bytes). On a
  console nothing is mistranslated but a character that a flush tore; on WASI
  bytes may be missing after a short write, and success may still be reported.
- `ParsedExactly`, `DuplicatesRejected`: values, and the first duplicate, also of
  names with the same hash.
- `ExitsRightly`, `MessageRouted`, `FlagsOnOneLine`: the command line as a whole.
  The assumption `VersionOrder` of `MCDriver`, which TLC evaluates, says that
  `compareversions()` is the order of `Before`, for all short texts; the theorem
  `VersionOrderCorrect` says so for all texts. `ExitsRightly` includes values and
  descriptions that do not expand.
- `DirsInOrder`, `FirstDecides`, `PrefixFits`: the search.
- `ListedExactly`: a listing has each package of the search list once, in order,
  unless a read failed or fell short; it ends early only for a file that refers to
  an undefined variable, or for one directory or file that is too large on its
  own, never for what was read before.
- `LiveDisjoint`: no two objects in use overlap, and all are in the memory.
- `Termination` of `Process`, `Expand`, `Output` and `Parse`.

## 4. The proofs

All theorems hold for every value of the constants that satisfies the
assumptions in the modules: a null package that is not a package, positive
capacities, inputs of the right type (for `Parse`, files that can be written down), and for `CommandLine` an array whose number
of pointers and longest command line have the relation that `cmdline.c` gives
them (`SizeAssumption`).

`ProcessProofs` is about `Resolution`, too: `ResolutionExact`, that a successful
resolution without a depth limit is exactly reachability. The invariant is that
everything loaded is in each closed set that holds the roots; `Complete` gives the
converse. Of `Process` there are `TypeCorrect` (with it, the stack index stays in
the array), `ListingCorrect`, `DirectCorrect`, `ProcessImplementsResolution` and, by
the refinement, `ResultExact` and `PublicCorrect`. The inductive invariant `ProcessInv` adds to the
properties checked:

- `Shallow`: a frame is no deeper than its index, so that a depth limit beyond the
  stack is never met before the stack is full;
- `Justified`: what waits in a frame was asked for by someone loaded, and by
  someone public if the frame is public. Without it, an `Acquire` step of
  `Resolution` would lack its guard;
- `DirectFrames`: DIRECT frames hold specs of the command line only;
- `RootsKept`, `DepsKept`: what a loaded package requires is taken care of or
  waits in a frame; when the stack is empty, nothing is owed, and this is
  `Complete`;
- `FlagsLoaded`, `DoneAtBottom`: small facts about order.

Four more theorems rest on `ProcessInv` and an invariant each:

- `DependentsCorrect` on `OrderInv`: what a waiting package requires is loaded or
  waits above it (`DepsAbove`), and all that is above it is required by it
  (`RequiredBelow`). So when it is prepended, what it requires is in the list,
  or waits below for a package that leads back to it. The invariant must speak of
  frames, since the list alone does not tell what is still to come.
- `CommandLineKept` on `CommandInv`: what was taken from the bottom frame is loaded,
  and nothing is loaded that it does not lead to; of two packages taken, the one
  given first by the user is listed in front.
- `StackIsEnough` on `HeightInv`: public frames are below all others; each above the
  first stands for a public package of its own, the others come in twos for a
  package that is not public. A package that turns out to be public is pushed
  again, and this is where the factor of two comes from. The theorem, like the
  property, is about invocations that lead to finitely many packages.
- `DepthLimited` on `DepthInv`: a frame holds specs of packages within its depth.

Each branch of the loop is a visit that leaves what frames owe, but for the
package visited, and adds what this one requires. The lemmas `RevisitVisited`,
`RevealVisited`, `LoadVisited` and `LoadLeafVisited` establish this form once, and the
conjuncts of the invariant are proved from it.

`ArgsProofs`: `ArgsInvariant`, `WrittenCorrect`, `DirectoryCorrect`,
`LibraryOrderCorrect`, `SearchOrderCorrect`, `DetachedCorrect`, that is, all that
the run `args` checks. The invariant says that the position of an argument that
may be merged is that of its representative so far, that excluded arguments have
-1, and that what was written is what is in position among the nodes passed. The
order of any two arguments that are written is then that of their
representatives (`KeptInOrder`), and where a library or a directory has its
representative is its last or first mention. For `DetachedCorrect` the tokens that
pass the filter are counted: the i-th token is a known node of the list
(`ListPassed`), so an option and its value are neighbours there, neither of them
may be merged, and two neighbours that are kept are written as neighbours.

`CommandLineProofs`: `FitsCorrect`, that pointers and bytes stay within the array
for every command line, and `TerminatorFits`, that the null pointer at the end
does, too, unless the line is of maximum length. The invariant has three bounds:
`2 * argc <= pos + 1` because an argument but the first takes a unit and a blank;
three bytes for each unit read, one more in the end; and no more backslashes to
take back than were written for the argument under way, without which the second
bound would not be kept from below.

`ArgumentsCorrect` states `ArgumentsExact` for every command line but those of maximum
length, of which `cmdoverflow` shows that they may fail. `ExactInv` says at each step
that the arguments of the rules are those complete (`Past`), then one that begins
with what was written of it and goes on with what lookahead finds left (`Written`,
`Left`), then those that lookahead finds behind it. The code knows less than
lookahead does in two places, and there the invariant goes back: during a run of
backslashes, `Written` ends and `Left` begins before the run; after a quotation mark
that may be the first of two, `Left` begins at that mark. What was read there, and
that no null has been written within an argument, is the rest of the invariant.
`Rest` and `List` are recursive functions on the units of a line; that each exists
and is what its definition says (`RestSteps`, `ListSteps`) is proved by induction from
the end of the line to its beginning (`Downwards`). The rules then are lemmas about
one unit each (`PlainRune`, `QuoteHere`, `BackslashesBehind`, `EndsHere`), and each action
has a lemma that uses one of them.

The rest of the module is about `Paths`, so its theorems hold of fields that the
system gives as they are and of paths cut out of a Windows command line, for every
text of a field. `ConsumesCorrect` and `TokenMeaningCorrect` rest on `FieldInv`. It
says of the token so far that a shell evaluates it to what the bytes read so far
mean (`Understood`): each byte read adds the same to both, be it nothing, a literal
byte or an active one, and between two bytes the shell never has a backslash left.
`Shell` and `Meant` are recursive functions from the front; that they exist, and go
on from a shorter text to a longer one, is proved by induction first.

`PathAsItselfCorrect` states `PathAsItself` for each path that is `Plain`: without
quotation marks, semicolons, line ends, a `~` at the beginning of the word, and the
bytes 0xf8 to 0xfe. The directories that `Paths` takes from a command line are all
of this kind. The exceptions are needed: `apostrophe` shows what becomes of a
quotation mark, and by `TokenMeaningCorrect` a semicolon or a `~` is active and a
line end is nothing; the code makes no promise for the last. The proof is one about
the meaning alone: `Expected` says what the first bytes of such a text mean, and
`MeantIsExpected` that this is so, by induction from the front. For it the text is
taken apart byte by byte (`ContextIs`, `WholeIs`): an encoded byte never is a blank or
a mark, so none but the marks around the path open or close anything. `Understood`
carries it over to the token.

`ParseProofs` begins with facts about `Bind` for every hash. `WellFormed`
says that each node is at the first free place on the way of its name;
`BindWellFormed`, `BindFound`, `BindOthers` and `NamesOnce` make a tree a finite map.
This is why `Process` may take its packages, and `Args` its positions, for sets
and functions, and why `Expand` looks up variables in a function.

`ParsedCorrect` and `DuplicatesCorrect` state `ParsedExactly` and `DuplicatesRejected` for
all files and known fields. The invariant `ParseInv` says in which line of the input
the parser is and how far it got there (`LineAt`, `NameAt`, `LeadAt`, `ValueAt`), and that
its tables are those of the lines before (`Accounts`), with a node for the variable under
way that has no value yet. Where the lines, and the parts of a line, are in the file is
found by taking apart the sequences that `FileOf` joins (`JoinedParts`, `LineShape`,
`DefinitionShape`, `ValueShape`). A value under way is at one of its bytes, at the line end
that is joined, or in the blanks after it; `end` is after the last byte that is no
blank, and as long as `cleanup` is not set no byte of the value was escaped. That
`stripescapes()` makes the value of what was written for it (`StripWritten`) is shown
from the last byte to the first.

`OutputProofs`: `FilesInOrder`, that on POSIX and on Windows, where output goes to a
file or a pipe, `InOrder` holds for all sizes of buffers and texts and however much
a `write()` takes. The invariant `OutputInv` has types, `AllThere` (what arrived,
what `os_write()` has left, and what is in the buffer are together what was
printed; after a failure what arrived is the beginning of it) and `MessageLast`
(the message is printed after all results), which is what makes the text of a
shared buffer grow at its end only. The console and WASI are left to TLC: the
one changes bytes, and the other loses some.

`PlainSuccess` and `PlainFailure` state `SuccessIsComplete` and `FailureIsQuiet` for all
platforms but the console, WASI included. `EndInv` adds to `OutputInv` how much was
printed of each kind, by the calls that are left (`PrintedInv`); that at an exit the
buffer in question is empty, and that the status is what the failed descriptors
say (`AtEnd`); and that a run which is going to fail and had less than a buffer to
print has not tried to write any of it (`Quiet`). On the console, where a write
may be decoded to something else, both stay with TLC.

`ListingProofs`: `MemoryDisjoint`, that `LiveDisjoint` holds for every size of memory
and all directories and files, on each platform. The memory is given back by
forgetting an arena, so the invariant `ListingInv` is about where things are: what
is in use for a directory lies in the memory but outside of `scratch`, what is in
use for a file lies in `scratch` but outside of `temp`, and a file that is being
read fits in what `temp` has left. An object is put in what is free and taken
from it (`OneMore`), and what lies inside of a region does not overlap what lies
outside (`InsideOutside`).

Three theorems of `ListingProofs` are about `Search`, as part of a listing or by
itself. `FirstFound` and `PrefixCorrect` rest on `FindInv`: all places passed have
nothing under the name, the phase tells what the place looked at had, and a
prefix is set only by the step that finds. `OrderCorrect` rests on `ListInv`: the
values of `--with-path` that are left are the last ones, and those before them are
in their places, in front of the directories of `PKG_CONFIG_PATH` and the
configured path; so the list never loses its head (`NeverBeheaded`). `AsNamed` says where each part of a path belongs by counting the
parts that come before it, so that the code's way of building the list, backwards
and by transplanting, is compared with a statement that builds no list. That
`DirsOf` splits a path as it should is proved first, by induction on its parts.

`ExpandProofs`: `TypeCorrect`, that the array of texts that `expand()` keeps is never
used beyond its end, whatever the variables refer to, themselves included. Where
the literal text at the front of a text ends is the least place of a token that
is not literal (`FrontEnds`), so nothing but literal text is ever printed.

`ExpansionCorrect` and `FailuresCorrect` state `ExpandedExactly` and `FailsRightly`: the
stack machine computes `Meaning`, which is defined by recursion on the depth of
references, and refuses nothing else. The invariant `FullInv` counts the stack from
the bottom, where the k-th text is at level `Cap - k`, and says

- `Completes`: if all texts on the stack are good for their levels, that is, lead
  to nothing undefined and nest no deeper than the level, then the field is, and
  what was printed, followed by what the texts mean from the top down (`Rest`),
  is what the field means. It must be conditional: what an endless text means is
  not defined;
- `Fits`: if the field nests little enough, so does each text for its level. The
  level of the top is 0 exactly when there is no room for two more entries, so
  running out of room shows that the field is too deep;
- `Comes`: each text is part of one that the field leads to, so an undefined
  variable that is met is one that the field leads to;
- `BaseInv`: the fields that are complete are good, and are what they mean.

A text means what its literal front prints, then the token behind it, then the
rest (`MeansParts`, by induction on the length); each action moves one of these
from `Rest` to what was printed. `GoodText` connects `Good`, which looks one step
ahead, with the closure in `LeadsToUndefined`.

`DriverProofs` has six results. `VersionOrderCorrect`: for all texts, the result of
`compareversions()` is 0 exactly for equal texts, -1 exactly if the first is
`Before` the second, and 1 exactly in the reverse case. The code walks over both
texts at once. The proof goes by induction on how much of a text is left
(`ComparedRightly`): at each position that the walk comes to, both texts are the
same before it and something begins in both of them (`Parted`), so the first
position at which it stops is the one that `Before` speaks of. That numbers of the
same length are ordered by their bytes as by their values is
`FirstDigitDecides`, by induction on the digits behind the first that differs. That
only one of two versions is before the other (`BeforeOneWay`) holds because texts
that have the same key somewhere are the same up to the next such position.

That `Before` has digits count before values makes it differ from what a reader of
version numbers expects, so two more theorems say what it is worth.
`VersionOrderTransitive`: it is transitive, and hence a total order, so that
constraints do not contradict each other. `VersionsByValue`: for versions in which
no number has a leading zero, it is the order of `BeforeByValue`. A number with more
digits and no zero in front is greater (`MoreDigitsMore`, by induction over the
digits), so counting only decides earlier what the values would.

`MessageRoutedCorrect` and `ExitsRightlyCorrect`: `MessageRouted` and
`ExitsRightly` hold for every command line and every finite repository. Both ask
for all options at once, in whatever order they are given, while the code reads
them one at a time and follows them only after the last; `DriverInv` relates the two:

- While options are read, `ReadSoFar` says that the settings are those of the
  options read (`Settled`), that none of these was one to stop at, that the words
  kept are those given so far, and whether the argument before was an option that
  takes the next one as its value, or `--`. What an argument is depends on the
  one before it (`Role`), so that the step from one to the next, `RoleSteps`, is
  proved by induction on the length of the line.
- When all are read, `AllRead` says the same of the whole line, and no later step
  changes the settings or where messages go.
- `parsespecs()` keeps a list with the latest spec in front and what it waits for,
  `WordsMakeSense` sees positions: which words are versions and which operators.
  `WordsParse` says by induction on the words that the parser turns down the words
  exactly if an operator is out of place, and `SpecsSay` what its specs are: the
  names, each with the operator and version behind it.
- From there on, `FoundSoFar` says that the packages are those needed
  (`NeededIs`), in an order without repetition, and which of the demands of
  `ExitsRightly` have been met, as the phase proceeds from one to the next; each
  step either meets one more or fails, and fails only if it is not met
  (`ResolvesRightly`, `OverridesRightly`, `VariableRightly`, `CflagsRightly`,
  `LibsRightly`; a listing is done in one step, by `ListsRightly`).
  Comparisons of versions are related to `Before` by `VersionOrderCorrect`, through
  `ComparesHold`.

`FlagsOnOneLineCorrect`: `FlagsOnOneLine` holds for every command line and every
finite repository. Its invariant, `FlagsInv`, is relative to `DriverInv` and says
what has been printed at each phase: nothing up to the versions, then only lines, then
lines followed by the flags asked for so far (`FlagsOut`), with `argcount` their
number. That `Spreads`, the flags in order with one delimiter between any two, goes on
over `writeargs()` from one package to the next and from compiler to linker is
`DelimitedSpreads`, by induction over `FlattenSeq`. The code writes while it filters
and the property sees the arguments of all packages at once: that they are the same
is `CflagsWritten` and `LibsWritten`, from `FilterPicks` and `FlattenPicked`. With the
end of the line behind it, all this is what the property asks for (`EndsRight`).

That `Closure` reaches only what is in the repository, and more names reach more
of it, are lemmas by induction, too (`ClosureIn`, `ClosureGrows`).

All of these invariants were checked by TLC on the inputs of the runs before they
were proved.

Only model-checked: liveness, which depends on fairness; `SuccessIsComplete`,
`FailureIsQuiet` and `InOrder` on consoles; and `ListedExactly`.
What these safety properties compare with is the meaning of a whole text or list (the
characters of a console, the files of a directory), so a proof needs an induction over
it for each way of reading it. The theorems of the library that
do induction take an operator as a parameter, which the provers at hand cannot
instantiate. `NaturalsFrom0` in `ListingProofs`, `ExpandProofs`, `DriverProofs` and
`ParseProofs`, and `Downwards` and `Upwards` in `CommandLineProofs`, take a set in its place; this
is how `DirsOf`, `Meaning`, `Shallow`, `Rest`, `List`, `Shell`, `Meant`, `Role`, `WordsGiven`,
`parsespecs`, `compareversions`, `Closure`, `Picked`, `FlattenSeq` and `stripescapes` are dealt
with, and it would be the way for the others.

## 5. What is not modelled

- `msvcize()` and `--newlines`: how one argument is written. No property here
  looks into an argument once it is chosen.
- The environment, the translation of paths and the UTF-16 of names on Windows:
  values that come from the system, or go to it, without any state. What a
  missing or unreadable file leads to is in `Search` and `Listing`.
- `s8` functions, `memcpy`, `memset`, `memcmp`: straight-line code on a text.
- Entry points and system call stubs: no state.
- Tests, fuzzing, the browser demo, build files: not part of the program. The
  fuzzer and the tests were read for the states they build.
- The wording of messages and of the usage.
- Memory, but for listings: the other models take it as unbounded. Running out of
  it ends the program at once, as any other error does.
- Other reasons for a package of `Driver` not to load or expand: these end the run
  in `process()`, as an unsatisfied version does, and are in `Search`, `Parse` and
  `Expand`.
- The branches for platforms without listings (lines 2075 to 2089): every platform
  layer sets `haslisting` (`src/main_posix.c:142`, `src/src/linux_noarch.c:154`,
  `src/main_windows.c:311`, `src/main_wasm.c:260`), so they are never taken.

## 6. Disagreements between code and documentation

1. *A version constraint counts on the first mention only* (`versions`).
   `process()` compares versions where it loads a package (line 1547), not where
   it meets one that is loaded (line 1521). `--modversion 'test < 1.2.3'` fails for
   version 1.2.3, as the test "version checks" expects
   (`src/main_test.c:326`), but `--modversion 'test < 1.2.3' test` succeeds, since
   the last spec is visited first. The same goes for constraints in requires.
2. *A path with an apostrophe does not survive* (`apostrophe`). The comment on
   `pathencode()` (line 307) has paths encoded so that `dequote()` reverses it;
   quotation marks are not encoded. A package below `/opt/it's` with
   `--define-prefix` ends in "unmatched quote".
3. *A command line of maximum length overwrites itself* (`cmdoverflow`). The comment
   on `cmdline_to_argv8()` (`src/src/cmdline.c:9`) has the array cover the worst
   possible command line. One of 32,766 units that begins with a blank and ends
   in a one-letter argument holds 16,384 arguments, the empty `argv[0]` included,
   and the null pointer behind them (line 123) lands on the first bytes, so that
   the first arguments become empty. `TerminatorFits` shows that a shorter line
   cannot do this.
4. *`--with-path` without a directory crashes* (`searchempty`). `prependpath()` stores
   through the tail of an empty list (line 1054); `--with-path=` and `--with-path=:`
   do this whenever there is a search path. In WebAssembly, where address zero can
   be written, the search path is lost instead, and what later options name with it.

Without a run of their own, the first two by `TokenMeaning` (`Meaning` says so), the
others met while reading:

- A path with a semicolon is two commands. The comment on `pathencode()` has meta
  characters in paths taken care of, and the one on `shellmeta()` (line 1286) calls
  its list that of pkg-config. `;` is not in the list (line 1290) and is not
  encoded, so `/opt/a;b` is printed as it is (line 1359). So is a `~`, which
  matters to a shell in front of a word, as in `"${pcfiledir}"` for a relative path.
- A path with a line end loses it. It is encoded as 0xf9 (line 315) and printed as a
  backslash and a line end, which a shell removes.
- The comment on `compareversions()` (line 1374) refers to RPM, which ignores
  leading zeros and punctuation. The code compares the lengths of numbers first,
  zeros included (1.05 is above 1.9), and other bytes as they are. It still is a
  total order.
- A surrogate pair with a quotation mark between its halves is decoded as two
  halves of three bytes each.
- The branch for `escaped` in `dequote()` (line 1329) is dead, so `"a\"b"` in a
  field is an unmatched quote.
- Paths that contain bytes 0xf8 to 0xfe are decoded to something else.
- `--cflags-only-I` and `--libs-only-L` print an `-I` or `-L` alone if its directory
  is the next argument (lines 1590 and 1592), `--cflags-only-other` and
  `--libs-only-other` the directory alone (lines 1596 and 1598).
- `-framework A -framework B` is printed as `-framework A B`: the option begins with
  `-f`, so the second is taken for a repetition (line 1663).
- An entry of the system path that is only quotes, as `''`, excludes the bare `-I` or
  `-L` (line 1750), so a directory that is the next argument stays without it.
- Whether a package is within the depth limit depends on which of two paths to it
  is followed first; `DepthRespected` claims an upper bound only.
- `--modversion`, `--validate` and the version options switch recursion off for
  flags printed by the same command, too.
- The backslash at the end of a value is dropped.
- The package that is built in, `pkg-config`, is found only if the search list is
  not empty.
- A field that ends in blanks, as `Libs: -la ${empty}` once it is expanded, appends
  an empty argument.
- WASI writes and reads once, whatever the count. If the system cuts off a
  directory entry within its header, the header would be read past the buffer.
- An error of `readdir()` and its like is taken for the end of the directory, and
  one of `read()` for the end of the file.
- On POSIX and Linux a directory named `x.pc` is opened and read as an empty file.
- A file named `.pc` only is looked for as `.pc.pc` by a listing.
- A listing that meets an undefined variable drops the line it had begun, and
  all that is still in the buffer.

## 7. The plan

Done: resolution with its refinement and proofs; the argument writer, all its
properties proved; quoting and the Windows command line, composed, all properties
proved, of paths without quotation marks where these do harm; expansion,
all its safety properties proved; output on all platforms, with proofs for files;
tries and the parser, all safety properties proved; versions, proved to be the order
meant, composed with the driver, all its safety properties proved; search, composed
with listing, reading of files and the arena, its search properties and those of the
arena proved; all safety properties of the traversal proved.

Left:

1. `Driver`: `msvcize()` and `--newlines`, if a property is found that they could
   break.
