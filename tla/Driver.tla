-------------------------------- MODULE Driver ------------------------------
(***************************************************************************)
(* uconfig(): from the command line to the output and the exit status.     *)
(*                                                                         *)
(* Options are read first, all of them, and leave nothing but settings and *)
(* the words that remain.  Then messages are routed, the words are parsed, *)
(* the packages are resolved, and the results are printed, one kind after  *)
(* the other.  Any of this may fail; what was printed is then dropped,     *)
(* unless messages share its buffer.                                       *)
(*                                                                         *)
(* Resolution is a step of its own here, the module Process has it in      *)
(* detail; the writing of arguments is in Args, buffers are in Output.     *)
(***************************************************************************)
EXTENDS Integers, Sequences, SequencesExt, Versions

CONSTANTS
  Repo,      \* the packages there are
  Text(_),   \* the bytes of an argument
  Inputs     \* the command lines under consideration

(***************************************************************************)
(* A package has a version, requirements, and fields that are sequences of *)
(* arguments, or else do not parse.  Its variable "v" is not set, or has a *)
(* value that expands, or one that does not.  Its description may refer to *)
(* "v".  Everything else in its file can be read and expands.              *)
(***************************************************************************)
Token(class, of) == [class |-> class, of |-> of]
Arguments == [class : {"I", "L", "l", "other"}, of : STRING]

Package(p) ==
  /\ p.version \in Seq(0 .. 255)
  /\ p.requires \subseteq DOMAIN Repo
  /\ p.private \subseteq DOMAIN Repo
  /\ p.v \in {"none", "good", "bad"}
  /\ p.describedbyv \in BOOLEAN
  /\ \A field \in {p.cflags, p.cflagsprivate, p.libs, p.libsprivate} :
       field.ok \in BOOLEAN /\ field.args \in Seq(Arguments)

ASSUME RepoAssumption == IsFiniteSet(DOMAIN Repo) /\ \A n \in DOMAIN Repo : Package(Repo[n])

ASSUME InputsAssumption == Inputs \subseteq Seq(STRING)

(***************************************************************************)
(* Options.  Those with a value have it attached with "=", or else it is   *)
(* the next argument.                                                      *)
(***************************************************************************)
Attached ==
  [o \in {"--variable=v", "--atleast-version=1.10", "--max-version=1.9", "--define-variable=v=1",
          "--define-variable=v", "--atleast-pkgconfig-version=9"} |->
     CASE o = "--variable=v"           -> <<"--variable", "v">>
       [] o = "--atleast-version=1.10" -> <<"--atleast-version", "1.10">>
       [] o = "--max-version=1.9"      -> <<"--max-version", "1.9">>
       [] o = "--define-variable=v=1"  -> <<"--define-variable", "v=1">>
       [] o = "--define-variable=v"    -> <<"--define-variable", "v">>
       [] OTHER                        -> <<"--atleast-pkgconfig-version", "9">>]

ASSUME TextAssumption ==
  /\ \A line \in Inputs : \A i \in DOMAIN line : Text(line[i]) \in Seq(0 .. 255)
  /\ \A o \in DOMAIN Attached : Text(Attached[o][2]) \in Seq(0 .. 255)

Valued == {"--variable", "--atleast-version", "--exact-version", "--max-version",
           "--define-variable", "--atleast-pkgconfig-version"}

Simple == {"--modversion", "--cflags", "--cflags-only-I", "--cflags-only-other",
           "--libs", "--libs-only-L", "--libs-only-l", "--libs-only-other", "--static",
           "--exists", "--silence-errors", "--errors-to-stdout", "--print-errors",
           "--validate", "--list-all"}

Printing == {"--help", "--version"}    \* these print something and return

\* As for nextoption(): a "-" followed by something.
LooksLikeOption(arg) ==
  arg \in DOMAIN Attached \cup Valued \cup Simple \cup Printing \cup {"--", "--unknown"}

Operator == {"<", "<=", "=", ">=", ">"}

\* Fault: a smaller version will do, too.
ValidcompareLoose(o, result) ==
  CASE o \in {"<", "<=", "="} -> result <= 0 [] o = ">=" -> result >= 0 [] o = ">" -> result > 0

validcompare(o, result) ==
  CASE o = "<"  -> result < 0
    [] o = "<=" -> result <= 0
    [] o = "="  -> result = 0
    [] o = ">=" -> result >= 0
    [] o = ">"  -> result > 0

VARIABLES
  args,      \* the command line; never changes
  index,     \* the next argument to be read
  dashdash,  \* "--" was read
  set,       \* the settings
  words,     \* the arguments that are not options
  err,       \* where messages go: "stderr", "stdout" or "null"
  pkgs,      \* the packages that were resolved, in order
  direct,    \* the ones among them that were named
  public,    \* the ones whose libraries are needed without --static
  argcount,  \* the number of arguments written
  out,       \* what was printed, and not dropped
  message,   \* where a message appeared, if one did
  phase      \* what is done next; in the end "ok" or "fail"

vars == <<args, index, dashdash, set, words, err, pkgs, direct, public, argcount, out,
          message, phase>>

NoSettings ==
  [modversion |-> FALSE, recursive |-> TRUE, ignore_versions |-> FALSE,
   cflags |-> "off", libs |-> "off", static |-> FALSE, variable |-> "none", defined |-> FALSE,
   op |-> "none", version |-> <<>>, silent |-> FALSE, tostdout |-> FALSE, listing |-> FALSE]

Init ==
  /\ args \in Inputs
  /\ index = 1
  /\ dashdash = FALSE
  /\ set = NoSettings
  /\ words = <<>>
  /\ err = "stderr"
  /\ pkgs = <<>> /\ direct = {} /\ public = {}
  /\ argcount = 0
  /\ out = <<>>
  /\ message = "none"
  /\ phase = "options"

Resolved == <<pkgs, direct, public>>
Parsed   == <<index, dashdash, set, words>>

\* flush(err) and os_fail(): what was printed is lost, unless messages go to
\* the same place.
FailAfter(printed, where) ==
  /\ phase' = "fail"
  /\ message' = where
  /\ out' = IF where = "stdout" THEN printed ELSE <<>>

FailTo(where) == FailAfter(out, where)

Proceed(to) == phase' = to /\ UNCHANGED message

-----------------------------------------------------------------------------
(***************************************************************************)
(* The options.                                                            *)
(***************************************************************************)
Reading == phase = "options" /\ index <= Len(args)
Arg     == args[index]

OptionOf(arg) == IF arg \in DOMAIN Attached THEN Attached[arg][1] ELSE arg
Option        == OptionOf(Arg)

IsOption == Reading /\ ~dashdash /\ LooksLikeOption(Arg) /\ Arg # "--"

IsWord == Reading /\ (dashdash \/ ~LooksLikeOption(Arg))

Word ==
  /\ IsWord
  /\ words' = Append(words, Arg)
  /\ index' = index + 1
  /\ UNCHANGED <<args, dashdash, set, err, Resolved, argcount, out, message, phase>>

DashDash ==
  /\ Reading /\ ~dashdash
  /\ Arg = "--"
  /\ dashdash' = TRUE
  /\ index' = index + 1
  /\ UNCHANGED <<args, set, words, err, Resolved, argcount, out, message, phase>>

Narrowed(s, o) ==
  [s EXCEPT !.op = o, !.silent = TRUE, !.recursive = FALSE, !.ignore_versions = TRUE]

SimpleOption ==
  /\ IsOption
  /\ Option \in Simple
  /\ set' =
       CASE Option = "--modversion"        -> [set EXCEPT !.modversion = TRUE, !.recursive = FALSE]
         [] Option = "--cflags"            -> [set EXCEPT !.cflags = "any"]
         [] Option = "--cflags-only-I"     -> [set EXCEPT !.cflags = "I"]
         [] Option = "--cflags-only-other" -> [set EXCEPT !.cflags = "otherc"]
         [] Option = "--libs"              -> [set EXCEPT !.libs = "any"]
         [] Option = "--libs-only-L"       -> [set EXCEPT !.libs = "L"]
         [] Option = "--libs-only-l"       -> [set EXCEPT !.libs = "l"]
         [] Option = "--libs-only-other"   -> [set EXCEPT !.libs = "otherl"]
         [] Option = "--static"            -> [set EXCEPT !.static = TRUE]
         [] Option \in {"--exists", "--silence-errors"} -> [set EXCEPT !.silent = TRUE]
         [] Option = "--errors-to-stdout"  -> [set EXCEPT !.tostdout = TRUE]
         [] Option = "--print-errors"      -> set
         [] Option = "--validate"          -> [set EXCEPT !.silent = TRUE, !.recursive = FALSE]
         [] Option = "--list-all"          -> [set EXCEPT !.listing = TRUE]
  /\ index' = index + 1
  /\ UNCHANGED <<args, dashdash, words, err, Resolved, argcount, out, message, phase>>

\* The value of an option, and the position after it.
Value    == IF Arg \in DOMAIN Attached THEN Attached[Arg][2] ELSE args[index + 1]
AfterOpt == IF Arg \in DOMAIN Attached THEN index + 1 ELSE index + 2
HasValue == Arg \in DOMAIN Attached \/ index < Len(args)

ValuedOption ==
  /\ IsOption
  /\ Option \in Valued \ {"--atleast-pkgconfig-version"}
  /\ HasValue
  /\ Option = "--define-variable" => Value = "v=1"
  /\ set' =
       CASE Option = "--variable"        -> [set EXCEPT !.variable = Value]
         [] Option = "--define-variable" -> [set EXCEPT !.defined = TRUE]
         [] Option = "--atleast-version" -> [Narrowed(set, ">=") EXCEPT !.version = Text(Value)]
         [] Option = "--exact-version"   -> [Narrowed(set, "=") EXCEPT !.version = Text(Value)]
         [] Option = "--max-version"     -> [Narrowed(set, "<=") EXCEPT !.version = Text(Value)]
  /\ index' = AfterOpt
  /\ UNCHANGED <<args, dashdash, words, err, Resolved, argcount, out, message, phase>>

\* No such option, no value for it, or none that will do.
BadOption ==
  /\ IsOption
  /\ \/ Option \notin Valued \cup Simple \cup Printing
     \/ Option \in Valued /\ ~HasValue
     \/ Option = "--define-variable" /\ HasValue /\ Value # "v=1"
  /\ FailTo("stderr")
  /\ UNCHANGED <<args, Parsed, err, Resolved, argcount>>

\* Options that return at once; only the last one has no output.
ReturnOption ==
  /\ IsOption
  /\ Option \in Printing \/ (Option = "--atleast-pkgconfig-version" /\ HasValue)
  /\ out' = IF Option \in Printing THEN <<Token("text", Option)>> ELSE <<>>
  /\ Proceed("ok")
  /\ UNCHANGED <<args, Parsed, err, Resolved, argcount>>

EndOfOptions ==
  /\ phase = "options" /\ index > Len(args)
  /\ Proceed("route")
  /\ UNCHANGED <<args, Parsed, err, Resolved, argcount, out>>

\* Fault: standard output is chosen over silence.
RoutedLoud == IF set.tostdout THEN "stdout" ELSE IF set.silent THEN "null" ELSE "stderr"

Routed == IF set.silent THEN "null" ELSE IF set.tostdout THEN "stdout" ELSE "stderr"

\* lookup(): what --define-variable defines comes first, and it expands.
Describes(n) == Repo[n].describedbyv => set.defined \/ Repo[n].v = "good"

(***************************************************************************)
(* With --list-all, list() prints every package, or those before the first *)
(* whose description does not expand; Listing has it in detail.  (There is *)
(* a listing on every platform, so that none refuses the option.)          *)
(***************************************************************************)
Route ==
  /\ phase = "route"
  /\ err' = Routed
  /\ IF ~set.listing THEN UNCHANGED out /\ Proceed("resolve")
     ELSE IF \A n \in DOMAIN Repo : Describes(n)
     THEN out' = <<Token("text", "list")>> /\ Proceed("ok")
     ELSE FailAfter(<<Token("text", "list")>>, Routed)
  /\ UNCHANGED <<args, Parsed, Resolved, argcount>>

-----------------------------------------------------------------------------
(***************************************************************************)
(* parsespecs(): names, some followed by an operator and a version.        *)
(***************************************************************************)
newpkgspec(n) == [name |-> n, op |-> "none", version |-> <<>>]

TakeToken(acc, tok) ==
  IF acc.bad THEN acc
  ELSE CASE acc.pending = "nothing" ->
              IF tok \in Operator THEN [acc EXCEPT !.bad = TRUE]
              ELSE [acc EXCEPT !.specs = <<newpkgspec(tok)>> \o @, !.pending = "operator"]
         [] acc.pending = "operator" ->
              IF tok \in Operator THEN [acc EXCEPT !.specs[1].op = tok, !.pending = "version"]
              ELSE [acc EXCEPT !.specs = <<newpkgspec(tok)>> \o @]
         [] acc.pending = "version" ->
              [acc EXCEPT !.specs[1].version = Text(tok), !.pending = "nothing"]

parsespecs(tokens) ==
  LET taken[n \in 0 .. Len(tokens)] ==
        IF n = 0 THEN [specs |-> <<>>, pending |-> "nothing", bad |-> FALSE]
        ELSE TakeToken(taken[n-1], tokens[n])
      all == taken[Len(tokens)]
  IN  [specs |-> all.specs, ok |-> ~all.bad /\ all.pending # "version"]

(***************************************************************************)
(* process(), by its result: the packages named, and if it is recursive    *)
(* all that they need, dependents before what they require.  (On which     *)
(* mention of a package its version is compared, see Process.)             *)
(***************************************************************************)
Closure(names, edges) ==
  LET from[k \in 0 .. Cardinality(DOMAIN Repo)] ==
        IF k = 0 THEN names ELSE from[k-1] \cup UNION {edges[n] : n \in from[k-1]}
  IN  from[Cardinality(DOMAIN Repo)]

Requires == [n \in DOMAIN Repo |-> Repo[n].requires]
AllNeeds == [n \in DOMAIN Repo |-> Repo[n].requires \cup Repo[n].private]

Orders(names) ==
  {list \in SetToSeqs(names) :
     \A i, j \in DOMAIN list : list[j] \in AllNeeds[list[i]] => i < j}

Resolve ==
  LET parsed == parsespecs(words)
      specs  == parsed.specs
      named  == {specs[i].name : i \in DOMAIN specs}
  IN  /\ phase = "resolve"
      /\ IF /\ parsed.ok
            /\ named # {}
            /\ named \subseteq DOMAIN Repo
            /\ \A i \in DOMAIN specs :
                 specs[i].op = "none" \/ set.ignore_versions
                   \/ validcompare(specs[i].op,
                                     compareversions(Repo[specs[i].name].version, specs[i].version))
         THEN /\ pkgs' \in Orders(IF set.recursive THEN Closure(named, AllNeeds) ELSE named)
              /\ direct' = named
              /\ public' = IF set.recursive THEN Closure(named, Requires) ELSE named
              /\ Proceed("override")
              /\ UNCHANGED out
         ELSE FailTo(err) /\ UNCHANGED Resolved
      /\ UNCHANGED <<args, Parsed, err, argcount>>

(***************************************************************************)
(* The results.                                                            *)
(***************************************************************************)
Override ==
  /\ phase = "override"
  /\ IF set.op = "none" \/
        \A i \in DOMAIN pkgs :
          validcompare(set.op, compareversions(Repo[pkgs[i]].version, set.version))
     THEN Proceed("modversion") /\ UNCHANGED out
     ELSE FailTo(err)
  /\ UNCHANGED <<args, Parsed, err, Resolved, argcount>>

\* What is at some of the positions of a sequence.
Picked(s, at) ==
  LET picked[i \in 0 .. Len(s)] ==
        IF i = 0 THEN <<>>
        ELSE IF i \in at THEN Append(picked[i-1], s[i]) ELSE picked[i-1]
  IN  picked[Len(s)]

\* The packages in a set, in their order.
Listed(S) == Picked(pkgs, {i \in DOMAIN pkgs : pkgs[i] \in S})

Line(class, of) == <<Token(class, of), Token("text", "newline")>>

PrintVersions ==
  /\ phase = "modversion"
  /\ out' = out \o IF set.modversion
                   THEN FlattenSeq([i \in DOMAIN Listed(direct) |->
                                      Line("version", Listed(direct)[i])])
                   ELSE <<>>
  /\ Proceed("variable")
  /\ UNCHANGED <<args, Parsed, err, Resolved, argcount>>

\* lookup() and expand(): again, a global definition comes first.
VariableLine(n) ==
  IF set.variable # "v" THEN <<>>
  ELSE IF set.defined THEN Line("value", "global")
  ELSE IF Repo[n].v # "none" THEN Line("value", n) ELSE <<>>

VariableLines(names) == FlattenSeq([i \in DOMAIN names |-> VariableLine(names[i])])

\* The value refers to a variable that is not defined.
Unexpandable(n) == set.variable = "v" /\ ~set.defined /\ Repo[n].v = "bad"

(***************************************************************************)
(* The lines before the value that fails to expand are printed, of which   *)
(* nothing is left if messages go elsewhere.                               *)
(***************************************************************************)
PrintVariable ==
  LET named == Listed(direct)
      first == Min({i \in DOMAIN named : Unexpandable(named[i])})
  IN  /\ phase = "variable"
      /\ IF \A n \in direct : ~Unexpandable(n)
         THEN out' = out \o VariableLines(named) /\ Proceed("cflags")
         ELSE FailAfter(out \o VariableLines(SubSeq(named, 1, first - 1)), err)
      /\ UNCHANGED <<args, Parsed, err, Resolved, argcount>>

filterok(filter, class) ==
  CASE filter = "any"    -> TRUE
    [] filter \in {"I", "L", "l"} -> class = filter
    [] filter = "otherc" -> class # "I"
    [] filter = "otherl" -> class \notin {"L", "l"}

\* Fault: each kind of flags starts to count anew.
DelimitedAnew(arguments) ==
  FlattenSeq([i \in DOMAIN arguments |->
    (IF i > 1 THEN <<Token("text", "delim")>> ELSE <<>>) \o <<arguments[i]>>])

\* Every argument but the first of them all follows a delimiter.
Delimited(arguments) ==
  FlattenSeq([i \in DOMAIN arguments |->
    (IF argcount + i > 1 THEN <<Token("text", "delim")>> ELSE <<>>) \o <<arguments[i]>>])

\* Two fields, one after the other.
Both(f, g) == [ok |-> f.ok /\ g.ok, args |-> f.args \o g.args]
NoField    == [ok |-> TRUE, args |-> <<>>]

\* appendfield() of some fields, and writeargs().
WriteFields(fields, filter, next) ==
  LET all       == FlattenSeq([i \in DOMAIN fields |-> fields[i].args])
      arguments == Picked(all, {i \in DOMAIN all : filterok(filter, all[i].class)})
  IN  IF \A i \in DOMAIN fields : fields[i].ok
      THEN /\ out' = out \o Delimited(arguments)
           /\ argcount' = argcount + Len(arguments)
           /\ Proceed(next)
      ELSE FailTo(err) /\ UNCHANGED argcount

CflagsOf(n) ==
  Both(Repo[n].cflags, IF set.static THEN Repo[n].cflagsprivate ELSE NoField)

Cflags ==
  /\ phase = "cflags"
  /\ IF set.cflags = "off" THEN Proceed("libs") /\ UNCHANGED <<out, argcount>>
     ELSE WriteFields([i \in DOMAIN pkgs |-> CflagsOf(pkgs[i])], set.cflags, "libs")
  /\ UNCHANGED <<args, Parsed, err, Resolved>>

LibsOf(n) ==
  IF set.static THEN Both(Repo[n].libs, Repo[n].libsprivate)
  ELSE IF n \in public THEN Repo[n].libs ELSE NoField

Libs ==
  /\ phase = "libs"
  /\ IF set.libs = "off" THEN Proceed("newline") /\ UNCHANGED <<out, argcount>>
     ELSE WriteFields([i \in DOMAIN pkgs |-> LibsOf(pkgs[i])], set.libs, "newline")
  /\ UNCHANGED <<args, Parsed, err, Resolved>>

EndOfOutput ==
  /\ phase = "newline"
  /\ out' = out \o IF set.cflags # "off" \/ set.libs # "off"
                   THEN <<Token("text", "newline")>> ELSE <<>>
  /\ Proceed("ok")
  /\ UNCHANGED <<args, Parsed, err, Resolved, argcount>>

Stopped == phase \in {"ok", "fail"} /\ UNCHANGED vars

Next ==
  \/ Word \/ DashDash \/ SimpleOption \/ ValuedOption
  \/ BadOption \/ ReturnOption \/ EndOfOptions
  \/ Route \/ Resolve \/ Override
  \/ PrintVersions \/ PrintVariable \/ Cflags \/ Libs \/ EndOfOutput
  \/ Stopped

Spec == Init /\ [][Next]_vars

-----------------------------------------------------------------------------
(***************************************************************************)
(* Properties.  They refer to the command line as a user reads it, not to  *)
(* what became of it.                                                      *)
(***************************************************************************)

\* What each argument is; behind "--" all the rest are words.
Role ==
  LET role[i \in 0 .. Len(args)] ==
        IF i = 0 THEN "program"
        ELSE LET before == role[i-1]
             IN  IF before \in {"dashes", "rest"} THEN "rest"
                 ELSE IF before = "option" /\ args[i-1] \in Valued THEN "value"
                 ELSE IF args[i] = "--" THEN "dashes"
                 ELSE IF LooksLikeOption(args[i]) THEN "option" ELSE "word"
  IN  role

\* The positions of the options of some kind, and the last of them.
Given(S) == LET role == Role
            IN  {i \in DOMAIN args : role[i] = "option" /\ OptionOf(args[i]) \in S}
Asked(S) == Given(S) # {}
LastOf(S) == Max(Given(S))

ValueAt(i) == IF args[i] \in DOMAIN Attached THEN Attached[args[i]][2] ELSE args[i+1]
Lacks(i)   == args[i] \in Valued /\ i = Len(args)

VersionOptions == {"--atleast-version", "--exact-version", "--max-version"}
CflagsOptions  == {"--cflags", "--cflags-only-I", "--cflags-only-other"}
LibsOptions    == {"--libs", "--libs-only-L", "--libs-only-l", "--libs-only-other"}
Silencing      == VersionOptions \cup {"--exists", "--silence-errors", "--validate"}

\* Options that end the reading, and whether in a failure.
Bad == Given({"--unknown"}) \cup {i \in Given(Valued) : Lacks(i)} \cup
       {i \in Given({"--define-variable"}) : ~Lacks(i) /\ ValueAt(i) # "v=1"}
Returning == Given(Printing) \cup {i \in Given({"--atleast-pkgconfig-version"}) : ~Lacks(i)}
First(S, T) == S # {} /\ Min(S \cup T) \in S

Holds(o, v, w) ==
  \/ Before(v, w) /\ o \in {"<", "<="}
  \/ v = w        /\ o \in {"<=", "=", ">="}
  \/ Before(w, v) /\ o \in {">=", ">"}

\* The arguments that are words, and which of them are versions.
WordsGiven == LET role == Role
                  given[i \in 0 .. Len(args)] ==
                    IF i = 0 THEN <<>>
                    ELSE IF role[i] \in {"word", "rest"} THEN Append(given[i-1], args[i])
                    ELSE given[i-1]
              IN  given[Len(args)]
IsVersion  == LET given == WordsGiven
                  v[i \in 0 .. Len(given)] == i > 1 /\ ~v[i-1] /\ given[i-1] \in Operator
              IN  v
OpsGiven   == {i \in DOMAIN WordsGiven : ~IsVersion[i] /\ WordsGiven[i] \in Operator}
Named      == {WordsGiven[i] : i \in {j \in DOMAIN WordsGiven : ~IsVersion[j]} \ OpsGiven}

WordsMakeSense ==
  /\ \A i \in OpsGiven : 1 < i /\ i < Len(WordsGiven) /\ ~IsVersion[i-1]
  /\ Named # {} /\ Named \subseteq DOMAIN Repo
  /\ Asked(VersionOptions) \/
     \A i \in OpsGiven :
       Holds(WordsGiven[i], Repo[WordsGiven[i-1]].version, Text(WordsGiven[i+1]))

Deep == ~Asked(VersionOptions \cup {"--modversion", "--validate"})
Needed == IF Deep THEN Closure(Named, AllNeeds) ELSE Named
NeededPublicly == IF Deep THEN Closure(Named, Requires) ELSE Named
Static == Asked({"--static"})

VersionsMakeSense ==
  Asked(VersionOptions) =>
    LET last == LastOf(VersionOptions)
        o    == CASE OptionOf(args[last]) = "--atleast-version" -> ">="
                  [] OptionOf(args[last]) = "--exact-version"   -> "="
                  [] OptionOf(args[last]) = "--max-version"     -> "<="
    IN  \A n \in Needed : Holds(o, Repo[n].version, Text(ValueAt(last)))

VariableMakesSense ==
  /\ Asked({"--variable"}) /\ ~Asked({"--define-variable"})
  /\ ValueAt(LastOf({"--variable"})) = "v"
  => \A n \in Named : Repo[n].v # "bad"

FieldsMakeSense ==
  /\ Asked(CflagsOptions) =>
       \A n \in Needed : Repo[n].cflags.ok /\ (Static => Repo[n].cflagsprivate.ok)
  /\ Asked(LibsOptions) =>
       /\ \A n \in IF Static THEN Needed ELSE NeededPublicly : Repo[n].libs.ok
       /\ Static => \A n \in Needed : Repo[n].libsprivate.ok

ResultsMakeSense ==
  WordsMakeSense /\ VersionsMakeSense /\ VariableMakesSense /\ FieldsMakeSense

ListMakesSense ==
  \A n \in DOMAIN Repo :
    Repo[n].describedbyv => Asked({"--define-variable"}) \/ Repo[n].v = "good"

(***************************************************************************)
(* The exit status is success exactly if the command line makes sense, the *)
(* packages are there and have the versions asked for, and what is to be   *)
(* printed can be expanded and parsed; of a list, every description.       *)
(* Options decide in their order; none of those that silence messages has  *)
(* a say, nor what --libs and --cflags filter.  Versions are in the order  *)
(* Before, by positions and numbers instead of one pass over bytes.        *)
(***************************************************************************)
ExitsRightly ==
  phase \in {"ok", "fail"} =>
    (phase = "ok" <=>
       CASE First(Returning, Bad) -> TRUE
         [] First(Bad, Returning) -> FALSE
         [] OTHER -> IF Asked({"--list-all"}) THEN ListMakesSense ELSE ResultsMakeSense)

(***************************************************************************)
(* A failure shows one message, at the place that the options ask for      *)
(* wherever they are on the command line: silence wins over standard       *)
(* output.  Bad options are always reported.  A success has no message,    *)
(* and a failure no output unless that is where messages go.               *)
(***************************************************************************)
MessageRouted ==
  /\ phase = "ok" => message = "none"
  /\ phase = "fail" =>
       message = CASE First(Bad, Returning) -> "stderr"
                   [] OTHER -> IF Asked(Silencing) THEN "null"
                               ELSE IF Asked({"--errors-to-stdout"}) THEN "stdout" ELSE "stderr"
  /\ phase = "fail" /\ message # "stdout" => out = <<>>

ArgsOf(names, field(_), filters) ==
  LET list == Listed(names)
      all  == FlattenSeq([i \in DOMAIN list |-> field(list[i])])
  IN  Picked(all, {i \in DOMAIN all : all[i].class \in filters})

\* The classes of arguments that an option asks for.
Wanted(o) ==
  CASE o = "--cflags-only-I" -> {"I"}
    [] o = "--cflags-only-other" -> {"L", "l", "other"}
    [] o = "--libs-only-L" -> {"L"}
    [] o = "--libs-only-l" -> {"l"}
    [] o = "--libs-only-other" -> {"I", "other"}
    [] OTHER -> {"I", "L", "l", "other"}

CflagsAsked ==
  IF ~Asked(CflagsOptions) THEN <<>>
  ELSE ArgsOf(Needed,
         LAMBDA n : Repo[n].cflags.args \o IF Static THEN Repo[n].cflagsprivate.args ELSE <<>>,
         Wanted(args[LastOf(CflagsOptions)]))

LibsAsked ==
  IF ~Asked(LibsOptions) THEN <<>>
  ELSE ArgsOf(IF Static THEN Needed ELSE NeededPublicly,
         LAMBDA n : Repo[n].libs.args \o IF Static THEN Repo[n].libsprivate.args ELSE <<>>,
         Wanted(args[LastOf(LibsOptions)]))

\* The lines before the flags, each a version or the value of a variable.
Lines(printed) ==
  /\ Len(printed) % 2 = 0
  /\ \A i \in DOMAIN printed :
       IF i % 2 = 1 THEN printed[i].class \in {"version", "value"}
       ELSE printed[i] = Token("text", "newline")

(***************************************************************************)
(* The flags of a success are the arguments asked for, of compiler and     *)
(* linker in this order, on one line, with one delimiter between any two;  *)
(* there is such a line exactly if flags were asked for, and it is last.   *)
(***************************************************************************)
FlagsOnOneLine ==
  phase = "ok" /\ Returning = {} /\ ~Asked({"--list-all"}) =>
    LET flags == CflagsAsked \o LibsAsked
        line  == [i \in 1 .. 2 * Len(flags) |->
                    IF i % 2 = 1 THEN flags[(i + 1) \div 2]
                    ELSE Token("text", IF i < 2 * Len(flags) THEN "delim" ELSE "newline")]
    IN  \E n \in 0 .. Len(out) :
          /\ Lines(SubSeq(out, 1, n))
          /\ SubSeq(out, n + 1, Len(out)) =
               IF ~Asked(CflagsOptions \cup LibsOptions) THEN <<>>
               ELSE IF flags = <<>> THEN <<Token("text", "newline")>> ELSE line

=============================================================================
