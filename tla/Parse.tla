-------------------------------- MODULE Parse -------------------------------
(***************************************************************************)
(* parsepackage(): from the bytes of a package file to its variables and   *)
(* fields.                                                                 *)
(*                                                                         *)
(* A line is a definition "name = value", a field "name: value", or is     *)
(* ignored.  "#" starts a comment, even after a value.  A backslash in     *)
(* front of a line end joins two lines, one in front of "#" makes it a     *)
(* part of the value.                                                      *)
(***************************************************************************)
EXTENDS Integers, Sequences, SequencesExt, Trie

CONSTANTS
  Known,    \* the names of fields that fieldbyname() knows
  Inputs    \* the files under consideration

\* What a file may consist of: "a" stands for all bytes without a meaning.
Byte == {"a", "b", "N", "U", " ", "\n", "\r", "=", ":", "#", "\\"}

File == Seq(Byte)
None == "none"

whitespace(c) == c \in {" ", "\n", "\r"}

(***************************************************************************)
(* Where a file comes from: its lines, each with what it is to say and how *)
(* it is written down.                                                     *)
(***************************************************************************)
Blank   == {" ", "\r"}
NewLine == {<<"\n">>, <<"\r", "\n">>}
Joint   == {<<"\\">> \o eol : eol \in NewLine}

\* Only blanks, and line ends that a backslash precedes.
Skipped(s) ==
  \A i \in DOMAIN s :
    \/ s[i] \in Blank
    \/ s[i] = "\\" /\ \E k \in {1, 2} : i + k \in DOMAIN s /\ SubSeq(s, i, i + k) \in Joint
    \/ s[i] = "\n" /\ \E k \in {1, 2} : i - k \in DOMAIN s /\ SubSeq(s, i - k, i) \in Joint

\* Only blanks, or blanks and a comment.
NoMore(s) ==
  \A i \in DOMAIN s : s[i] # "\n" /\ (s[i] \in Blank \/ \E j \in 1 .. i : s[j] = "#")

Style == {s \in [indent : File,    \* before the name
                 mid    : File,    \* between name and separator
                 post   : File,    \* between separator and value
                 joint  : File,    \* after the first byte of the value
                 trail  : File,    \* after the value
                 eol    : NewLine] :
            /\ \A i \in DOMAIN s.indent : whitespace(s.indent[i])
            /\ \A i \in DOMAIN s.mid : s.mid[i] \in Blank
            /\ Skipped(s.post)
            /\ s.joint \in Joint \cup {<<>>}
            /\ NoMore(s.trail)}

Holds(s, bytes) == \E i \in DOMAIN s : s[i] \in bytes

\* What can be written down as a name, or as a value.
NameText(s)  == s # <<>> /\ ~Holds(s, {"\n", "=", ":"}) /\ ~whitespace(s[1]) /\ s[1] # "#"
ValueText(s) ==
  ~Holds(s, {"\n"}) /\ (s # <<>> => ~whitespace(s[1]) /\ ~whitespace(s[Len(s)]) /\ s[Len(s)] # "\\")

Line == {l \in [kind : {"=", ":", "ignored", "comment"}, name : File, value : File, style : Style] :
           CASE l.kind = "comment" -> ~Holds(l.name, {"\n"}) /\ ~Holds(l.value, {"\n"})
             [] l.kind = "ignored" -> NameText(l.name)
             [] OTHER -> /\ NameText(l.name) /\ ~whitespace(l.name[Len(l.name)])
                         /\ ValueText(l.value)}

Input == [lines : Seq(Line), final : BOOLEAN]    \* the last line end is there

ASSUME InputsAssumption == Inputs \subseteq Input

\* What is not bound has no value.
ASSUME NullAssumption == Null \notin File

\* "#" is written with a backslash.
Written(value, joint) ==
  FlattenSeq([i \in DOMAIN value |->
    (IF value[i] = "#" THEN <<"\\", "#">> ELSE <<value[i]>>) \o (IF i = 1 THEN joint ELSE <<>>)])

LineText(line) ==
  line.style.indent \o
  CASE line.kind = "comment" -> <<"#">> \o line.name \o <<"=">> \o line.value
    [] line.kind = "ignored" -> line.name
    [] OTHER -> line.name \o line.style.mid \o <<line.kind>> \o line.style.post
                  \o Written(line.value, line.style.joint) \o line.style.trail

FileOf(i) ==
  FlattenSeq([k \in DOMAIN i.lines |->
    LineText(i.lines[k]) \o
      IF k = Len(i.lines) /\ ~i.final THEN <<>> ELSE i.lines[k].style.eol])

VARIABLES
  input,     \* the lines that the file was written from; never changes
  src,       \* the file; never changes
  p,         \* the position in it
  beg, end,  \* the name or value under way: from beg up to before end
  name,      \* the name of this line
  op,        \* the separator of this line
  cleanup,   \* the value has escapes to be removed
  env,       \* the tree of the variables
  fields,    \* values of known fields
  phase      \* "line", "name", "lead", "value", "ok", "dupvar" or "dupfield"

vars == <<input, src, p, beg, end, name, op, cleanup, env, fields, phase>>

Init ==
  /\ input \in Inputs
  /\ src = FileOf(input)
  /\ p = 1
  /\ beg = 1
  /\ end = 1
  /\ name = <<>>
  /\ op = None
  /\ cleanup = FALSE
  /\ env = NoNodes
  /\ fields = <<>>
  /\ phase = "line"

-----------------------------------------------------------------------------
AtEnd == p > Len(src)
At(i) == IF i \in DOMAIN src THEN src[i] ELSE None

\* Fault: lines that end as on Windows are not joined.
EscapedUnix(s, i) ==
  IF i + 1 \in DOMAIN s /\ s[i] = "\\" /\ s[i+1] = "\n" THEN 2 ELSE 0

\* The number of bytes of the escape of a line end at position i.
escaped(s, i) ==
  CASE i + 1 \in DOMAIN s /\ s[i] = "\\" /\ s[i+1] = "\n" -> 2
    [] i + 2 \in DOMAIN s /\ s[i] = "\\" /\ s[i+1] = "\r" /\ s[i+2] = "\n" -> 3
    [] OTHER -> 0

\* A value without the escapes in it.
stripescapes(s) ==
  LET from[i \in 1 .. Len(s) + 1] ==
        IF i > Len(s) THEN <<>>
        ELSE IF escaped(s, i) > 0 THEN from[i + escaped(s, i)]
        ELSE IF s[i] = "\\" /\ i < Len(s) /\ s[i+1] = "#" THEN from[i + 1]
        ELSE <<s[i]>> \o from[i + 1]
  IN  from[1]

\* The position after the end of the line that i is in.
NextLine(i) ==
  IF \E k \in i .. Len(src) : src[k] = "\n"
  THEN 1 + CHOOSE k \in i .. Len(src) : src[k] = "\n" /\ \A j \in i .. k - 1 : src[j] # "\n"
  ELSE Len(src) + 1

(***************************************************************************)
(* At the start of a line.                                                 *)
(***************************************************************************)
SkipSpace ==
  /\ phase = "line" /\ ~AtEnd
  /\ whitespace(At(p))
  /\ p' = p + 1
  /\ UNCHANGED <<input, src, beg, end, name, op, cleanup, env, fields, phase>>

SkipComment ==
  /\ phase = "line"
  /\ At(p) = "#"
  /\ p' = NextLine(p)
  /\ UNCHANGED <<input, src, beg, end, name, op, cleanup, env, fields, phase>>

StartName ==
  /\ phase = "line" /\ ~AtEnd
  /\ ~whitespace(At(p)) /\ At(p) # "#"
  /\ beg' = p
  /\ end' = p
  /\ phase' = "name"
  /\ UNCHANGED <<input, src, p, name, op, cleanup, env, fields>>

Finish ==
  /\ phase = "line" /\ AtEnd
  /\ phase' = "ok"
  /\ UNCHANGED <<input, src, p, beg, end, name, op, cleanup, env, fields>>

(***************************************************************************)
(* The name of a line, up to a separator.                                  *)
(***************************************************************************)
Separator == {"\n", "=", ":"}

NameByte ==
  /\ phase = "name" /\ ~AtEnd
  /\ At(p) \notin Separator
  /\ end' = IF whitespace(At(p)) THEN end ELSE p + 1
  /\ p' = p + 1
  /\ UNCHANGED <<input, src, beg, name, op, cleanup, env, fields, phase>>

\* Fault: the line is taken up again.
AfterNothingStays == beg

\* Where a line without a separator ends.
AfterNothing == IF AtEnd THEN p ELSE p + 1

IgnoreLine ==
  /\ phase = "name"
  /\ AtEnd \/ At(p) = "\n"
  /\ p' = AfterNothing
  /\ phase' = "line"
  /\ UNCHANGED <<input, src, beg, end, name, op, cleanup, env, fields>>

ThisName == SubSeq(src, beg, end - 1)

\* Fault: a variable may be defined again.
TakenField == At(p) = ":" /\ ThisName \in DOMAIN fields

\* There is a value for this name.
Taken == \/ At(p) = "=" /\ Lookup(env, ThisName) # Null
         \/ At(p) = ":" /\ ThisName \in DOMAIN fields

Separate ==
  /\ phase = "name"
  /\ At(p) \in {"=", ":"}
  /\ name' = ThisName
  /\ op' = At(p)
  /\ p' = p + 1
  /\ env' = IF At(p) = "=" THEN Insert(env, ThisName) ELSE env
  /\ phase' = IF ~Taken THEN "lead" ELSE IF At(p) = "=" THEN "dupvar" ELSE "dupfield"
  /\ UNCHANGED <<input, src, beg, end, cleanup, fields>>

(***************************************************************************)
(* What precedes a value: spaces, and line ends that are escaped.          *)
(***************************************************************************)
Leading == At(p) \in {" ", "\r"} \/ escaped(src, p) > 0

SkipLeading ==
  /\ phase = "lead"
  /\ Leading
  /\ p' = IF At(p) = "\\" THEN p + escaped(src, p) ELSE p + 1
  /\ UNCHANGED <<input, src, beg, end, name, op, cleanup, env, fields, phase>>

StartValue ==
  /\ phase = "lead"
  /\ ~Leading
  /\ beg' = p
  /\ end' = p
  /\ cleanup' = FALSE
  /\ phase' = "value"
  /\ UNCHANGED <<input, src, p, name, op, env, fields>>

(***************************************************************************)
(* The value, up to the end of the line or a comment.                      *)
(***************************************************************************)
InValue == phase = "value" /\ ~AtEnd /\ At(p) # "\n"

ValueByte ==
  /\ InValue
  /\ At(p) \notin {"#", "\\"}
  /\ end' = IF whitespace(At(p)) THEN end ELSE p + 1
  /\ p' = p + 1
  /\ UNCHANGED <<input, src, beg, name, op, cleanup, env, fields, phase>>

EscapedHash ==
  /\ InValue
  /\ At(p) = "\\" /\ At(p + 1) = "#"
  /\ p' = p + 2
  /\ end' = p + 2
  /\ cleanup' = TRUE
  /\ UNCHANGED <<input, src, beg, name, op, env, fields, phase>>

EscapedNewline ==
  /\ InValue
  /\ escaped(src, p) > 0
  /\ p' = p + escaped(src, p)
  /\ cleanup' = TRUE
  /\ UNCHANGED <<input, src, beg, end, name, op, env, fields, phase>>

\* Any other backslash belongs to the value if something follows it.
Backslash ==
  /\ InValue
  /\ At(p) = "\\" /\ At(p + 1) # "#" /\ escaped(src, p) = 0
  /\ p' = p + 1
  /\ UNCHANGED <<input, src, beg, end, name, op, cleanup, env, fields, phase>>

\* A table of fields with a value for this one.
Put(table, n, text) == [x \in DOMAIN table \cup {n} |-> IF x = n THEN text ELSE table[x]]

\* A value of a field that is not known is dropped.
EndValue ==
  /\ phase = "value"
  /\ AtEnd \/ At(p) \in {"\n", "#"}
  /\ LET span  == SubSeq(src, beg, end - 1)
         text  == IF cleanup THEN stripescapes(span) ELSE span
     IN  /\ env' = IF op = "=" THEN Bind(env, name, text) ELSE env
         /\ fields' = IF op = ":" /\ name \in Known THEN Put(fields, name, text) ELSE fields
  /\ p' = IF At(p) = "#" THEN NextLine(p) ELSE p
  /\ phase' = "line"
  /\ UNCHANGED <<input, src, beg, end, name, op, cleanup>>

Stopped == phase \in {"ok", "dupvar", "dupfield"} /\ UNCHANGED vars

Next ==
  \/ SkipSpace \/ SkipComment \/ StartName \/ Finish
  \/ NameByte \/ IgnoreLine \/ Separate
  \/ SkipLeading \/ StartValue
  \/ ValueByte \/ EscapedHash \/ EscapedNewline \/ Backslash \/ EndValue
  \/ Stopped

\* A process that runs by itself.
Spec == Init /\ [][Next]_vars /\ WF_vars(Next)

-----------------------------------------------------------------------------
(***************************************************************************)
(* Properties.                                                             *)
(***************************************************************************)
Lines == input.lines

\* The lines that give a value to a variable, or to a known field.
Defining(kind) ==
  {k \in DOMAIN Lines : Lines[k].kind = kind /\ (kind = ":" => Lines[k].name \in Known)}

Variables == {env[at].name : at \in DOMAIN env}
Values    == [n \in Variables |-> Lookup(env, n)]

IsDefinedBy(f, kind) ==
  /\ DOMAIN f = {Lines[k].name : k \in Defining(kind)}
  /\ \A k \in Defining(kind) : f[Lines[k].name] = Lines[k].value

(***************************************************************************)
(* However a file is written down (indented, with spaces, comments, joined *)
(* lines, line ends of either kind, or none at its end), the variables and *)
(* fields are those that its lines define, with those values.              *)
(***************************************************************************)
ParsedExactly == phase = "ok" => IsDefinedBy(Values, "=") /\ IsDefinedBy(fields, ":")

\* The lines that define what a line before has defined.
Duplicates ==
  {k \in Defining("=") \cup Defining(":") :
     \E j \in 1 .. k - 1 : Lines[j].kind = Lines[k].kind /\ Lines[j].name = Lines[k].name}

(***************************************************************************)
(* A file is rejected exactly if it defines something twice, for the first *)
(* duplicate in it, and by its name.                                       *)
(***************************************************************************)
DuplicatesRejected ==
  phase \in {"ok", "dupvar", "dupfield"} =>
    IF Duplicates = {} THEN phase = "ok"
    ELSE \E k \in Duplicates :
           /\ \A j \in Duplicates : k <= j
           /\ name = Lines[k].name
           /\ phase = IF Lines[k].kind = "=" THEN "dupvar" ELSE "dupfield"

(***************************************************************************)
(* The end of any file is reached.                                         *)
(***************************************************************************)
Termination == <>(phase \in {"ok", "dupvar", "dupfield"})

=============================================================================
