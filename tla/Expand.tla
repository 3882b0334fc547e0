-------------------------------- MODULE Expand ------------------------------
(***************************************************************************)
(* expandmerge(): the fields of a package that was just read are expanded  *)
(* one after the other, references to variables replaced by their values,  *)
(* the references in those by theirs, and so on.                           *)
(*                                                                         *)
(* There is no recursion in expand(): what is left to be printed is kept   *)
(* on a stack of fixed size, and the size of the stack is also all that    *)
(* stops a variable that refers to itself.                                 *)
(***************************************************************************)
EXTENDS Integers, Sequences, SequencesExt

CONSTANTS
  Vars,     \* names of variables
  Lits,     \* pieces of text without a reference
  Cap,      \* the number of entries of the stack
  Inputs    \* the packages, and global variables, under consideration

ASSUME CapAssumption == Cap \in Nat /\ Cap > 1

(***************************************************************************)
(* A text is a sequence of tokens: literal text, "${name}", or "$$".       *)
(***************************************************************************)
Lit(l) == [kind |-> "lit", is |-> l]
Ref(v) == [kind |-> "ref", is |-> v]
Esc    == [kind |-> "esc", is |-> "$$"]

Token == {Lit(l) : l \in Lits} \cup {Ref(v) : v \in Vars} \cup {Esc}
Text  == Seq(Token)

\* An environment gives values to some of the variables.
IsEnv(env) == DOMAIN env \subseteq Vars /\ \A v \in DOMAIN env : env[v] \in Text

IsInput(i) ==
  /\ IsEnv(i.global)
  /\ IsEnv(i.local)
  /\ i.fields \in Seq(Text) \ {<<>>}

ASSUME InputsAssumption == \A i \in Inputs : IsInput(i)

VARIABLES
  input,    \* the variables and the fields; never changes
  stack,    \* the texts still to be printed, the top of the stack first
  out,      \* what was printed of this field
  base,     \* the fields that were expanded
  outcome   \* "running", "ok", "recursion" or "undefined"

vars == <<input, stack, out, base, outcome>>

\* The stack never holds more than fits.
TypeOK ==
  /\ IsInput(input)
  /\ stack \in Seq(Text) /\ Len(stack) <= Cap
  /\ out \in Seq(Lits \cup {"$"})
  /\ base \in Seq(Seq(Lits \cup {"$"})) /\ Len(base) <= Len(input.fields)
  /\ outcome \in {"running", "ok", "recursion", "undefined"}

Init ==
  /\ input \in Inputs
  /\ stack = <<input.fields[1]>>
  /\ out = <<>>
  /\ base = <<>>
  /\ outcome = "running"

-----------------------------------------------------------------------------
\* Fault: a package's own variables hide the global ones.
LookupLocalFirst(v) ==
  IF v \in DOMAIN input.local THEN {input.local[v]}
  ELSE IF v \in DOMAIN input.global THEN {input.global[v]} ELSE {}

\* The value of a variable, or no value.
lookup(v) ==
  IF v \in DOMAIN input.global THEN {input.global[v]}
  ELSE IF v \in DOMAIN input.local THEN {input.local[v]} ELSE {}

IsLit(token) == token.kind = "lit"

\* Literal text at the front of s, and what stands after it.
Literals(s) == IF \A i \in DOMAIN s : IsLit(s[i]) THEN s
               ELSE SubSeq(s, 1, SelectInSeq(s, LAMBDA t : ~IsLit(t)) - 1)
After(s) == SubSeq(s, Len(Literals(s)) + 1, Len(s))

Printed(tokens) == [i \in DOMAIN tokens |-> tokens[i].is]

\* The text at the top of the stack is scanned for a "$".
Pops ==
  /\ outcome = "running"
  /\ stack # <<>>

PrintPlain ==
  /\ Pops
  /\ After(Head(stack)) = <<>>
  /\ out' = out \o Printed(Head(stack))
  /\ stack' = Tail(stack)
  /\ UNCHANGED <<input, base, outcome>>

AtRef == Pops /\ After(Head(stack)) # <<>> /\ Head(After(Head(stack))).kind = "ref"
Name  == Head(After(Head(stack))).is

\* Fault: one entry too many is taken to be free.
RoomBeyond(rest) == Len(rest) < Cap

\* Fault: a free entry is not used.
RoomWithin(rest) == Len(rest) < Cap - 2

\* Two entries are needed: the rest of this text, and the value.
Room(rest) == Len(rest) - 1 < Cap - 2

\* Fault: the rest of the text is not pushed when there is none.
RemainderElided(s) == IF Tail(After(s)) = <<>> THEN <<>> ELSE <<Tail(After(s))>>

\* What follows a reference is pushed, even if it is empty.
Remainder(s) == <<Tail(After(s))>>

Reference ==
  /\ AtRef
  /\ Room(Tail(stack))
  /\ \E value \in lookup(Name) :
       stack' = <<value>> \o Remainder(Head(stack)) \o Tail(stack)
  /\ out' = out \o Printed(Literals(Head(stack)))
  /\ UNCHANGED <<input, base, outcome>>

FailRecursion ==
  /\ AtRef
  /\ ~Room(Tail(stack))
  /\ outcome' = "recursion"
  /\ UNCHANGED <<input, stack, out, base>>

FailUndefined ==
  /\ AtRef
  /\ Room(Tail(stack))
  /\ lookup(Name) = {}
  /\ out' = out \o Printed(Literals(Head(stack)))
  /\ stack' = Remainder(Head(stack)) \o Tail(stack)
  /\ outcome' = "undefined"
  /\ UNCHANGED <<input, base>>

\* "$$" makes one "$", and scanning goes on after it.
Escaped ==
  /\ Pops
  /\ After(Head(stack)) # <<>>
  /\ Head(After(Head(stack))) = Esc
  /\ out' = out \o Printed(Literals(Head(stack))) \o <<"$">>
  /\ stack' = Remainder(Head(stack)) \o Tail(stack)
  /\ UNCHANGED <<input, base, outcome>>

\* The stack is empty: the field is complete.
FieldDone ==
  /\ outcome = "running"
  /\ stack = <<>>
  /\ base' = Append(base, out)
  /\ UNCHANGED input

NextField ==
  /\ FieldDone
  /\ Len(base') < Len(input.fields)
  /\ stack' = <<input.fields[Len(base') + 1]>>
  /\ out' = <<>>
  /\ UNCHANGED outcome

Finish ==
  /\ FieldDone
  /\ Len(base') = Len(input.fields)
  /\ outcome' = "ok"
  /\ UNCHANGED <<stack, out>>

Stopped == outcome # "running" /\ UNCHANGED vars

Next ==
  \/ PrintPlain \/ Reference \/ Escaped
  \/ FailRecursion \/ FailUndefined
  \/ NextField \/ Finish
  \/ Stopped

\* A process that runs by itself.
Spec == Init /\ [][Next]_vars /\ WF_vars(Next)

-----------------------------------------------------------------------------
(***************************************************************************)
(* Properties.                                                             *)
(***************************************************************************)

\* A global variable hides that of the package.
Bound == [v \in DOMAIN input.global \cup DOMAIN input.local |->
            IF v \in DOMAIN input.global THEN input.global[v] ELSE input.local[v]]

Texts == {input.fields[i] : i \in DOMAIN input.fields} \cup {Bound[v] : v \in DOMAIN Bound}

\* The variables that a text refers to.
Mentions(text) == {text[i].is : i \in {j \in DOMAIN text : text[j].kind = "ref"}}

\* The texts in which at most n references are nested in one another.
Shallow[n \in 0 .. Cap - 1] ==
  {text \in Texts : \A v \in Mentions(text) :
     n > 0 /\ (v \in DOMAIN Bound => Bound[v] \in Shallow[n - 1])}

\* A text and all that its references lead to.
Closed(S)   == \A t \in S : \A v \in Mentions(t) \cap DOMAIN Bound : Bound[v] \in S
Leads(text) == {t \in Texts : \A S \in SUBSET Texts : text \in S /\ Closed(S) => t \in S}

LeadsToUndefined(text) ==
  \E t \in Leads(text) : ~(Mentions(t) \subseteq DOMAIN Bound)

\* A text that is pieced together, with m the meanings of what it refers to.
Piece(n, m, token) ==
  CASE token.kind = "lit" -> <<token.is>>
    [] token.kind = "esc" -> <<"$">>
    [] token.kind = "ref" /\ n > 0 /\ token.is \in DOMAIN Bound -> m[Bound[token.is]]
    [] OTHER -> <<>>

Pieces(n, m, text) ==
  LET from[i \in 1 .. Len(text) + 1] ==
        IF i > Len(text) THEN <<>> ELSE Piece(n, m, text[i]) \o from[i + 1]
  IN  from[1]

(***************************************************************************)
(* What a text means, references replaced all the way down.  It is only    *)
(* asked for where they are defined and nested less than n deep.           *)
(***************************************************************************)
Meaning[n \in 0 .. Cap] == [text \in Texts |-> Pieces(n, Meaning[n - 1], text)]

(***************************************************************************)
(* Every field that is complete is the meaning of its text, each by itself.*)
(***************************************************************************)
ExpandedExactly ==
  \A i \in DOMAIN base : base[i] = Meaning[Cap][input.fields[i]]

(***************************************************************************)
(* A field is turned down exactly for what is wrong with it: as undefined  *)
(* only if it leads to a variable without a value, as endless only if its  *)
(* references are nested deeper than the stack allows; and it is complete  *)
(* only if neither is the case.                                            *)
(***************************************************************************)
FailsRightly ==
  LET this == input.fields[Len(base) + 1]
  IN  /\ outcome = "undefined" => LeadsToUndefined(this)
      /\ outcome = "recursion" => this \notin Shallow[Cap - 1]
      /\ \A i \in DOMAIN base : /\ ~LeadsToUndefined(input.fields[i])
                                /\ input.fields[i] \in Shallow[Cap - 1]

(***************************************************************************)
(* Expansion comes to an end, whatever refers to what.                     *)
(***************************************************************************)
Termination == <>(outcome # "running")

=============================================================================
