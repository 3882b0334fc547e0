------------------------------ MODULE Process ------------------------------
(***************************************************************************)
(* process(): the depth-first traversal that loads the requested packages  *)
(* and everything they require, and puts them in link order.               *)
(*                                                                         *)
(* The C code keeps an explicit array of 256 frames and reuses its slots   *)
(* without clearing them.  So does the model: a slot above top holds what  *)
(* the last frame stored there left behind.  One action is one iteration   *)
(* of the while loop, including the prepend() that starts it.              *)
(***************************************************************************)
EXTENDS Requirements

Flag == {"DIRECT", "PUBLIC"}

Frame ==
  [specs  : Seq(PkgSpec),
   newpkg : Pkgs \cup {NoPkg},
   depth  : Nat,
   flags  : SUBSET Flag]

VARIABLES
  input,    \* the invocation; never changes
  stack,    \* proc->stack, an array indexed from 0
  top,      \* index of the current frame; -1 when the traversal is over
  loaded,   \* packages in the pkgs set whose contents are set
  flags,    \* p->flags
  list,     \* the total load order, head first
  status    \* "run", "done", or why the program exited with an error

vars == <<input, stack, top, loaded, flags, list, status>>

Failure == {"unloadable", "badversion", "toodeep"}

Slot == 0 .. Cap - 1

TypeOK ==
  /\ input \in Input
  /\ stack \in [Slot -> Frame]
  /\ top \in -1 .. Cap - 1
  /\ loaded \subseteq Pkgs
  /\ flags \in [Pkgs -> SUBSET Flag]
  /\ list \in Seq(Pkgs)
  /\ status \in {"run", "done"} \cup Failure

-----------------------------------------------------------------------------
(***************************************************************************)
(* The current frame, and what an iteration of the loop does to it.        *)
(***************************************************************************)

ZeroFrame == [specs |-> <<>>, newpkg |-> NoPkg, depth |-> 0, flags |-> {}]

\* newprocessor() allocates a zeroed array; process() fills the first slot.
Init ==
  /\ input \in Inputs
  /\ stack = [i \in Slot |->
                IF i = 0 THEN [ZeroFrame EXCEPT !.specs = input.roots,
                                                !.flags = Flag]
                         ELSE ZeroFrame]
  /\ top = 0
  /\ loaded = {}
  /\ flags = [p \in Pkgs |-> {}]
  /\ list = <<>>
  /\ status = "run"

cur == stack[top]

Running == status = "run" /\ top >= 0

\* The iteration takes a spec off the current frame, and it names p.
Takes(p) == Running /\ cur.specs # <<>> /\ Head(cur.specs).pkg = p

\* Fault: the list is built in the order of completion.
PrependedAtTail == IF cur.newpkg = NoPkg THEN list ELSE Append(list, cur.newpkg)

\* The list once the package this frame loaded last has been prepended.
Prepended == IF cur.newpkg = NoPkg THEN list ELSE <<cur.newpkg>> \o list

\* Fault: the spec is not taken off the frame.
ConsumedNothing(newpkg) == [cur EXCEPT !.newpkg = newpkg]

\* The current frame after the iteration, waiting on newpkg (if not null).
Consumed(newpkg) == [cur EXCEPT !.specs = Tail(@), !.newpkg = newpkg]

\* Fault: DIRECT is inherited by what a direct package requires.
PushedAsDirect(slot, specs, newflags) ==
  [stack[slot] EXCEPT !.specs = specs, !.depth = cur.depth + 1,
                      !.flags = IF newflags = {} THEN {} ELSE cur.flags]

\* A push assigns three fields of the slot: newpkg keeps its old value.
Pushed(slot, specs, newflags) ==
  [stack[slot] EXCEPT !.specs = specs, !.depth = cur.depth + 1, !.flags = newflags]

\* Faults: the limit is passed by one; private branches are not followed.
DeeperByOne    == input.recursive /\ cur.depth < input.maxdepth
DeeperIfPublic == input.recursive /\ cur.depth + 1 < input.maxdepth /\ cur.flags # {}

\* Should the traversal continue into the package just visited?
Deeper == input.recursive /\ cur.depth + 1 < input.maxdepth

\* Fault: only a package of the command line is marked public again.
RevealedIfDirect(p) == "DIRECT" \in cur.flags /\ "PUBLIC" \notin flags[p]

\* p was loaded on a private branch, and this branch is public.
Revealed(p) == "PUBLIC" \in cur.flags /\ "PUBLIC" \notin flags[p]

\* Faults: the bound check is one too generous, or one too strict.
RoomBeyond(n) == top + n <= Cap
RoomWithin(n) == top + n < Cap - 1

\* Frames that still fit on the stack: cap-1 and cap-2 in the guards.
Room(n) == top + n <= Cap - 1

VersionOK == Head(cur.specs).sat \/ input.ignoreVersions

-----------------------------------------------------------------------------
(***************************************************************************)
(* The branches of the loop body.                                          *)
(***************************************************************************)

\* Fault: the frame's newpkg is left in its slot.
ReturnStale ==
  /\ Running
  /\ cur.specs = <<>>
  /\ list' = Prepended
  /\ top' = top - 1
  /\ UNCHANGED <<input, stack, loaded, flags, status>>

\* No spec is left in the frame: pop it.
Return ==
  /\ Running
  /\ cur.specs = <<>>
  /\ list' = Prepended
  /\ stack' = [stack EXCEPT ![top].newpkg = NoPkg]
  /\ top' = top - 1
  /\ UNCHANGED <<input, loaded, flags, status>>

\* p is loaded already, and its own requires need no second visit.
Revisit(p) ==
  /\ Takes(p)
  /\ p \in loaded
  /\ ~(Revealed(p) /\ Deeper)
  /\ list' = Prepended
  /\ stack' = [stack EXCEPT ![top] = Consumed(NoPkg)]
  /\ flags' = [flags EXCEPT ![p] = @ \cup cur.flags]
  /\ UNCHANGED <<input, top, loaded, status>>

\* p turns public: traverse its public requires again to mark them too.
Reveal(p) ==
  /\ Takes(p)
  /\ p \in loaded
  /\ Revealed(p)
  /\ Deeper
  /\ Room(1)
  /\ list' = Prepended
  /\ stack' = [stack EXCEPT
                 ![top]     = Consumed(NoPkg),
                 ![top + 1] = Pushed(top + 1, input.requires[p], cur.flags \ {"DIRECT"})]
  /\ top' = top + 1
  /\ flags' = [flags EXCEPT ![p] = @ \cup cur.flags]
  /\ UNCHANGED <<input, loaded, status>>

\* findpackage() and expandmerge() succeed and the version is acceptable.
Loads(p) ==
  /\ Takes(p)
  /\ p \notin loaded
  /\ p \notin input.broken
  /\ VersionOK
  /\ list' = Prepended
  /\ loaded' = loaded \cup {p}
  /\ flags' = [flags EXCEPT ![p] = @ \cup cur.flags]
  /\ UNCHANGED <<input, status>>

\* p is loaded, and its requires are left for frames above this one, the
\* private ones on top.
Load(p) ==
  /\ Loads(p)
  /\ Deeper
  /\ Room(2)
  /\ stack' = [stack EXCEPT
                 ![top]     = Consumed(p),
                 ![top + 1] = Pushed(top + 1, input.requires[p], cur.flags \ {"DIRECT"}),
                 ![top + 2] = Pushed(top + 2, input.private[p], {})]
  /\ top' = top + 2

\* p is loaded, and the traversal goes no deeper.
LoadLeaf(p) ==
  /\ Loads(p)
  /\ ~Deeper
  /\ stack' = [stack EXCEPT ![top] = Consumed(p)]
  /\ UNCHANGED top

(***************************************************************************)
(* os_fail() does not return, so what memory holds then no longer matters. *)
(***************************************************************************)
Exit(why) == status' = why /\ UNCHANGED <<input, stack, top, loaded, flags, list>>

\* findpackage(), parsepackage(), expand() or parsespecs() fails on p.
FailLoad(p) ==
  /\ Takes(p)
  /\ p \notin loaded
  /\ p \in input.broken
  /\ Exit("unloadable")

FailVersion(p) ==
  /\ Takes(p)
  /\ p \notin loaded
  /\ p \notin input.broken
  /\ ~VersionOK
  /\ Exit("badversion")

\* failmaxrecurse(): the stack has no room for one frame, or for two.
FailDepth(p) ==
  /\ Takes(p)
  /\ Deeper
  /\ \/ p \in loaded /\ Revealed(p) /\ ~Room(1)
     \/ p \notin loaded /\ p \notin input.broken /\ VersionOK /\ ~Room(2)
  /\ Exit("toodeep")

\* Fault: the loop ends while the bottom frame is still to be processed.
FinishEarly ==
  /\ status = "run"
  /\ top <= 0
  /\ status' = "done"
  /\ UNCHANGED <<input, stack, top, loaded, flags, list>>

\* The loop ends; process() returns the set and its list.
Finish ==
  /\ status = "run"
  /\ top = -1
  /\ status' = "done"
  /\ UNCHANGED <<input, stack, top, loaded, flags, list>>

\* The program has exited, or has gone on to print what it was asked for.
Stopped == status # "run" /\ UNCHANGED vars

Visit(p) ==
  \/ Revisit(p) \/ Reveal(p) \/ Load(p) \/ LoadLeaf(p)
  \/ FailLoad(p) \/ FailVersion(p) \/ FailDepth(p)

Next ==
  \/ Return
  \/ \E p \in Pkgs : Visit(p)
  \/ Finish
  \/ Stopped

\* The program is a single thread that runs until it exits.
Spec == Init /\ [][Next]_vars /\ WF_vars(Next)

-----------------------------------------------------------------------------
(***************************************************************************)
(* Properties.                                                             *)
(***************************************************************************)

Listed   == {list[i] : i \in DOMAIN list}
Pending  == {stack[i].newpkg : i \in 0 .. top} \ {NoPkg}
Public   == {p \in Pkgs : "PUBLIC" \in flags[p]}
Direct   == {p \in Pkgs : "DIRECT" \in flags[p]}

\* The slots above top hold no package.
CleanSlots == \A i \in Slot : i > top => stack[i].newpkg = NoPkg

\* A package waits in one frame only, and nothing is listed twice.
NoDuplicates ==
  /\ \A i, j \in DOMAIN list : list[i] = list[j] => i = j
  /\ \A i, j \in 0 .. top :
       stack[i].newpkg = stack[j].newpkg => i = j \/ stack[i].newpkg = NoPkg
  /\ Listed \cap Pending = {}

(***************************************************************************)
(* Every loaded package is in the list or waits in exactly one frame to be *)
(* put there, so that at the end the list holds each of them once: the     *)
(* assertions in prepend() and at the end of process().  A stale newpkg    *)
(* in a reused slot would break it.                                        *)
(***************************************************************************)
EachListedOnce ==
  /\ CleanSlots
  /\ NoDuplicates
  /\ loaded = Listed \cup Pending

(***************************************************************************)
(* The set that process() returns is what the command line reaches: all of *)
(* it, and nothing else.                                                   *)
(***************************************************************************)
LoadedExact ==
  status = "done" /\ Unlimited(input) =>
    loaded = Reach(Roots(input), AllEdges(input))

(***************************************************************************)
(* PUBLIC decides whose libs are printed without --static.  It is set for  *)
(* exactly the packages that public requires lead to, also for those first *)
(* met, with everything below them, on a private branch.                   *)
(***************************************************************************)
PublicExact ==
  status = "done" /\ Unlimited(input) =>
    Public = Reach(Roots(input), PublicEdges(input))

\* p comes before q in the list.
Before(p, q) == \E i, j \in DOMAIN list : i < j /\ list[i] = p /\ list[j] = q

Reaches(p, q) == q \in Reach({p}, AllEdges(input))

(***************************************************************************)
(* A package is listed before what it requires, as a linker that resolves  *)
(* symbols from left to right needs, unless the two require one another.   *)
(***************************************************************************)
DependentsFirst ==
  status = "done" /\ Unlimited(input) =>
    \A p \in loaded : \A q \in AllDeps(input, p) :
      Before(p, q) \/ Reaches(q, p)

(***************************************************************************)
(* Packages that do not require one another keep the order that the user   *)
(* gave them on the command line.                                          *)
(***************************************************************************)
CommandLineOrder ==
  status = "done" /\ Unlimited(input) =>
    \A i, j \in DOMAIN input.roots :
      LET p == input.roots[i].pkg      \* roots is back to front,
          q == input.roots[j].pkg      \* so the user gave q before p
      IN  i < j /\ (\A k \in 1 .. j - 1 : ~Reaches(input.roots[k].pkg, q))
            => Before(q, p)

(***************************************************************************)
(* The stack is only exceeded by an invocation of very many packages: with *)
(* 256 slots it never is if the command line leads to fewer than 128, as   *)
(* each of them is pushed above the stack twice at most: when it is loaded,*)
(* and when it turns out to be public.                                     *)
(***************************************************************************)
StackSuffices ==
  LET needed == Reach(Roots(input), AllEdges(input))
  IN  IsFiniteSet(needed) /\ 2 * Cardinality(needed) < Cap => status # "toodeep"

\* Everything that is at most n requires away from the command line.
Within(n) ==
  LET ball[k \in 0 .. n] ==
        IF k = 0 THEN Roots(input)
        ELSE ball[k-1] \cup UNION {AllDeps(input, p) : p \in ball[k-1]}
  IN  ball[n]

(***************************************************************************)
(* --maximum-traverse-depth and the options that turn the traversal off    *)
(* never let a package in that lies further away than they allow.          *)
(***************************************************************************)
DepthRespected ==
  IF ~input.recursive \/ input.maxdepth = 0
  THEN loaded \subseteq Roots(input)
  ELSE input.maxdepth <= Cap => loaded \subseteq Within(input.maxdepth - 1)

(***************************************************************************)
(* DIRECT decides whose version or variable is printed: it is set for the  *)
(* packages of the command line and for no other, even if one of them was  *)
(* first loaded because another requires it.                               *)
(***************************************************************************)
DirectExact ==
  /\ Direct \subseteq Roots(input)
  /\ status = "done" => Roots(input) \subseteq Direct \cap Public \cap loaded

(***************************************************************************)
(* A version constraint that is not satisfied makes the program fail, as   *)
(* main_test.c has it for "--modversion 'test < 1.2.3'".                   *)
(***************************************************************************)
VersionsHonoured ==
  status = "done" /\ ~input.ignoreVersions =>
    \A i \in DOMAIN input.roots : input.roots[i].sat

(***************************************************************************)
(* The traversal ends, also when packages require one another in circles.  *)
(***************************************************************************)
Termination == <>(status # "run")

(***************************************************************************)
(* The traversal implements the specification of its result.               *)
(***************************************************************************)
Result == INSTANCE Resolution WITH public <- Public, outcome <- status

ImplementsResolution == Result!Spec

=============================================================================
