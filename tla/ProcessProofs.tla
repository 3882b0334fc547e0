--------------------------- MODULE ProcessProofs ----------------------------
(***************************************************************************)
(* Proofs about process(), for any packages, any size of the stack and any *)
(* invocation: each package is listed once, the traversal implements       *)
(* Resolution, Resolution ends with what can be reached, and therefore the *)
(* traversal's result is exact; the list is in an order                    *)
(* that a linker can use and that the command line chose; the depth limit  *)
(* is kept, and the stack is large enough.                                 *)
(***************************************************************************)
EXTENDS Process, TLAPS, FiniteSetTheorems, WellFoundedInduction

\* A package has flags only once it is loaded.
FlagsLoaded == \A p \in Pkgs : flags[p] # {} => p \in loaded

\* A frame is at most as deep as its index.
Shallow == \A i \in Slot : i <= top => stack[i].depth <= i

(***************************************************************************)
(* What is still to be visited was asked for by somebody; by someone       *)
(* public, and publicly, if the frame is public.                           *)
(***************************************************************************)
Justified ==
  \A i \in Slot : i <= top =>
    \A q \in Named(stack[i].specs) :
      /\ Result!Wanted(q)
      /\ "PUBLIC" \in stack[i].flags => Result!WantedPublic(q)

\* DIRECT frames hold specs of the command line only.
DirectFrames ==
  /\ \A i \in Slot : i <= top /\ "DIRECT" \in stack[i].flags =>
       Named(stack[i].specs) \subseteq Roots(input)
  /\ Direct \subseteq Roots(input)

\* Specs naming q, or naming q for the benefit of all, are yet to be visited.
Owed(q)       == \E i \in Slot : i <= top /\ q \in Named(stack[i].specs)
OwedPublic(q) == \E i \in Slot : /\ i <= top
                                 /\ "PUBLIC" \in stack[i].flags
                                 /\ q \in Named(stack[i].specs)
OwedDirect(q) == \E i \in Slot : /\ i <= top
                                 /\ "DIRECT" \in stack[i].flags
                                 /\ "PUBLIC" \in stack[i].flags
                                 /\ q \in Named(stack[i].specs)

(***************************************************************************)
(* Nothing is forgotten: what the command line asks for, and what a loaded *)
(* package requires, is either taken care of or waits in a frame.          *)
(***************************************************************************)
RootsKept == \A q \in Roots(input) : (q \in Direct /\ q \in Public) \/ OwedDirect(q)

DepsKept ==
  Unlimited(input) =>
    /\ \A p \in loaded : \A q \in AllDeps(input, p) : q \in loaded \/ Owed(q)
    /\ \A p \in Public : \A q \in PublicDeps(input, p) : q \in Public \/ OwedPublic(q)

DoneAtBottom == status = "done" => top = -1

ProcessInv ==
  /\ TypeOK
  /\ EachListedOnce
  /\ FlagsLoaded
  /\ Shallow
  /\ Justified
  /\ DirectFrames
  /\ RootsKept
  /\ DepsKept
  /\ DoneAtBottom

-----------------------------------------------------------------------------
(***************************************************************************)
(* Types.                                                                  *)
(***************************************************************************)

\* What a frame is made of.
LEMMA FrameFields ==
  ASSUME NEW f \in Frame
  PROVE  /\ f.specs \in Seq(PkgSpec)
         /\ f.newpkg \in Pkgs \cup {NoPkg}
         /\ f.depth \in Nat
         /\ f.flags \in SUBSET Flag
BY DEF Frame

\* Updating a frame gives a frame.
LEMMA FrameUpdate ==
  ASSUME NEW f \in Frame, NEW specs \in Seq(PkgSpec), NEW n \in Pkgs \cup {NoPkg},
         NEW d \in Nat, NEW fl \in SUBSET Flag
  PROVE  /\ [f EXCEPT !.newpkg = n] \in Frame
         /\ [f EXCEPT !.specs = specs, !.newpkg = n] \in Frame
         /\ [f EXCEPT !.specs = specs, !.depth = d, !.flags = fl] \in Frame
BY DEF Frame

\* The lists of specs of an invocation.
LEMMA InputSpecs ==
  ASSUME NEW in \in Input
  PROVE  /\ in.roots \in Seq(PkgSpec)
         /\ in.maxdepth \in Nat
         /\ \A p \in Pkgs : in.requires[p] \in Seq(PkgSpec) /\ in.private[p] \in Seq(PkgSpec)
BY DEF Input

\* A list of specs names what its head and its tail name.
LEMMA NamedHeadTail ==
  ASSUME NEW specs \in Seq(PkgSpec), specs # <<>>
  PROVE  /\ Head(specs) \in PkgSpec
         /\ Tail(specs) \in Seq(PkgSpec)
         /\ Named(specs) = {Head(specs).pkg} \cup Named(Tail(specs))
<1>1. Head(specs) \in PkgSpec /\ Tail(specs) \in Seq(PkgSpec) /\ Head(specs) = specs[1]
  OBVIOUS
<1>2. \A i \in DOMAIN specs : i = 1 \/ (i - 1 \in DOMAIN Tail(specs) /\ Tail(specs)[i-1] = specs[i])
  OBVIOUS
<1>3. \A i \in DOMAIN Tail(specs) : i + 1 \in DOMAIN specs /\ Tail(specs)[i] = specs[i+1]
  OBVIOUS
<1>4. 1 \in DOMAIN specs
  OBVIOUS
<1>5. Named(specs) \subseteq {Head(specs).pkg} \cup Named(Tail(specs))
  BY <1>1, <1>2, SMTT(30) DEF Named
<1>6. {Head(specs).pkg} \cup Named(Tail(specs)) \subseteq Named(specs)
  BY <1>1, <1>3, <1>4 DEF Named
<1> QED
  BY <1>1, <1>5, <1>6

\* An empty list of specs names nothing.
LEMMA NamedEmpty == Named(<<>>) = {}
BY DEF Named

\* While the traversal runs, the current frame is one of the array's.
LEMMA CurType ==
  ASSUME TypeOK, Running
  PROVE  /\ top \in Slot
         /\ cur \in Frame
         /\ cur.specs \in Seq(PkgSpec)
         /\ cur.newpkg \in Pkgs \cup {NoPkg}
         /\ cur.depth \in Nat
         /\ cur.flags \in SUBSET Flag
<1>1. top \in Slot
  BY CapAssumption DEF TypeOK, Running, Slot
<1>2. cur \in Frame
  BY <1>1 DEF TypeOK, cur
<1> QED
  BY <1>1, <1>2, FrameFields

\* What taking a spec off the current frame leaves.
LEMMA TakesFacts ==
  ASSUME TypeOK, NEW p \in Pkgs, Takes(p)
  PROVE  /\ Running
         /\ Tail(cur.specs) \in Seq(PkgSpec)
         /\ Named(cur.specs) = {p} \cup Named(Tail(cur.specs))
BY CurType, NamedHeadTail DEF Takes

\* The list stays a list of packages.
LEMMA PrependedType ==
  ASSUME TypeOK, Running
  PROVE  Prepended \in Seq(Pkgs)
<1>1. CASE cur.newpkg = NoPkg
  BY <1>1 DEF Prepended, TypeOK
<1>2. CASE cur.newpkg # NoPkg
  <2>1. <<cur.newpkg>> \in Seq(Pkgs) /\ list \in Seq(Pkgs)
    BY <1>2, CurType DEF TypeOK
  <2> QED
    BY <1>2, <2>1 DEF Prepended
<1> QED
  BY <1>1, <1>2

\* Frames taken from and pushed on the stack are frames.
LEMMA NewFrameTypes ==
  ASSUME TypeOK, NEW p \in Pkgs, Takes(p)
  PROVE  /\ \A n \in Pkgs \cup {NoPkg} : Consumed(n) \in Frame
         /\ \A slot \in Slot, specs \in Seq(PkgSpec), fl \in SUBSET Flag :
              Pushed(slot, specs, fl) \in Frame
<1>1. cur \in Frame /\ cur.depth + 1 \in Nat /\ Tail(cur.specs) \in Seq(PkgSpec)
  BY CurType, TakesFacts
<1>2. \A slot \in Slot : stack[slot] \in Frame
  BY DEF TypeOK
<1>3. \A n \in Pkgs \cup {NoPkg} : Consumed(n) \in Frame
  BY <1>1, FrameUpdate DEF Consumed
<1>4. ASSUME NEW slot \in Slot, NEW specs \in Seq(PkgSpec), NEW fl \in SUBSET Flag
      PROVE  Pushed(slot, specs, fl) \in Frame
  BY <1>1, <1>2, FrameUpdate DEF Pushed
<1> QED
  BY <1>3, <1>4

LEMMA InitTypeOK == Init => TypeOK
<1> SUFFICES ASSUME Init PROVE TypeOK
  OBVIOUS
<1>1. input \in Input
  BY InputsAssumption DEF Init
<1>2. ZeroFrame \in Frame
  BY DEF ZeroFrame, Frame
<1>3. [ZeroFrame EXCEPT !.specs = input.roots, !.flags = Flag] \in Frame
  BY <1>1, InputSpecs DEF ZeroFrame, Frame
<1>4. stack \in [Slot -> Frame]
  BY <1>2, <1>3 DEF Init
<1> QED
  BY <1>1, <1>4, CapAssumption DEF Init, TypeOK, Slot

\* Every action keeps the types.
LEMMA NextTypeOK == TypeOK /\ [Next]_vars => TypeOK'
<1> SUFFICES ASSUME TypeOK, [Next]_vars PROVE TypeOK'
  OBVIOUS
<1>1. CASE Return
  <2>1. /\ top \in Slot /\ cur \in Frame /\ Prepended \in Seq(Pkgs)
        /\ [stack[top] EXCEPT !.newpkg = NoPkg] \in Frame
    BY <1>1, CurType, PrependedType DEF Return, cur, Frame
  <2>2. stack' \in [Slot -> Frame]
    BY <1>1, <2>1 DEF Return, TypeOK
  <2> QED
    BY <1>1, <2>1, <2>2, CapAssumption DEF Return, TypeOK, Slot
<1>2. ASSUME NEW p \in Pkgs, Takes(p), list' = Prepended
      PROVE  /\ top \in Slot
             /\ list' \in Seq(Pkgs)
             /\ [flags EXCEPT ![p] = @ \cup cur.flags] \in [Pkgs -> SUBSET Flag]
             /\ input.requires[p] \in Seq(PkgSpec) /\ input.private[p] \in Seq(PkgSpec)
             /\ cur.flags \ {"DIRECT"} \in SUBSET Flag
  BY <1>2, TakesFacts, CurType, PrependedType, InputSpecs DEF TypeOK
<1>3. ASSUME NEW p \in Pkgs, Revisit(p) PROVE TypeOK'
  <2>1. Takes(p) /\ list' = Prepended
    BY <1>3 DEF Revisit
  <2> QED
    BY <1>2, <1>3, <2>1, NewFrameTypes DEF Revisit, TypeOK
<1>4. ASSUME NEW p \in Pkgs, Reveal(p) PROVE TypeOK'
  <2>1. Takes(p) /\ list' = Prepended /\ top + 1 \in Slot
    BY <1>4, CurType, TakesFacts DEF Reveal, Room, Slot
  <2>2. Pushed(top + 1, input.requires[p], cur.flags \ {"DIRECT"}) \in Frame
    BY <1>2, <2>1, NewFrameTypes
  <2> QED
    BY <1>2, <1>4, <2>1, <2>2, NewFrameTypes DEF Reveal, TypeOK, Slot
<1>5. ASSUME NEW p \in Pkgs, Load(p) PROVE TypeOK'
  <2>1. Takes(p) /\ list' = Prepended /\ Room(2)
    BY <1>5 DEF Load, Loads
  <2>2. top \in Slot
    BY <1>2, <2>1
  <2>3. top + 1 \in Slot /\ top + 2 \in Slot
    BY <2>1, <2>2, CapAssumption DEF Room, Slot
  <2>4. /\ Pushed(top + 1, input.requires[p], cur.flags \ {"DIRECT"}) \in Frame
        /\ Pushed(top + 2, input.private[p], {}) \in Frame
    BY <1>2, <2>1, <2>3, NewFrameTypes
  <2> QED
    BY <1>2, <1>5, <2>1, <2>3, <2>4, NewFrameTypes, SMTT(30) DEF Load, Loads, TypeOK, Slot
<1>6. ASSUME NEW p \in Pkgs, LoadLeaf(p) PROVE TypeOK'
  <2>1. Takes(p) /\ list' = Prepended
    BY <1>6 DEF LoadLeaf, Loads
  <2> QED
    BY <1>2, <1>6, <2>1, NewFrameTypes DEF LoadLeaf, Loads, TypeOK
<1>7. ASSUME NEW why \in Failure, Exit(why) PROVE TypeOK'
  BY <1>7 DEF Exit, TypeOK
<1>8. CASE Finish
  BY <1>8 DEF Finish, TypeOK
<1>9. CASE UNCHANGED vars
  BY <1>9 DEF vars, TypeOK
<1>10. ASSUME NEW p \in Pkgs, Visit(p) PROVE TypeOK'
  BY <1>3, <1>4, <1>5, <1>6, <1>7, <1>10
     DEF Visit, FailLoad, FailVersion, FailDepth, Failure
<1> QED
  BY <1>1, <1>8, <1>9, <1>10 DEF Next, Stopped

\* The variables keep their types, for every stack size and every input.
THEOREM TypeCorrect == Spec => []TypeOK
BY InitTypeOK, NextTypeOK, PTL DEF Spec

-----------------------------------------------------------------------------
(***************************************************************************)
(* Each package is listed once.                                            *)
(***************************************************************************)

\* Putting a new element in front of a list without duplicates.
LEMMA ConsDistinct ==
  ASSUME NEW s \in Seq(Pkgs), NEW m \in Pkgs, \A i \in DOMAIN s : s[i] # m,
         \A i, j \in DOMAIN s : s[i] = s[j] => i = j
  PROVE  LET t == <<m>> \o s IN
         /\ \A i, j \in DOMAIN t : t[i] = t[j] => i = j
         /\ {t[i] : i \in DOMAIN t} = {m} \cup {s[i] : i \in DOMAIN s}
<1> DEFINE t == <<m>> \o s
<1>1. t \in Seq(Pkgs) /\ Len(t) = Len(s) + 1 /\ Len(s) \in Nat
  OBVIOUS
<1>2. DOMAIN t = 1 .. Len(s) + 1 /\ DOMAIN s = 1 .. Len(s)
  BY <1>1
<1>3. t[1] = m /\ \A i \in 2 .. Len(s) + 1 : t[i] = s[i-1]
  OBVIOUS
<1> HIDE DEF t
<1>4. \A i, j \in DOMAIN t : t[i] = t[j] => i = j
  <2> SUFFICES ASSUME NEW i \in DOMAIN t, NEW j \in DOMAIN t, t[i] = t[j]
               PROVE  i = j
    OBVIOUS
  <2>1. ASSUME NEW k \in DOMAIN t, k # 1
        PROVE  k - 1 \in DOMAIN s /\ t[k] = s[k-1] /\ t[k] # m
    BY <1>1, <1>2, <1>3, <2>1
  <2>2. i = 1 <=> j = 1
    BY <1>3, <2>1
  <2>3. CASE i # 1 /\ j # 1
    <3>1. i - 1 = j - 1
      BY <2>1, <2>3
    <3> QED
      BY <1>1, <1>2, <3>1
  <2> QED
    BY <2>2, <2>3
<1>5. {t[i] : i \in DOMAIN t} \subseteq {m} \cup {s[i] : i \in DOMAIN s}
  BY <1>1, <1>2, <1>3
<1>6. ASSUME NEW i \in DOMAIN s PROVE s[i] \in {t[k] : k \in DOMAIN t}
  <2>1. i + 1 \in DOMAIN t /\ t[i+1] = s[i]
    BY <1>1, <1>2, <1>3
  <2> QED
    BY <2>1
<1>7. m \in {t[i] : i \in DOMAIN t}
  BY <1>1, <1>2, <1>3
<1> QED
  BY <1>4, <1>5, <1>6, <1>7 DEF t

(***************************************************************************)
(* One iteration lists what the current frame waited for and may make it   *)
(* wait for a newly loaded package n instead.                              *)
(***************************************************************************)
LEMMA ListingStep ==
  ASSUME TypeOK, TypeOK', EachListedOnce, Running, list' = Prepended,
         NEW n \in (Pkgs \ loaded) \cup {NoPkg},
         loaded' = loaded \cup ({n} \ {NoPkg}),
         stack'[top].newpkg = n,
         \A i \in Slot : i # top => stack'[i].newpkg = stack[i].newpkg,
         top' >= top \/ (n = NoPkg /\ top' = top - 1)
  PROVE  EachListedOnce'
<1> DEFINE m == cur.newpkg
<1>1. /\ top \in Slot /\ top' \in -1 .. Cap - 1
      /\ m = stack[top].newpkg
      /\ m \in Pkgs \cup {NoPkg}
      /\ list \in Seq(Pkgs)
      /\ \A i \in 0 .. top  : i \in Slot
      /\ \A i \in 0 .. top' : i \in Slot
      /\ \A i \in Slot : stack[i].newpkg \in Pkgs \cup {NoPkg}
  <2>1. \A i \in Slot : stack[i] \in Frame
    BY DEF TypeOK
  <2>2. top \in Slot /\ m \in Pkgs \cup {NoPkg} /\ m = stack[top].newpkg
    BY CurType DEF cur
  <2> QED
    BY <2>1, <2>2, FrameFields, CapAssumption DEF TypeOK, Slot
<1>2. /\ \A i \in Slot : i > top => stack[i].newpkg = NoPkg
      /\ \A i, j \in DOMAIN list : list[i] = list[j] => i = j
      /\ \A i, j \in 0 .. top :
           stack[i].newpkg = stack[j].newpkg => i = j \/ stack[i].newpkg = NoPkg
      /\ Listed \cap Pending = {}
      /\ loaded = Listed \cup Pending
  BY DEF EachListedOnce, CleanSlots, NoDuplicates
<1> HIDE DEF m
<1>3. CleanSlots'
  BY <1>1, <1>2, CapAssumption DEF CleanSlots, Slot
<1>4. Pending' = (Pending \ {m}) \cup ({n} \ {NoPkg})
  <2>1. ASSUME NEW i \in 0 .. top', stack'[i].newpkg # NoPkg
        PROVE  stack'[i].newpkg \in (Pending \ {m}) \cup ({n} \ {NoPkg})
    <3>1. CASE i = top
      BY <2>1, <3>1
    <3>2. CASE i # top
      <4>1. i \in Slot /\ stack'[i].newpkg = stack[i].newpkg
        BY <1>1, <3>2
      <4>2. i \in 0 .. top /\ i # top /\ top \in 0 .. top
        BY <1>1, <1>2, <2>1, <3>2, <4>1, CapAssumption DEF Slot
      <4>3. stack[i].newpkg # m
        BY <1>1, <1>2, <2>1, <4>1, <4>2
      <4> QED
        BY <2>1, <4>1, <4>2, <4>3 DEF Pending
    <3> QED
      BY <3>1, <3>2
  <2>2. ASSUME NEW i \in 0 .. top, stack[i].newpkg # m, stack[i].newpkg # NoPkg
        PROVE  stack[i].newpkg \in Pending'
    <3>1. i # top /\ i \in 0 .. top' /\ i \in Slot
      BY <1>1, <2>2, CapAssumption DEF Slot
    <3>2. stack'[i].newpkg = stack[i].newpkg
      BY <3>1
    <3> QED
      BY <2>2, <3>1, <3>2 DEF Pending
  <2>3. n # NoPkg => n \in Pending'
    <3>1. n # NoPkg => top \in 0 .. top'
      BY <1>1, CapAssumption DEF Slot
    <3> QED
      BY <3>1 DEF Pending
  <2> QED
    BY <2>1, <2>2, <2>3 DEF Pending
<1>5. NoPkg \notin Pending /\ (m # NoPkg => m \in Pending /\ m \notin Listed)
  BY <1>1, <1>2, CapAssumption DEF Pending, Slot
<1>6. /\ Listed' = Listed \cup ({m} \ {NoPkg})
      /\ \A i, j \in DOMAIN list' : list'[i] = list'[j] => i = j
  <2>1. CASE m = NoPkg
    <3>1. list' = list
      BY <2>1 DEF Prepended, m
    <3> QED
      BY <1>2, <2>1, <3>1 DEF Listed
  <2>2. CASE m # NoPkg
    <3>1. list' = <<m>> \o list
      BY <2>2 DEF Prepended, m
    <3>2. m \in Pkgs /\ \A i \in DOMAIN list : list[i] # m
      BY <1>1, <1>5, <2>2 DEF Listed
    <3>3. LET t == <<m>> \o list IN
          /\ \A i, j \in DOMAIN t : t[i] = t[j] => i = j
          /\ {t[i] : i \in DOMAIN t} = {m} \cup {list[i] : i \in DOMAIN list}
      BY <1>1, <1>2, <3>2, ConsDistinct
    <3>4. Listed' = {m} \cup Listed
      BY <3>1, <3>3 DEF Listed
    <3>5. \A i, j \in DOMAIN list' : list'[i] = list'[j] => i = j
      BY <3>1, <3>3
    <3> QED
      BY <2>2, <3>4, <3>5
  <2> QED
    BY <2>1, <2>2
<1>7. \A i, j \in 0 .. top' :
        stack'[i].newpkg = stack'[j].newpkg => i = j \/ stack'[i].newpkg = NoPkg
  <2>1. ASSUME NEW i \in 0 .. top', NEW j \in 0 .. top', i # j, i # top,
               stack'[i].newpkg # NoPkg
        PROVE  stack'[i].newpkg # stack'[j].newpkg
    <3>1. i \in Slot /\ j \in Slot /\ stack'[i].newpkg = stack[i].newpkg
      BY <1>1, <2>1
    <3>2. i \in 0 .. top
      BY <1>1, <1>2, <2>1, <3>1, CapAssumption DEF Slot
    <3>3. stack[i].newpkg \in loaded
      BY <1>2, <2>1, <3>1, <3>2 DEF Pending
    <3>4. CASE j = top
      BY <2>1, <3>1, <3>3, <3>4
    <3>5. CASE j # top
      <4>1. stack'[j].newpkg = stack[j].newpkg
        BY <3>1, <3>5
      <4>2. j \in 0 .. top \/ stack[j].newpkg = NoPkg
        BY <1>1, <1>2, <3>1, <3>5, CapAssumption DEF Slot
      <4> QED
        BY <1>2, <2>1, <3>1, <3>2, <4>1, <4>2
    <3> QED
      BY <3>4, <3>5
  <2> QED
    BY <2>1
<1>8. Listed' \cap Pending' = {}
  BY <1>2, <1>4, <1>5, <1>6
<1>9. loaded' = Listed' \cup Pending'
  BY <1>2, <1>4, <1>5, <1>6
<1> QED
  BY <1>3, <1>6, <1>7, <1>8, <1>9 DEF EachListedOnce, NoDuplicates

-----------------------------------------------------------------------------
(***************************************************************************)
(* What the four actions that visit a package have in common.              *)
(***************************************************************************)

\* Frame i is, after the step, there to visit what p requires.
VisitsRequires(i, p) ==
  stack'[i].specs = input.requires[p] /\ stack'[i].flags = cur.flags \ {"DIRECT"}

VisitsPrivate(i, p) ==
  stack'[i].specs = input.private[p] /\ stack'[i].flags = {}

\* The other frames stay; the current one gives up the spec that names p;
\* frames above it are for what p requires.
FramesAfter(p) ==
  /\ stack'[top].specs = Tail(cur.specs)
  /\ stack'[top].flags = cur.flags
  /\ stack'[top].depth = cur.depth
  /\ \A i \in Slot : i < top => stack'[i] = stack[i]
  /\ \A i \in Slot : i > top /\ i <= top' =>
       /\ stack'[i].depth = cur.depth + 1
       /\ VisitsRequires(i, p) \/ VisitsPrivate(i, p)

\* Without a limit, a new package is followed up, and so is a new public one.
FollowedUp(p) ==
  Unlimited(input) =>
    /\ p \notin loaded =>
         /\ \E i \in Slot : i > top /\ i <= top' /\ VisitsRequires(i, p)
         /\ \E i \in Slot : i > top /\ i <= top' /\ VisitsPrivate(i, p)
    /\ Revealed(p) =>
         \E i \in Slot : i > top /\ i <= top' /\ VisitsRequires(i, p)

Visited(p) ==
  /\ UNCHANGED <<input, status>>
  /\ loaded' = loaded \cup {p}
  /\ flags' = [flags EXCEPT ![p] = @ \cup cur.flags]
  /\ top' \in Slot /\ top' >= top
  /\ FramesAfter(p)
  /\ FollowedUp(p)
  /\ EachListedOnce'

\* The fields of the frames an iteration makes.
LEMMA NewFrameFields ==
  ASSUME TypeOK, Running, NEW n, NEW slot \in Slot, NEW specs, NEW fl
  PROVE  /\ Consumed(n).specs = Tail(cur.specs)
         /\ Consumed(n).newpkg = n
         /\ Consumed(n).depth = cur.depth
         /\ Consumed(n).flags = cur.flags
         /\ Pushed(slot, specs, fl).specs = specs
         /\ Pushed(slot, specs, fl).newpkg = stack[slot].newpkg
         /\ Pushed(slot, specs, fl).depth = cur.depth + 1
         /\ Pushed(slot, specs, fl).flags = fl
<1>1. cur \in Frame /\ stack[slot] \in Frame
  BY CurType DEF TypeOK
<1> QED
  BY <1>1 DEF Consumed, Pushed, Frame

\* Without a limit the traversal always goes deeper.
LEMMA UnlimitedDeeper ==
  ASSUME TypeOK, Shallow, Running, Unlimited(input)
  PROVE  Deeper
<1>1. top \in Slot /\ cur.depth \in Nat /\ cur.depth <= top
  BY CurType DEF Shallow, cur, Slot
<1>2. input.maxdepth \in Nat
  BY InputSpecs DEF TypeOK
<1> QED
  BY <1>1, <1>2, CapAssumption DEF Unlimited, Deeper, Slot

LEMMA RevisitVisited ==
  ASSUME ProcessInv, TypeOK', NEW p \in Pkgs, Revisit(p)
  PROVE  Visited(p)
<1>1. TypeOK /\ EachListedOnce /\ Shallow /\ Takes(p) /\ Running
  BY DEF ProcessInv, Revisit, Takes
<1>2. top \in Slot /\ stack \in [Slot -> Frame]
  BY <1>1, CurType DEF TypeOK
<1>3. stack'[top] = Consumed(NoPkg) /\ \A i \in Slot : i # top => stack'[i] = stack[i]
  BY <1>2 DEF Revisit
<1>4. /\ stack'[top].specs = Tail(cur.specs)
      /\ stack'[top].newpkg = NoPkg
      /\ stack'[top].flags = cur.flags
      /\ stack'[top].depth = cur.depth
  BY <1>1, <1>2, <1>3, NewFrameFields
<1>5. FramesAfter(p)
  BY <1>2, <1>3, <1>4 DEF FramesAfter, Revisit, Slot
<1>6. FollowedUp(p)
  BY <1>1, UnlimitedDeeper DEF FollowedUp, Revisit
<1>7. loaded' = loaded \cup {p} /\ loaded' = loaded \cup ({NoPkg} \ {NoPkg})
  BY DEF Revisit
<1>8. EachListedOnce'
  <2>1. /\ NoPkg \in (Pkgs \ loaded) \cup {NoPkg}
        /\ list' = Prepended
        /\ \A i \in Slot : i # top => stack'[i].newpkg = stack[i].newpkg
        /\ top' >= top
    BY <1>2, <1>3 DEF Revisit, Slot
  <2> QED
    BY <1>1, <1>4, <1>7, <2>1, ListingStep
<1> QED
  BY <1>2, <1>5, <1>6, <1>7, <1>8 DEF Visited, Revisit, Slot

LEMMA LoadLeafVisited ==
  ASSUME ProcessInv, TypeOK', NEW p \in Pkgs, LoadLeaf(p)
  PROVE  Visited(p)
<1>1. TypeOK /\ EachListedOnce /\ Shallow /\ Takes(p) /\ Running
  BY DEF ProcessInv, LoadLeaf, Loads, Takes
<1>2. top \in Slot /\ stack \in [Slot -> Frame]
  BY <1>1, CurType DEF TypeOK
<1>3. stack'[top] = Consumed(p) /\ \A i \in Slot : i # top => stack'[i] = stack[i]
  BY <1>2 DEF LoadLeaf
<1>4. /\ stack'[top].specs = Tail(cur.specs)
      /\ stack'[top].newpkg = p
      /\ stack'[top].flags = cur.flags
      /\ stack'[top].depth = cur.depth
  BY <1>1, <1>2, <1>3, NewFrameFields
<1>5. FramesAfter(p)
  BY <1>2, <1>3, <1>4 DEF FramesAfter, LoadLeaf, Slot
<1>6. FollowedUp(p)
  BY <1>1, UnlimitedDeeper DEF FollowedUp, LoadLeaf
<1>7. loaded' = loaded \cup ({p} \ {NoPkg}) /\ p # NoPkg
  BY NoPkgAssumption DEF LoadLeaf, Loads
<1>8. EachListedOnce'
  <2>1. /\ p \in (Pkgs \ loaded) \cup {NoPkg}
        /\ list' = Prepended
        /\ \A i \in Slot : i # top => stack'[i].newpkg = stack[i].newpkg
        /\ top' >= top
    BY <1>2, <1>3 DEF LoadLeaf, Loads, Slot
  <2> QED
    BY <1>1, <1>4, <1>7, <2>1, ListingStep
<1> QED
  BY <1>2, <1>5, <1>6, <1>8 DEF Visited, LoadLeaf, Loads, Slot

LEMMA RevealVisited ==
  ASSUME ProcessInv, TypeOK', NEW p \in Pkgs, Reveal(p)
  PROVE  Visited(p)
<1>1. TypeOK /\ EachListedOnce /\ Shallow /\ Takes(p) /\ Running /\ Room(1)
  BY DEF ProcessInv, Reveal, Takes
<1>2. top \in Slot /\ top + 1 \in Slot /\ stack \in [Slot -> Frame]
  BY <1>1, CurType, CapAssumption DEF TypeOK, Room, Slot
<1>3. /\ stack'[top] = Consumed(NoPkg)
      /\ stack'[top+1] = Pushed(top + 1, input.requires[p], cur.flags \ {"DIRECT"})
      /\ \A i \in Slot : i # top /\ i # top + 1 => stack'[i] = stack[i]
  BY <1>2 DEF Reveal, Slot
<1>4. /\ stack'[top].specs = Tail(cur.specs)
      /\ stack'[top].newpkg = NoPkg
      /\ stack'[top].flags = cur.flags
      /\ stack'[top].depth = cur.depth
      /\ stack'[top+1].newpkg = stack[top+1].newpkg
      /\ stack'[top+1].depth = cur.depth + 1
      /\ stack'[top+1].specs = input.requires[p]
      /\ stack'[top+1].flags = cur.flags \ {"DIRECT"}
  BY <1>1, <1>2, <1>3, NewFrameFields
<1>5. top' = top + 1 /\ VisitsRequires(top + 1, p)
  BY <1>4 DEF Reveal, VisitsRequires
<1>6. FramesAfter(p)
  <2>1. \A i \in Slot : i > top /\ i <= top' => i = top + 1
    BY <1>2, <1>5 DEF Slot
  <2> QED
    BY <1>2, <1>3, <1>4, <1>5, <2>1 DEF FramesAfter, Slot
<1>7. FollowedUp(p)
  BY <1>2, <1>5 DEF FollowedUp, Reveal, Slot
<1>8. loaded' = loaded \cup {p} /\ loaded' = loaded \cup ({NoPkg} \ {NoPkg})
  BY DEF Reveal
<1>9. EachListedOnce'
  <2>1. /\ NoPkg \in (Pkgs \ loaded) \cup {NoPkg}
        /\ list' = Prepended
        /\ \A i \in Slot : i # top => stack'[i].newpkg = stack[i].newpkg
        /\ top' >= top
    BY <1>2, <1>3, <1>4, <1>5 DEF Reveal, Slot
  <2> QED
    BY <1>1, <1>4, <1>8, <2>1, ListingStep
<1> QED
  BY <1>2, <1>5, <1>6, <1>7, <1>8, <1>9 DEF Visited, Reveal, Slot

LEMMA LoadVisited ==
  ASSUME ProcessInv, TypeOK', NEW p \in Pkgs, Load(p)
  PROVE  Visited(p)
<1>1. TypeOK /\ EachListedOnce /\ Shallow /\ Takes(p) /\ Running /\ Room(2)
  BY DEF ProcessInv, Load, Loads, Takes
<1>2. top \in Slot /\ stack \in [Slot -> Frame]
  BY <1>1, CurType DEF TypeOK
<1>3. top + 1 \in Slot /\ top + 2 \in Slot
  BY <1>1, <1>2, CapAssumption DEF Room, Slot
<1>4. /\ stack'[top] = Consumed(p)
      /\ stack'[top+1] = Pushed(top + 1, input.requires[p], cur.flags \ {"DIRECT"})
      /\ stack'[top+2] = Pushed(top + 2, input.private[p], {})
      /\ \A i \in Slot : i # top /\ i # top + 1 /\ i # top + 2 => stack'[i] = stack[i]
  BY <1>2, <1>3 DEF Load, Slot
<1>5. /\ stack'[top].specs = Tail(cur.specs)
      /\ stack'[top].newpkg = p
      /\ stack'[top].flags = cur.flags
      /\ stack'[top].depth = cur.depth
      /\ stack'[top+1].newpkg = stack[top+1].newpkg
      /\ stack'[top+1].depth = cur.depth + 1
      /\ stack'[top+1].specs = input.requires[p]
      /\ stack'[top+1].flags = cur.flags \ {"DIRECT"}
      /\ stack'[top+2].newpkg = stack[top+2].newpkg
      /\ stack'[top+2].depth = cur.depth + 1
      /\ stack'[top+2].specs = input.private[p]
      /\ stack'[top+2].flags = {}
  BY <1>1, <1>2, <1>3, <1>4, NewFrameFields
<1>6. top' = top + 2 /\ VisitsRequires(top + 1, p) /\ VisitsPrivate(top + 2, p)
  BY <1>5 DEF Load, VisitsRequires, VisitsPrivate
<1>7. FramesAfter(p)
  <2>1. \A i \in Slot : i > top /\ i <= top' => i = top + 1 \/ i = top + 2
    BY <1>2, <1>6 DEF Slot
  <2> QED
    BY <1>2, <1>4, <1>5, <1>6, <2>1 DEF FramesAfter, Slot
<1>8. FollowedUp(p)
  BY <1>2, <1>3, <1>6 DEF FollowedUp, Slot
<1>9. loaded' = loaded \cup ({p} \ {NoPkg}) /\ p # NoPkg
  BY NoPkgAssumption DEF Load, Loads
<1>10. EachListedOnce'
  <2>1. /\ p \in (Pkgs \ loaded) \cup {NoPkg}
        /\ list' = Prepended
        /\ top' >= top
    BY <1>2, <1>6 DEF Load, Loads, Slot
  <2>2. \A i \in Slot : i # top => stack'[i].newpkg = stack[i].newpkg
    BY <1>2, <1>3, <1>4, <1>5
  <2> QED
    BY <1>1, <1>5, <1>9, <2>1, <2>2, ListingStep
<1> QED
  BY <1>2, <1>3, <1>6, <1>7, <1>8, <1>10 DEF Visited, Load, Loads, Slot

-----------------------------------------------------------------------------
(***************************************************************************)
(* Resolution speaks of the same graph.                                    *)
(***************************************************************************)

LEMMA SameGraph ==
  /\ \A in : Result!Roots(in) = Roots(in)
  /\ \A in, p : Result!PublicDeps(in, p) = PublicDeps(in, p)
  /\ \A in, p : Result!AllDeps(in, p) = AllDeps(in, p)
  /\ \A in : Result!PublicEdges(in) = PublicEdges(in)
  /\ \A in : Result!AllEdges(in) = AllEdges(in)
  /\ \A C, e : Result!Closed(C, e) <=> Closed(C, e)
  /\ \A S, e : Result!Reach(S, e) = Reach(S, e)
  /\ \A in : Result!Unlimited(in) <=> Unlimited(in)
BY DEF Result!Roots, Roots, Result!PublicDeps, PublicDeps, Result!AllDeps, AllDeps,
       Result!Named, Named, Result!PublicEdges, PublicEdges, Result!AllEdges, AllEdges,
       Result!Closed, Closed, Result!Reach, Reach, Result!Unlimited, Unlimited

-----------------------------------------------------------------------------
(***************************************************************************)
(* A visit preserves the invariant.                                        *)
(***************************************************************************)

\* How a visit changes the flags.
LEMMA VisitFlags ==
  ASSUME TypeOK, Running, NEW p \in Pkgs, Visited(p)
  PROVE  /\ Public' = IF "PUBLIC" \in cur.flags THEN Public \cup {p} ELSE Public
         /\ Direct' = IF "DIRECT" \in cur.flags THEN Direct \cup {p} ELSE Direct
         /\ \A q \in Pkgs : flags'[q] # {} => flags[q] # {} \/ q = p
<1>1. /\ flags \in [Pkgs -> SUBSET Flag]
      /\ flags' = [flags EXCEPT ![p] = @ \cup cur.flags]
  BY DEF TypeOK, Visited
<1>2. \A q \in Pkgs : flags'[q] = IF q = p THEN flags[p] \cup cur.flags ELSE flags[q]
  BY <1>1
<1>3. \A q \in Pkgs : "PUBLIC" \in flags'[q]
        <=> "PUBLIC" \in flags[q] \/ (q = p /\ "PUBLIC" \in cur.flags)
  BY <1>2
<1>4. \A q \in Pkgs : "DIRECT" \in flags'[q]
        <=> "DIRECT" \in flags[q] \/ (q = p /\ "DIRECT" \in cur.flags)
  BY <1>2
<1>5. Public' = IF "PUBLIC" \in cur.flags THEN Public \cup {p} ELSE Public
  BY <1>3 DEF Public
<1>6. Direct' = IF "DIRECT" \in cur.flags THEN Direct \cup {p} ELSE Direct
  BY <1>4 DEF Direct
<1> QED
  BY <1>2, <1>5, <1>6

\* What a frame names after a visit.
LEMMA VisitNamed ==
  ASSUME TypeOK, NEW p \in Pkgs, Takes(p), Visited(p), NEW i \in Slot, i <= top'
  PROVE  \/ i <= top /\ stack'[i].flags = stack[i].flags
              /\ Named(stack'[i].specs) \subseteq Named(stack[i].specs)
              /\ stack'[i].depth = stack[i].depth
         \/ stack'[i].depth = cur.depth + 1 /\ i > top
              /\ stack'[i].flags = cur.flags \ {"DIRECT"}
              /\ Named(stack'[i].specs) = PublicDeps(input, p)
         \/ stack'[i].depth = cur.depth + 1 /\ i > top
              /\ stack'[i].flags = {}
              /\ Named(stack'[i].specs) \subseteq AllDeps(input, p)
<1>1. top \in Slot /\ FramesAfter(p)
  BY CurType, TakesFacts DEF Visited
<1>2. CASE i < top
  BY <1>1, <1>2 DEF FramesAfter, Slot
<1>3. CASE i = top
  BY <1>1, <1>3, TakesFacts DEF FramesAfter, cur, Slot
<1>4. CASE i > top
  BY <1>1, <1>4 DEF FramesAfter, VisitsRequires, VisitsPrivate, PublicDeps, AllDeps
<1> QED
  BY <1>1, <1>2, <1>3, <1>4 DEF Slot

\* A visit discharges what is owed to p, and nothing else.
LEMMA VisitOwed ==
  ASSUME TypeOK, NEW p \in Pkgs, Takes(p), Visited(p), NEW q, q # p
  PROVE  /\ Owed(q) => Owed(q)'
         /\ OwedPublic(q) => OwedPublic(q)'
         /\ OwedDirect(q) => OwedDirect(q)'
<1>1. top \in Slot /\ top' \in Slot /\ top' >= top /\ FramesAfter(p)
  BY CurType, TakesFacts DEF Visited
<1>2. ASSUME NEW i \in Slot, i <= top, q \in Named(stack[i].specs)
      PROVE  i <= top' /\ q \in Named(stack'[i].specs) /\ stack'[i].flags = stack[i].flags
  <2>1. i <= top'
    BY <1>1, <1>2 DEF Slot
  <2>2. CASE i < top
    BY <1>1, <1>2, <2>1, <2>2 DEF FramesAfter
  <2>3. CASE i = top
    BY <1>1, <1>2, <2>1, <2>3, TakesFacts DEF FramesAfter, cur
  <2> QED
    BY <1>1, <1>2, <2>2, <2>3 DEF Slot
<1> QED
  BY <1>2 DEF Owed, OwedPublic, OwedDirect

LEMMA VisitJustified ==
  ASSUME TypeOK, Justified, NEW p \in Pkgs, Takes(p), Visited(p)
  PROVE  Justified'
<1>1. input' = input /\ loaded \subseteq loaded' /\ p \in loaded'
  BY DEF Visited
<1>2. Running
  BY TakesFacts
<1>3. Public \subseteq Public' /\ ("PUBLIC" \in cur.flags => p \in Public')
  BY <1>2, VisitFlags
<1>4. \A q : /\ Result!Wanted(q) => Result!Wanted(q)'
             /\ Result!WantedPublic(q) => Result!WantedPublic(q)'
  BY <1>1, <1>3 DEF Result!Wanted, Result!WantedPublic
<1>5. ASSUME NEW i \in Slot, i <= top', NEW q \in Named(stack'[i].specs)
      PROVE  /\ Result!Wanted(q)'
             /\ "PUBLIC" \in stack'[i].flags => Result!WantedPublic(q)'
  <2>1. CASE /\ i <= top /\ stack'[i].flags = stack[i].flags
             /\ Named(stack'[i].specs) \subseteq Named(stack[i].specs)
    BY <1>4, <1>5, <2>1 DEF Justified
  <2>2. CASE /\ stack'[i].flags = cur.flags \ {"DIRECT"}
             /\ Named(stack'[i].specs) = PublicDeps(input, p)
    <3>1. q \in PublicDeps(input', p) /\ q \in AllDeps(input', p)
      BY <1>1, <1>5, <2>2 DEF PublicDeps, AllDeps
    <3>2. Result!Wanted(q)'
      BY <1>1, <3>1, SameGraph DEF Result!Wanted
    <3>3. "PUBLIC" \in stack'[i].flags => Result!WantedPublic(q)'
      BY <1>3, <2>2, <3>1, SameGraph DEF Result!WantedPublic
    <3> QED
      BY <3>2, <3>3
  <2>3. CASE /\ stack'[i].flags = {}
             /\ Named(stack'[i].specs) \subseteq AllDeps(input, p)
    BY <1>1, <1>5, <2>3, SameGraph DEF Result!Wanted
  <2> QED
    BY <1>5, <2>1, <2>2, <2>3, VisitNamed
<1> QED
  BY <1>5 DEF Justified

LEMMA VisitDirectFrames ==
  ASSUME TypeOK, DirectFrames, NEW p \in Pkgs, Takes(p), Visited(p)
  PROVE  DirectFrames'
<1>1. input' = input /\ Running /\ top \in Slot
  BY TakesFacts, CurType DEF Visited
<1>2. \A i \in Slot : i <= top' /\ "DIRECT" \in stack'[i].flags =>
        Named(stack'[i].specs) \subseteq Roots(input)
  BY VisitNamed DEF DirectFrames
<1>3. "DIRECT" \in cur.flags => p \in Roots(input)
  BY <1>1, TakesFacts DEF DirectFrames, cur, Slot
<1>4. Direct' \subseteq Roots(input)
  BY <1>1, <1>3, VisitFlags DEF DirectFrames
<1> QED
  BY <1>1, <1>2, <1>4 DEF DirectFrames

LEMMA VisitRootsKept ==
  ASSUME TypeOK, RootsKept, NEW p \in Pkgs, Takes(p), Visited(p)
  PROVE  RootsKept'
<1>1. input' = input /\ Running /\ top \in Slot
  BY TakesFacts, CurType DEF Visited
<1>2. ASSUME NEW q \in Roots(input)
      PROVE  (q \in Direct' /\ q \in Public') \/ OwedDirect(q)'
  <2>1. CASE q \in Direct /\ q \in Public
    BY <1>1, <2>1, VisitFlags
  <2>2. CASE OwedDirect(q) /\ q # p
    BY <2>2, VisitOwed
  <2>3. CASE OwedDirect(p) /\ q = p
    <3>1. PICK i \in Slot : /\ i <= top /\ p \in Named(stack[i].specs)
                            /\ "DIRECT" \in stack[i].flags /\ "PUBLIC" \in stack[i].flags
      BY <2>3 DEF OwedDirect
    <3>2. CASE i = top
      BY <1>1, <2>3, <3>1, <3>2, VisitFlags DEF cur
    <3>3. CASE i < top
      <4>1. stack'[i] = stack[i] /\ i <= top'
        BY <1>1, <3>1, <3>3 DEF Visited, FramesAfter, Slot
      <4> QED
        BY <2>3, <3>1, <4>1 DEF OwedDirect
    <3> QED
      BY <1>1, <3>1, <3>2, <3>3 DEF Slot
  <2> QED
    BY <1>2, <2>1, <2>2, <2>3 DEF RootsKept
<1> QED
  BY <1>1, <1>2 DEF RootsKept

LEMMA VisitDepsKept ==
  ASSUME TypeOK, DepsKept, FlagsLoaded, NEW p \in Pkgs, Takes(p), Visited(p)
  PROVE  DepsKept'
<1> SUFFICES ASSUME Unlimited(input)
             PROVE  /\ \A r \in loaded' : \A q \in AllDeps(input, r) : q \in loaded' \/ Owed(q)'
                    /\ \A r \in Public' : \A q \in PublicDeps(input, r) :
                         q \in Public' \/ OwedPublic(q)'
  BY DEF DepsKept, Visited
<1>1. /\ Running /\ top \in Slot
      /\ loaded' = loaded \cup {p}
      /\ FollowedUp(p)
      /\ Public \subseteq loaded
  BY TakesFacts, CurType DEF Visited, FlagsLoaded, Public
<1>2. ASSUME NEW r \in loaded', NEW q \in AllDeps(input, r)
      PROVE  q \in loaded' \/ Owed(q)'
  <2>1. CASE r \in loaded
    BY <1>1, <1>2, <2>1, VisitOwed DEF DepsKept
  <2>2. CASE r \notin loaded
    <3>1. r = p /\ p \notin loaded
      BY <1>1, <2>2
    <3>2. PICK i \in Slot : i <= top' /\ VisitsRequires(i, p)
      BY <1>1, <3>1 DEF FollowedUp
    <3>3. PICK j \in Slot : j <= top' /\ VisitsPrivate(j, p)
      BY <1>1, <3>1 DEF FollowedUp
    <3>4. q \in Named(stack'[i].specs) \/ q \in Named(stack'[j].specs)
      BY <1>2, <3>1, <3>2, <3>3 DEF VisitsRequires, VisitsPrivate, AllDeps
    <3> QED
      BY <3>2, <3>3, <3>4 DEF Owed
  <2> QED
    BY <2>1, <2>2
<1>3. ASSUME NEW r \in Public', NEW q \in PublicDeps(input, r)
      PROVE  q \in Public' \/ OwedPublic(q)'
  <2>1. CASE r \in Public
    <3>1. q \in Public \/ OwedPublic(q)
      BY <1>3, <2>1 DEF DepsKept
    <3>2. CASE q # p \/ q \in Public
      BY <1>1, <3>1, <3>2, VisitOwed, VisitFlags
    <3>3. CASE q = p /\ OwedPublic(p)
      <4>1. PICK i \in Slot : /\ i <= top /\ p \in Named(stack[i].specs)
                              /\ "PUBLIC" \in stack[i].flags
        BY <3>3 DEF OwedPublic
      <4>2. CASE i = top
        BY <1>1, <3>3, <4>1, <4>2, VisitFlags DEF cur
      <4>3. CASE i < top
        <5>1. stack'[i] = stack[i] /\ i <= top'
          BY <1>1, <4>1, <4>3 DEF Visited, FramesAfter, Slot
        <5> QED
          BY <3>3, <4>1, <5>1 DEF OwedPublic
      <4> QED
        BY <1>1, <4>1, <4>2, <4>3 DEF Slot
    <3> QED
      BY <3>1, <3>2, <3>3
  <2>2. CASE r \notin Public
    <3>1. r = p /\ p \notin Public /\ "PUBLIC" \in cur.flags
      BY <1>1, <1>3, <2>2, VisitFlags
    <3>2. Revealed(p)
      BY <3>1 DEF Revealed, Public
    <3>3. PICK i \in Slot : i <= top' /\ VisitsRequires(i, p)
      BY <1>1, <3>2 DEF FollowedUp
    <3>4. q \in Named(stack'[i].specs) /\ "PUBLIC" \in stack'[i].flags
      BY <1>3, <3>1, <3>3 DEF VisitsRequires, PublicDeps
    <3> QED
      BY <3>3, <3>4 DEF OwedPublic
  <2> QED
    BY <2>1, <2>2
<1> QED
  BY <1>2, <1>3

LEMMA VisitedInv ==
  ASSUME ProcessInv, TypeOK', NEW p \in Pkgs, Takes(p), Visited(p)
  PROVE  ProcessInv'
<1> USE DEF ProcessInv
<1>1. top \in Slot /\ cur.depth = stack[top].depth /\ cur.depth \in Nat
  BY CurType, TakesFacts DEF cur
<1>2. FlagsLoaded'
  BY TakesFacts, VisitFlags DEF FlagsLoaded, Visited
<1>3. Shallow'
  <2>1. ASSUME NEW i \in Slot, i <= top' PROVE stack'[i].depth <= i
    <3>1. CASE i <= top /\ stack'[i].depth = stack[i].depth
      BY <3>1 DEF Shallow
    <3>2. CASE i > top /\ stack'[i].depth = cur.depth + 1
      BY <1>1, <3>2 DEF Shallow, Slot
    <3> QED
      BY <2>1, <3>1, <3>2, VisitNamed
  <2> QED
    BY <2>1 DEF Shallow
<1>4. DoneAtBottom'
  BY TakesFacts DEF DoneAtBottom, Visited, Running
<1> QED
  BY <1>2, <1>3, <1>4, VisitJustified, VisitDirectFrames, VisitRootsKept, VisitDepsKept DEF Visited

-----------------------------------------------------------------------------
(***************************************************************************)
(* The invariant holds.                                                    *)
(***************************************************************************)

LEMMA ReturnInv == ASSUME ProcessInv, TypeOK', Return PROVE ProcessInv'
<1> USE DEF ProcessInv
<1>1. /\ Running /\ top \in Slot /\ stack \in [Slot -> Frame]
      /\ cur = stack[top] /\ cur \in Frame
  BY CurType DEF Return, TypeOK, cur
<1>2. UNCHANGED <<input, loaded, flags, status>> /\ top' = top - 1 /\ cur.specs = <<>>
  BY DEF Return
<1>3. /\ stack'[top].newpkg = NoPkg /\ stack'[top].specs = cur.specs
      /\ stack'[top].flags = cur.flags /\ stack'[top].depth = cur.depth
      /\ \A i \in Slot : i # top => stack'[i] = stack[i]
  <2>1. stack'[top] = [cur EXCEPT !.newpkg = NoPkg]
    BY <1>1 DEF Return
  <2> QED
    BY <1>1, <2>1 DEF Return, Frame
<1>4. \A i \in Slot : /\ stack'[i].specs = stack[i].specs
                      /\ stack'[i].flags = stack[i].flags
                      /\ stack'[i].depth = stack[i].depth
  BY <1>1, <1>3
<1>5. \A i \in Slot : i <= top' <=> i <= top /\ i # top
  BY <1>1, <1>2, CapAssumption DEF Slot
<1>6. Public' = Public /\ Direct' = Direct
  BY <1>2 DEF Public, Direct
<1>7. Named(stack[top].specs) = {}
  BY <1>1, <1>2, NamedEmpty
<1>8. EachListedOnce'
  <2>1. /\ NoPkg \in (Pkgs \ loaded) \cup {NoPkg}
        /\ list' = Prepended
        /\ loaded' = loaded \cup ({NoPkg} \ {NoPkg})
        /\ \A i \in Slot : i # top => stack'[i].newpkg = stack[i].newpkg
    BY <1>2, <1>3 DEF Return
  <2> QED
    BY <1>1, <1>2, <1>3, <2>1, ListingStep
<1>9. FlagsLoaded' /\ Shallow'
  BY <1>2, <1>4, <1>5 DEF FlagsLoaded, Shallow
<1>10. Justified'
  BY <1>2, <1>4, <1>5, <1>6 DEF Justified, Result!Wanted, Result!WantedPublic
<1>11. DirectFrames'
  BY <1>2, <1>4, <1>5, <1>6 DEF DirectFrames
<1>12. ASSUME NEW q
       PROVE  /\ Owed(q) => Owed(q)'
              /\ OwedPublic(q) => OwedPublic(q)'
              /\ OwedDirect(q) => OwedDirect(q)'
  BY <1>4, <1>5, <1>7 DEF Owed, OwedPublic, OwedDirect
<1>13. RootsKept' /\ DepsKept'
  BY <1>2, <1>6, <1>12 DEF RootsKept, DepsKept
<1>14. DoneAtBottom'
  BY <1>1, <1>2 DEF DoneAtBottom, Running
<1> QED
  BY <1>8, <1>9, <1>10, <1>11, <1>13, <1>14

\* A step that changes the status at most.
LEMMA StutterInv ==
  ASSUME ProcessInv, TypeOK', UNCHANGED <<input, stack, top, loaded, flags, list>>,
         status' = "done" => top = -1
  PROVE  ProcessInv'
<1> USE DEF ProcessInv
<1>1. Public' = Public /\ Direct' = Direct /\ Listed' = Listed /\ Pending' = Pending
  BY DEF Public, Direct, Listed, Pending
<1>2. EachListedOnce'
  BY <1>1 DEF EachListedOnce, CleanSlots, NoDuplicates
<1>3. FlagsLoaded' /\ Shallow' /\ DirectFrames' /\ DoneAtBottom'
  BY <1>1 DEF FlagsLoaded, Shallow, DirectFrames, DoneAtBottom
<1>4. Justified'
  BY <1>1 DEF Justified, Result!Wanted, Result!WantedPublic
<1>5. \A q : Owed(q)' = Owed(q) /\ OwedPublic(q)' = OwedPublic(q) /\ OwedDirect(q)' = OwedDirect(q)
  BY DEF Owed, OwedPublic, OwedDirect
<1>6. RootsKept' /\ DepsKept'
  BY <1>1, <1>5 DEF RootsKept, DepsKept
<1> QED
  BY <1>2, <1>3, <1>4, <1>6

LEMMA InitProcessInv == Init => ProcessInv
<1> SUFFICES ASSUME Init PROVE ProcessInv
  OBVIOUS
<1>1. TypeOK
  BY InitTypeOK
<1>2. 0 \in Slot /\ \A i \in Slot : i <= top <=> i = 0
  BY CapAssumption DEF Init, Slot
<1>3. /\ stack[0].specs = input.roots /\ stack[0].flags = Flag /\ stack[0].depth = 0
      /\ \A i \in Slot : stack[i].newpkg = NoPkg
  <2>1. stack[0] = [ZeroFrame EXCEPT !.specs = input.roots, !.flags = Flag]
    BY <1>2 DEF Init
  <2>2. \A i \in Slot : i # 0 => stack[i] = ZeroFrame
    BY DEF Init
  <2> QED
    BY <2>1, <2>2 DEF ZeroFrame
<1>4. loaded = {} /\ Public = {} /\ Direct = {} /\ list = <<>> /\ top = 0
  BY DEF Init, Public, Direct
<1>5. Listed = {} /\ Pending = {}
  BY <1>2, <1>3, <1>4 DEF Listed, Pending
<1>6. EachListedOnce
  BY <1>2, <1>3, <1>4, <1>5 DEF EachListedOnce, CleanSlots, NoDuplicates
<1>7. Named(stack[0].specs) = Roots(input) /\ "PUBLIC" \in Flag /\ "DIRECT" \in Flag
  BY <1>3 DEF Roots, Flag
<1>8. FlagsLoaded /\ Shallow /\ DirectFrames /\ RootsKept /\ DepsKept /\ DoneAtBottom
  <2>1. FlagsLoaded /\ Shallow /\ DirectFrames /\ DepsKept /\ DoneAtBottom
    BY <1>2, <1>3, <1>4, <1>7, ZenonT(30)
       DEF FlagsLoaded, Shallow, DirectFrames, DepsKept, DoneAtBottom, Init
  <2>2. RootsKept
    BY <1>2, <1>3, <1>7 DEF RootsKept, OwedDirect
  <2> QED
    BY <2>1, <2>2
<1>9. Justified
  BY <1>2, <1>7, SameGraph DEF Justified, Result!Wanted, Result!WantedPublic
<1> QED
  BY <1>1, <1>6, <1>8, <1>9 DEF ProcessInv

LEMMA NextProcessInv == ProcessInv /\ [Next]_vars => ProcessInv'
<1> SUFFICES ASSUME ProcessInv, [Next]_vars PROVE ProcessInv'
  OBVIOUS
<1>1. TypeOK'
  BY NextTypeOK DEF ProcessInv
<1>2. CASE Return
  BY <1>1, <1>2, ReturnInv
<1>3. ASSUME NEW p \in Pkgs, Visit(p) PROVE ProcessInv'
  <2>1. CASE Revisit(p)
    BY <1>1, <2>1, RevisitVisited, VisitedInv DEF Revisit
  <2>2. CASE Reveal(p)
    BY <1>1, <2>2, RevealVisited, VisitedInv DEF Reveal
  <2>3. CASE Load(p)
    BY <1>1, <2>3, LoadVisited, VisitedInv DEF Load, Loads
  <2>4. CASE LoadLeaf(p)
    BY <1>1, <2>4, LoadLeafVisited, VisitedInv DEF LoadLeaf, Loads
  <2>5. CASE FailLoad(p) \/ FailVersion(p) \/ FailDepth(p)
    BY <1>1, <2>5, StutterInv DEF FailLoad, FailVersion, FailDepth, Exit
  <2> QED
    BY <1>3, <2>1, <2>2, <2>3, <2>4, <2>5 DEF Visit
<1>4. CASE Finish
  BY <1>1, <1>4, StutterInv DEF Finish
<1>5. CASE UNCHANGED vars
  BY <1>1, <1>5, StutterInv DEF vars, ProcessInv, DoneAtBottom
<1> QED
  BY <1>2, <1>3, <1>4, <1>5 DEF Next, Stopped

THEOREM ProcessInvariant == Spec => []ProcessInv
BY InitProcessInv, NextProcessInv, PTL DEF Spec

(***************************************************************************)
(* The assertions in prepend() and at the end of process() never fail: a   *)
(* package is listed once, however often the slots of the stack are used.  *)
(***************************************************************************)
THEOREM ListingCorrect == Spec => []EachListedOnce
<1>1. ProcessInv => EachListedOnce
  BY DEF ProcessInv
<1> QED
  BY <1>1, ProcessInvariant, PTL

\* DIRECT marks the packages of the command line and no other.
THEOREM DirectCorrect == Spec => []DirectExact
<1>1. ASSUME ProcessInv PROVE DirectExact
  <2>1. Direct \subseteq Roots(input)
    BY <1>1 DEF ProcessInv, DirectFrames
  <2>2. ASSUME status = "done" PROVE Roots(input) \subseteq Direct \cap Public \cap loaded
    <3>1. top = -1
      BY <1>1, <2>2 DEF ProcessInv, DoneAtBottom
    <3>2. \A q : ~OwedDirect(q)
      BY <3>1, CapAssumption DEF OwedDirect, Slot
    <3>3. Direct \subseteq loaded
      BY <1>1 DEF ProcessInv, FlagsLoaded, Direct
    <3> QED
      BY <1>1, <3>2, <3>3 DEF ProcessInv, RootsKept
  <2> QED
    BY <2>1, <2>2 DEF DirectExact
<1> QED
  BY <1>1, ProcessInvariant, PTL

-----------------------------------------------------------------------------
(***************************************************************************)
(* The traversal implements Resolution.                                    *)
(***************************************************************************)

LEMMA InitImplements == Init => Result!Init
<1> SUFFICES ASSUME Init PROVE Result!Init
  OBVIOUS
<1>1. input \in Result!Input
  BY InputsAssumption DEF Init, Input, Result!Input, PkgSpec, Result!PkgSpec
<1> QED
  BY <1>1 DEF Init, Result!Init, Public

\* A package that a frame is about to visit was asked for.
LEMMA TakesWanted ==
  ASSUME TypeOK, Justified, NEW p \in Pkgs, Takes(p)
  PROVE  Result!Wanted(p) /\ ("PUBLIC" \in cur.flags => Result!WantedPublic(p))
<1>1. top \in Slot /\ top <= top /\ p \in Named(stack[top].specs) /\ cur = stack[top]
  BY CurType, TakesFacts DEF cur, Slot
<1> QED
  BY <1>1 DEF Justified

LEMMA VisitImplements ==
  ASSUME TypeOK, Justified, status = "run", NEW p \in Pkgs, Takes(p), Visited(p),
         p \notin loaded => p \notin input.broken
  PROVE  [Result!Next]_Result!vars
<1>1. /\ UNCHANGED <<input, status>> /\ loaded' = loaded \cup {p}
      /\ Public' = IF "PUBLIC" \in cur.flags THEN Public \cup {p} ELSE Public
  BY TakesFacts, VisitFlags DEF Visited
<1>2. Result!Wanted(p) /\ ("PUBLIC" \in cur.flags => Result!WantedPublic(p))
  BY TakesWanted
<1>3. CASE p \notin loaded
  <2>1. Result!Acquire(p)
    BY <1>1, <1>2, <1>3 DEF Result!Acquire
  <2> QED
    BY <2>1 DEF Result!Next
<1>4. CASE p \in loaded /\ "PUBLIC" \in cur.flags /\ p \notin Public
  <2>1. Result!Publish(p)
    BY <1>1, <1>2, <1>4 DEF Result!Publish
  <2> QED
    BY <2>1 DEF Result!Next
<1>5. CASE p \in loaded /\ ("PUBLIC" \in cur.flags => p \in Public)
  BY <1>1, <1>5 DEF Result!vars
<1> QED
  BY <1>3, <1>4, <1>5

\* When the last frame is gone, nothing is missing.
LEMMA NothingMissing ==
  ASSUME ProcessInv, top = -1
  PROVE  Result!Complete
<1>1. \A q : ~Owed(q) /\ ~OwedPublic(q) /\ ~OwedDirect(q)
  BY CapAssumption DEF Owed, OwedPublic, OwedDirect, Slot
<1>2. Roots(input) \subseteq Public
  BY <1>1 DEF ProcessInv, RootsKept
<1>3. ASSUME Unlimited(input)
      PROVE  Closed(loaded, AllEdges(input)) /\ Closed(Public, PublicEdges(input))
  <2>1. /\ \A p \in loaded : AllDeps(input, p) \subseteq loaded
        /\ \A p \in Public : PublicDeps(input, p) \subseteq Public
    BY <1>1, <1>3 DEF ProcessInv, DepsKept
  <2>2. loaded \subseteq Pkgs /\ Public \subseteq Pkgs
    BY DEF ProcessInv, TypeOK, Public
  <2> QED
    BY <2>1, <2>2 DEF Closed, AllEdges, PublicEdges
<1> QED
  BY <1>2, <1>3, SameGraph DEF Result!Complete

LEMMA NextImplements ==
  ProcessInv /\ ProcessInv' /\ [Next]_vars => [Result!Next]_Result!vars
<1> SUFFICES ASSUME ProcessInv, ProcessInv', [Next]_vars
             PROVE  [Result!Next]_Result!vars
  OBVIOUS
<1>1. TypeOK /\ Justified /\ TypeOK'
  BY DEF ProcessInv
<1>2. CASE Return
  BY <1>2 DEF Return, Result!vars, Public
<1>3. ASSUME NEW p \in Pkgs, Visit(p) PROVE [Result!Next]_Result!vars
  <2>1. CASE Revisit(p) \/ Reveal(p) \/ Load(p) \/ LoadLeaf(p)
    <3>1. Visited(p)
      BY <1>1, <2>1, RevisitVisited, RevealVisited, LoadVisited, LoadLeafVisited
    <3>2. Takes(p) /\ (p \notin loaded => p \notin input.broken) /\ status = "run"
      BY <2>1 DEF Revisit, Reveal, Load, LoadLeaf, Loads, Takes, Running
    <3> QED
      BY <1>1, <3>1, <3>2, VisitImplements
  <2>2. CASE FailLoad(p)
    <3>1. Result!Wanted(p) /\ status = "run"
      BY <1>1, <2>2, TakesWanted DEF FailLoad, Takes, Running
    <3>2. Result!Fail("unloadable")
      BY <2>2, <3>1 DEF FailLoad, Exit, Result!Fail, Public
    <3> QED
      BY <3>2 DEF Result!Next, Result!Failure
  <2>3. CASE FailVersion(p)
    <3>1. Result!Fail("badversion")
      BY <2>3 DEF FailVersion, VersionOK, Exit, Takes, Running, Result!Fail, Public
    <3> QED
      BY <3>1 DEF Result!Next, Result!Failure
  <2>4. CASE FailDepth(p)
    <3>1. Result!Fail("toodeep")
      BY <2>4 DEF FailDepth, Deeper, Exit, Takes, Running, Result!Fail, Public
    <3> QED
      BY <3>1 DEF Result!Next, Result!Failure
  <2> QED
    BY <1>3, <2>1, <2>2, <2>3, <2>4 DEF Visit
<1>4. CASE Finish
  <2>1. Result!Succeed
    BY <1>4, NothingMissing DEF Finish, Result!Succeed, Public
  <2> QED
    BY <2>1 DEF Result!Next
<1>5. CASE UNCHANGED vars
  BY <1>5 DEF vars, Result!vars, Public
<1> QED
  BY <1>2, <1>3, <1>4, <1>5 DEF Next, Stopped

(***************************************************************************)
(* Every behaviour of the traversal is one that Resolution allows.         *)
(***************************************************************************)
THEOREM ProcessImplementsResolution == Spec => ImplementsResolution
<1>1. Spec => Init /\ [][Next]_vars
  BY PTL DEF Spec
<1> QED
  BY <1>1, InitImplements, NextImplements, ProcessInvariant, PTL
     DEF ImplementsResolution, Result!Spec

-----------------------------------------------------------------------------
(***************************************************************************)
(* Reachability in the graph of requires, and the proof that Resolution    *)
(* pins the result down: a successful run without a depth limit has        *)
(* loaded, and made public, exactly what can be reached.                   *)
(***************************************************************************)

\* The packages a list of specs names are packages.
LEMMA NamedType ==
  ASSUME NEW specs \in Seq(PkgSpec)
  PROVE  Named(specs) \subseteq Pkgs
<1>1. \A i \in DOMAIN specs : specs[i] \in PkgSpec
  OBVIOUS
<1>2. \A s \in PkgSpec : s.pkg \in Pkgs
  BY DEF PkgSpec
<1> QED
  BY <1>1, <1>2 DEF Named

\* The edges of an invocation join packages to packages.
LEMMA EdgesType ==
  ASSUME NEW in \in Input
  PROVE  /\ Roots(in) \subseteq Pkgs
         /\ \A p \in Pkgs : PublicDeps(in, p) \subseteq AllDeps(in, p)
         /\ \A p \in Pkgs : AllDeps(in, p) \subseteq Pkgs
         /\ PublicEdges(in) \in [Pkgs -> SUBSET Pkgs]
         /\ AllEdges(in) \in [Pkgs -> SUBSET Pkgs]
<1>1. in.roots \in Seq(PkgSpec)
  BY DEF Input
<1>2. ASSUME NEW p \in Pkgs
      PROVE  in.requires[p] \in Seq(PkgSpec) /\ in.private[p] \in Seq(PkgSpec)
  BY DEF Input
<1>3. ASSUME NEW p \in Pkgs
      PROVE  Named(in.requires[p]) \subseteq Pkgs /\ Named(in.private[p]) \subseteq Pkgs
  BY <1>2, NamedType
<1>4. Roots(in) \subseteq Pkgs
  BY <1>1, NamedType DEF Roots
<1> QED
  BY <1>3, <1>4 DEF PublicDeps, AllDeps, PublicEdges, AllEdges

\* What can be reached from S contains S.
LEMMA ReachStart ==
  ASSUME NEW S \in SUBSET Pkgs, NEW edges
  PROVE  S \subseteq Reach(S, edges) /\ Reach(S, edges) \subseteq Pkgs
BY DEF Reach

\* What can be reached from S is closed under the edges.
LEMMA ReachStep ==
  ASSUME NEW S \in SUBSET Pkgs, NEW edges \in [Pkgs -> SUBSET Pkgs],
         NEW p \in Reach(S, edges), NEW q \in edges[p]
  PROVE  q \in Reach(S, edges)
<1>1. p \in Pkgs /\ q \in Pkgs
  BY DEF Reach
<1>2. ASSUME NEW C \in SUBSET Pkgs, S \subseteq C, Closed(C, edges)
      PROVE  q \in C
  <2>1. p \in C
    BY <1>2 DEF Reach
  <2> QED
    BY <1>2, <2>1 DEF Closed
<1> QED
  BY <1>1, <1>2 DEF Reach

\* A closed set that contains S contains what can be reached from S.
LEMMA ReachLeast ==
  ASSUME NEW S, NEW edges, NEW C \in SUBSET Pkgs, S \subseteq C, Closed(C, edges)
  PROVE  Reach(S, edges) \subseteq C
BY DEF Reach

\* Resolution speaks of the same invocations.
LEMMA SameInput == Result!Input = Input
BY DEF Result!Input, Input, Result!PkgSpec, PkgSpec

-----------------------------------------------------------------------------
(***************************************************************************)
(* The inductive invariant: never more than what can be reached is loaded  *)
(* or public, and once the program has succeeded nothing is missing.       *)
(***************************************************************************)
Sound ==
  /\ loaded \subseteq Reach(Roots(input), AllEdges(input))
  /\ Public \subseteq Reach(Roots(input), PublicEdges(input))

CompleteWhenDone == status = "done" => Result!Complete

ResolutionInv == Result!TypeOK /\ Sound /\ CompleteWhenDone

LEMMA InitResolutionInv == Result!Init => ResolutionInv
BY DEF Result!Init, ResolutionInv, Result!TypeOK, Sound, CompleteWhenDone

\* A package that is asked for can be reached.
LEMMA WantedReachable ==
  ASSUME ResolutionInv, NEW p \in Pkgs
  PROVE  /\ Result!Wanted(p) => p \in Reach(Roots(input), AllEdges(input))
         /\ Result!WantedPublic(p) => p \in Reach(Roots(input), PublicEdges(input))
<1>1. /\ Roots(input) \in SUBSET Pkgs
      /\ PublicEdges(input) \in [Pkgs -> SUBSET Pkgs]
      /\ AllEdges(input) \in [Pkgs -> SUBSET Pkgs]
  BY EdgesType, SameInput DEF ResolutionInv, Result!TypeOK
<1>2. ASSUME Result!Wanted(p) PROVE p \in Reach(Roots(input), AllEdges(input))
  <2>1. CASE p \in Roots(input)
    BY <1>1, <2>1, ReachStart
  <2>2. CASE \E q \in loaded : p \in AllDeps(input, q)
    <3>1. PICK q \in loaded : p \in AllDeps(input, q)
      BY <2>2
    <3>2. q \in Reach(Roots(input), AllEdges(input)) /\ p \in AllEdges(input)[q]
      BY <3>1 DEF ResolutionInv, Sound, Result!TypeOK, AllEdges
    <3> QED
      BY <1>1, <3>2, ReachStep
  <2> QED
    BY <1>2, <2>1, <2>2, SameGraph DEF Result!Wanted
<1>3. ASSUME Result!WantedPublic(p) PROVE p \in Reach(Roots(input), PublicEdges(input))
  <2>1. CASE p \in Roots(input)
    BY <1>1, <2>1, ReachStart
  <2>2. CASE \E q \in Public : p \in PublicDeps(input, q)
    <3>1. PICK q \in Public : p \in PublicDeps(input, q)
      BY <2>2
    <3>2. q \in Reach(Roots(input), PublicEdges(input)) /\ p \in PublicEdges(input)[q]
      BY <3>1 DEF ResolutionInv, Sound, Result!TypeOK, PublicEdges
    <3> QED
      BY <1>1, <3>2, ReachStep
  <2> QED
    BY <1>3, <2>1, <2>2, SameGraph DEF Result!WantedPublic
<1> QED
  BY <1>2, <1>3

LEMMA NextResolutionInv == ResolutionInv /\ [Result!Next]_Result!vars => ResolutionInv'
<1> SUFFICES ASSUME ResolutionInv, [Result!Next]_Result!vars PROVE ResolutionInv'
  OBVIOUS
<1> USE DEF ResolutionInv
<1>1. ASSUME NEW p \in Pkgs, Result!Acquire(p) PROVE ResolutionInv'
  BY <1>1, WantedReachable DEF Result!Acquire, Result!TypeOK, Sound, CompleteWhenDone
<1>2. ASSUME NEW p \in Pkgs, Result!Publish(p) PROVE ResolutionInv'
  BY <1>2, WantedReachable DEF Result!Publish, Result!TypeOK, Sound, CompleteWhenDone
<1>3. CASE Result!Succeed
  BY <1>3 DEF Result!Succeed, Result!TypeOK, Sound, CompleteWhenDone, Result!Complete
<1>4. ASSUME NEW why \in Result!Failure, Result!Fail(why) PROVE ResolutionInv'
  BY <1>4 DEF Result!Fail, Result!Failure, Result!TypeOK, Sound, CompleteWhenDone
<1>5. CASE UNCHANGED Result!vars
  BY <1>5 DEF Result!vars, Result!TypeOK, Sound, CompleteWhenDone, Result!Complete
<1> QED
  BY <1>1, <1>2, <1>3, <1>4, <1>5 DEF Result!Next

LEMMA ResolutionInvExact == ResolutionInv => Result!Exact
<1> SUFFICES ASSUME ResolutionInv, status = "done", Unlimited(input)
             PROVE  /\ loaded = Reach(Roots(input), AllEdges(input))
                    /\ Public = Reach(Roots(input), PublicEdges(input))
  BY SameGraph DEF Result!Exact
<1>1. /\ Roots(input) \subseteq Public
      /\ Public \subseteq loaded
      /\ loaded \in SUBSET Pkgs
      /\ Closed(loaded, AllEdges(input))
      /\ Closed(Public, PublicEdges(input))
  BY SameGraph DEF ResolutionInv, Result!TypeOK, CompleteWhenDone, Result!Complete
<1>2. /\ Reach(Roots(input), AllEdges(input)) \subseteq loaded
      /\ Reach(Roots(input), PublicEdges(input)) \subseteq Public
  BY <1>1, ReachLeast
<1> QED
  BY <1>2 DEF ResolutionInv, Sound

(***************************************************************************)
(* Whatever implements Resolution ends up with the packages that can be    *)
(* reached, for every set of packages and every invocation.                *)
(***************************************************************************)
THEOREM ResolutionExact == Result!Spec => []Result!Exact
<1>1. Result!Spec => []ResolutionInv
  BY InitResolutionInv, NextResolutionInv, PTL DEF Result!Spec
<1> QED
  BY <1>1, ResolutionInvExact, PTL

(***************************************************************************)
(* The result is exact: what Resolution promises, the traversal delivers.  *)
(***************************************************************************)
THEOREM ResultExact == Spec => [](LoadedExact /\ PublicExact)
<1>1. Spec => Result!Spec
  BY ProcessImplementsResolution DEF ImplementsResolution
<1>2. Result!Exact => LoadedExact /\ PublicExact
  BY SameGraph DEF Result!Exact, LoadedExact, PublicExact
<1> QED
  BY <1>1, <1>2, ResolutionExact, PTL

(***************************************************************************)
(* The half of it that decides what Libs.private and versions are about:   *)
(* the packages marked PUBLIC by process() are those that public requires  *)
(* lead to.                                                                *)
(***************************************************************************)
THEOREM PublicCorrect == Spec => []PublicExact
BY ResultExact, PTL

-----------------------------------------------------------------------------
(***************************************************************************)
(* What the list is made of.                                               *)
(***************************************************************************)

\* Putting an element in front of a list keeps the order of the others.
LEMMA ConsBefore ==
  ASSUME NEW s \in Seq(Pkgs), NEW m \in Pkgs
  PROVE  LET t == <<m>> \o s IN
         /\ \A i, j \in DOMAIN s : i < j =>
              \E k, l \in DOMAIN t : k < l /\ t[k] = s[i] /\ t[l] = s[j]
         /\ \A j \in DOMAIN s : \E k, l \in DOMAIN t : k < l /\ t[k] = m /\ t[l] = s[j]
<1> DEFINE t == <<m>> \o s
<1>1. t \in Seq(Pkgs) /\ Len(t) = Len(s) + 1 /\ Len(s) \in Nat
  OBVIOUS
<1>2. DOMAIN t = 1 .. Len(s) + 1 /\ DOMAIN s = 1 .. Len(s)
  BY <1>1
<1>3. t[1] = m /\ \A i \in 1 .. Len(s) : t[i+1] = s[i]
  OBVIOUS
<1> HIDE DEF t
<1>4. ASSUME NEW i \in DOMAIN s, NEW j \in DOMAIN s, i < j
      PROVE  \E k, l \in DOMAIN t : k < l /\ t[k] = s[i] /\ t[l] = s[j]
  <2>1. i + 1 \in DOMAIN t /\ j + 1 \in DOMAIN t /\ i + 1 < j + 1
    BY <1>1, <1>2, <1>4
  <2>2. t[i+1] = s[i] /\ t[j+1] = s[j]
    BY <1>2, <1>3
  <2> QED
    BY <2>1, <2>2
<1>5. ASSUME NEW j \in DOMAIN s
      PROVE  \E k, l \in DOMAIN t : k < l /\ t[k] = m /\ t[l] = s[j]
  <2>1. 1 \in DOMAIN t /\ j + 1 \in DOMAIN t /\ 1 < j + 1
    BY <1>1, <1>2
  <2>2. t[1] = m /\ t[j+1] = s[j]
    BY <1>2, <1>3
  <2> QED
    BY <2>1, <2>2
<1> QED
  BY <1>4, <1>5 DEF t

\* What one iteration does to the list.
LEMMA PrependedList ==
  ASSUME TypeOK, Running, list' = Prepended
  PROVE  /\ Listed' = Listed \cup ({cur.newpkg} \ {NoPkg})
         /\ \A p, q : Before(p, q) => Before(p, q)'
         /\ \A m \in Pkgs, q \in Listed : m = cur.newpkg => Before(m, q)'
<1>1. cur.newpkg \in Pkgs \cup {NoPkg} /\ list \in Seq(Pkgs) /\ NoPkg \notin Pkgs
  BY CurType, NoPkgAssumption DEF TypeOK
<1>2. CASE cur.newpkg = NoPkg
  <2>1. list' = list
    BY <1>2 DEF Prepended
  <2> QED
    BY <1>1, <1>2, <2>1 DEF Listed, Before
<1>3. ASSUME NEW m \in Pkgs, cur.newpkg = m
      PROVE  /\ Listed' = Listed \cup {m}
             /\ \A p, q : Before(p, q) => Before(p, q)'
             /\ \A q \in Listed : Before(m, q)'
  <2> DEFINE t == <<m>> \o list
  <2>1. /\ \A i, j \in DOMAIN list : i < j =>
             \E k, l \in DOMAIN t : k < l /\ t[k] = list[i] /\ t[l] = list[j]
        /\ \A j \in DOMAIN list : \E k, l \in DOMAIN t : k < l /\ t[k] = m /\ t[l] = list[j]
    BY <1>1, ConsBefore
  <2>2. list' = t
    BY <1>1, <1>3 DEF Prepended
  <2>3. Listed' = Listed \cup {m}
    <3>1. Len(t) = Len(list) + 1 /\ Len(list) \in Nat /\ t \in Seq(Pkgs)
      BY <1>1
    <3>2. t[1] = m /\ \A i \in 1 .. Len(list) : t[i+1] = list[i]
      BY <1>1
    <3> HIDE DEF t
    <3>3. DOMAIN t = 1 .. Len(list) + 1 /\ DOMAIN list = 1 .. Len(list)
      BY <1>1, <3>1
    <3>4. \A i \in DOMAIN t : i = 1 \/ (i - 1 \in DOMAIN list /\ t[i] = list[i-1])
      BY <3>1, <3>2, <3>3
    <3>5. 1 \in DOMAIN t /\ \A i \in DOMAIN list : i + 1 \in DOMAIN t
      BY <3>1, <3>3
    <3>6. Listed' \subseteq Listed \cup {m}
      BY <2>2, <3>2, <3>4 DEF Listed
    <3>7. Listed \cup {m} \subseteq Listed'
      BY <2>2, <3>2, <3>3, <3>5 DEF Listed
    <3> QED
      BY <3>6, <3>7
  <2> HIDE DEF t
  <2>4. ASSUME NEW p, NEW q, Before(p, q) PROVE Before(p, q)'
    <3>1. PICK i \in DOMAIN list, j \in DOMAIN list : i < j /\ list[i] = p /\ list[j] = q
      BY <2>4 DEF Before
    <3>2. PICK k \in DOMAIN t, l \in DOMAIN t : k < l /\ t[k] = p /\ t[l] = q
      BY <2>1, <3>1
    <3> QED
      BY <2>2, <3>2 DEF Before
  <2>5. ASSUME NEW q \in Listed PROVE Before(m, q)'
    <3>1. PICK j \in DOMAIN list : list[j] = q
      BY DEF Listed
    <3>2. PICK k \in DOMAIN t, l \in DOMAIN t : k < l /\ t[k] = m /\ t[l] = q
      BY <2>1, <3>1
    <3> QED
      BY <2>2, <3>2 DEF Before
  <2> QED
    BY <2>3, <2>4, <2>5
<1> QED
  BY <1>1, <1>2, <1>3

\* What a visit leaves in the frames to be listed, and what it pushes.
Linked(p) ==
  /\ list' = Prepended
  /\ stack'[top].newpkg = IF p \in loaded THEN NoPkg ELSE p
  /\ \A i \in Slot : i > top /\ i <= top' => stack'[i].newpkg = NoPkg
  /\ \/ top' = top
     \/ top' = top + 1 /\ Revealed(p) /\ VisitsRequires(top + 1, p)
     \/ top' = top + 2 /\ p \notin loaded /\ VisitsRequires(top + 1, p)
                                          /\ VisitsPrivate(top + 2, p)

LEMMA VisitLinked ==
  ASSUME ProcessInv, ProcessInv', NEW p \in Pkgs,
         Revisit(p) \/ Reveal(p) \/ Load(p) \/ LoadLeaf(p)
  PROVE  Takes(p) /\ Visited(p) /\ Linked(p)
<1>1. TypeOK /\ EachListedOnce /\ TypeOK' /\ Takes(p) /\ Running
  BY DEF ProcessInv, Revisit, Reveal, Load, LoadLeaf, Loads, Takes
<1>2. Visited(p)
  BY <1>1, RevisitVisited, RevealVisited, LoadVisited, LoadLeafVisited
<1>3. top \in Slot /\ stack \in [Slot -> Frame] /\ list' = Prepended
  BY <1>1, CurType DEF TypeOK, Revisit, Reveal, Load, LoadLeaf, Loads
<1>4. \A i \in Slot : i > top => stack[i].newpkg = NoPkg
  BY <1>1 DEF EachListedOnce, CleanSlots
<1>5. CASE Revisit(p)
  <2>1. stack'[top] = Consumed(NoPkg) /\ top' = top /\ p \in loaded
    BY <1>3, <1>5 DEF Revisit
  <2>2. stack'[top].newpkg = NoPkg
    BY <1>1, <1>3, <2>1, NewFrameFields
  <2> QED
    BY <1>1, <1>2, <1>3, <2>1, <2>2 DEF Linked, Slot
<1>6. CASE LoadLeaf(p)
  <2>1. stack'[top] = Consumed(p) /\ top' = top /\ p \notin loaded
    BY <1>3, <1>6 DEF LoadLeaf, Loads
  <2>2. stack'[top].newpkg = p
    BY <1>1, <1>3, <2>1, NewFrameFields
  <2> QED
    BY <1>1, <1>2, <1>3, <2>1, <2>2 DEF Linked, Slot
<1>7. CASE Reveal(p)
  <2>1. top + 1 \in Slot /\ top' = top + 1 /\ p \in loaded /\ Revealed(p)
    BY <1>3, <1>7, CapAssumption DEF Reveal, Room, Slot
  <2>2. /\ stack'[top] = Consumed(NoPkg)
        /\ stack'[top+1] = Pushed(top + 1, input.requires[p], cur.flags \ {"DIRECT"})
    BY <1>3, <1>7, <2>1 DEF Reveal, Slot
  <2>3. /\ stack'[top].newpkg = NoPkg /\ stack'[top+1].newpkg = stack[top+1].newpkg
        /\ VisitsRequires(top + 1, p)
    BY <1>1, <1>3, <2>1, <2>2, NewFrameFields DEF VisitsRequires
  <2>4. \A i \in Slot : i > top /\ i <= top' => i = top + 1
    BY <1>3, <2>1 DEF Slot
  <2>5. stack[top+1].newpkg = NoPkg
    BY <1>3, <1>4, <2>1 DEF Slot
  <2> QED
    BY <1>1, <1>2, <1>3, <2>1, <2>3, <2>4, <2>5 DEF Linked
<1>8. CASE Load(p)
  <2>1. top + 1 \in Slot /\ top + 2 \in Slot /\ top' = top + 2 /\ p \notin loaded
    BY <1>3, <1>8, CapAssumption DEF Load, Loads, Room, Slot
  <2>2. /\ stack'[top] = Consumed(p)
        /\ stack'[top+1] = Pushed(top + 1, input.requires[p], cur.flags \ {"DIRECT"})
        /\ stack'[top+2] = Pushed(top + 2, input.private[p], {})
    BY <1>3, <1>8, <2>1 DEF Load, Slot
  <2>3. /\ stack'[top].newpkg = p /\ stack'[top+1].newpkg = stack[top+1].newpkg
        /\ stack'[top+2].newpkg = stack[top+2].newpkg
        /\ VisitsRequires(top + 1, p) /\ VisitsPrivate(top + 2, p)
    BY <1>1, <1>3, <2>1, <2>2, NewFrameFields DEF VisitsRequires, VisitsPrivate
  <2>4. \A i \in Slot : i > top /\ i <= top' => i = top + 1 \/ i = top + 2
    BY <1>3, <2>1 DEF Slot
  <2>5. stack[top+1].newpkg = NoPkg /\ stack[top+2].newpkg = NoPkg
    BY <1>3, <1>4, <2>1 DEF Slot
  <2> QED
    BY <1>1, <1>2, <1>3, <2>1, <2>3, <2>4, <2>5 DEF Linked
<1> QED
  BY <1>5, <1>6, <1>7, <1>8

(***************************************************************************)
(* What becomes of the frames when the current one is popped.              *)
(***************************************************************************)
LEMMA ReturnFrames ==
  ASSUME TypeOK, Return
  PROVE  /\ Running /\ top \in Slot /\ list' = Prepended /\ top' = top - 1
         /\ UNCHANGED <<input, loaded, flags, status>>
         /\ stack[top].specs = <<>> /\ Named(stack[top].specs) = {}
         /\ \A i \in Slot : /\ stack'[i].specs = stack[i].specs
                            /\ stack'[i].flags = stack[i].flags
                            /\ stack'[i].depth = stack[i].depth
         /\ \A i \in Slot : i # top => stack'[i] = stack[i]
         /\ \A i \in Slot : i <= top' <=> i <= top /\ i # top
<1>1. /\ Running /\ top \in Slot /\ stack \in [Slot -> Frame]
      /\ cur = stack[top] /\ cur \in Frame
  BY CurType DEF Return, TypeOK, cur
<1>2. UNCHANGED <<input, loaded, flags, status>> /\ top' = top - 1 /\ cur.specs = <<>>
      /\ list' = Prepended
  BY DEF Return
<1>3. /\ stack'[top].specs = cur.specs
      /\ stack'[top].flags = cur.flags /\ stack'[top].depth = cur.depth
      /\ \A i \in Slot : i # top => stack'[i] = stack[i]
  <2>1. stack'[top] = [cur EXCEPT !.newpkg = NoPkg]
    BY <1>1 DEF Return
  <2> QED
    BY <1>1, <2>1 DEF Return, Frame
<1>4. \A i \in Slot : i <= top' <=> i <= top /\ i # top
  BY <1>1, <1>2, CapAssumption DEF Slot
<1> QED
  BY <1>1, <1>2, <1>3, <1>4, NamedEmpty

-----------------------------------------------------------------------------
(***************************************************************************)
(* What requires what.                                                     *)
(***************************************************************************)

LEMMA EdgesOfPkgs ==
  ASSUME TypeOK
  PROVE  /\ Roots(input) \subseteq Pkgs
         /\ AllEdges(input) \in [Pkgs -> SUBSET Pkgs]
         /\ \A p \in Pkgs :
              AllDeps(input, p) \subseteq Pkgs /\ AllEdges(input)[p] = AllDeps(input, p)
<1>1. input \in Input
  BY DEF TypeOK
<1>2. \A p \in Pkgs : AllDeps(input, p) \subseteq Pkgs
  BY <1>1, InputSpecs, NamedType DEF AllDeps
<1> QED
  BY <1>1, <1>2, InputSpecs, NamedType DEF AllEdges, Roots

\* What is reached from S, with all that it requires in turn.
LEMMA ReachClosed ==
  ASSUME TypeOK, NEW S \in SUBSET Pkgs
  PROVE  /\ S \subseteq Reach(S, AllEdges(input))
         /\ Reach(S, AllEdges(input)) \subseteq Pkgs
         /\ \A q \in Reach(S, AllEdges(input)) :
              AllDeps(input, q) \subseteq Reach(S, AllEdges(input))
<1>1. S \subseteq Reach(S, AllEdges(input)) /\ Reach(S, AllEdges(input)) \subseteq Pkgs
  BY DEF Reach
<1>2. ASSUME NEW q \in Reach(S, AllEdges(input)), NEW r \in AllDeps(input, q)
      PROVE  r \in Reach(S, AllEdges(input))
  <2>1. q \in Pkgs /\ r \in Pkgs /\ r \in AllEdges(input)[q]
    BY <1>1, EdgesOfPkgs
  <2>2. ASSUME NEW C \in SUBSET Pkgs, S \subseteq C, Closed(C, AllEdges(input))
        PROVE  r \in C
    <3>1. q \in C
      BY <2>2 DEF Reach
    <3> QED
      BY <2>1, <2>2, <3>1 DEF Closed
  <2> QED
    BY <2>1, <2>2 DEF Reach
<1> QED
  BY <1>1, <1>2

\* A package reaches itself, and what is required by what it reaches.
LEMMA ReachesStep ==
  ASSUME TypeOK, NEW p \in Pkgs
  PROVE  /\ Reaches(p, p)
         /\ \A q, r : Reaches(p, q) /\ r \in AllDeps(input, q) => Reaches(p, r)
<1>1. {p} \in SUBSET Pkgs
  OBVIOUS
<1> QED
  BY <1>1, ReachClosed DEF Reaches

-----------------------------------------------------------------------------
(***************************************************************************)
(* The order of the list.                                                  *)
(***************************************************************************)

\* What a package that waits in a frame requires is loaded, or waits above it.
DepsAbove ==
  \A i \in Slot : i <= top /\ stack[i].newpkg # NoPkg =>
    \A q \in AllDeps(input, stack[i].newpkg) :
      q \in loaded \/ \E j \in Slot : i < j /\ j <= top /\ q \in Named(stack[j].specs)

\* All that is above a package that waits in a frame is required by it.
RequiredBelow ==
  \A i, j \in Slot : i < j /\ j <= top /\ stack[i].newpkg # NoPkg =>
    /\ \A q \in Named(stack[j].specs) : Reaches(stack[i].newpkg, q)
    /\ stack[j].newpkg # NoPkg => Reaches(stack[i].newpkg, stack[j].newpkg)

\* What is listed is before what it requires.
ListedFirst ==
  \A p \in Listed : \A q \in AllDeps(input, p) : Before(p, q) \/ Reaches(q, p)

OrderInv == Unlimited(input) => DepsAbove /\ RequiredBelow /\ ListedFirst

\* A package is prepended once all that it requires is listed, or waits in
\* a frame below for a package that it reaches.
LEMMA ListedFirstStep ==
  ASSUME TypeOK, EachListedOnce, Running, list' = Prepended, input' = input,
         DepsAbove, RequiredBelow, ListedFirst
  PROVE  ListedFirst'
<1>1. /\ top \in Slot /\ top <= top /\ cur = stack[top] /\ cur.newpkg \in Pkgs \cup {NoPkg}
      /\ loaded = Listed \cup Pending
      /\ \A i \in 0 .. top : i \in Slot
      /\ \A i \in Slot : i <= top => i < top \/ i = top
      /\ \A i \in Slot : ~(top < i /\ i <= top)
  BY CurType, CapAssumption DEF EachListedOnce, cur, Slot
<1>2. ASSUME NEW r \in Listed, NEW q \in AllDeps(input, r)
      PROVE  Before(r, q)' \/ Reaches(q, r)
  BY <1>2, PrependedList DEF ListedFirst
<1>3. ASSUME NEW m \in Pkgs, m = cur.newpkg, NEW q \in AllDeps(input, m)
      PROVE  Before(m, q)' \/ Reaches(q, m)
  <2>1. q \in loaded
    BY <1>1, <1>3, NoPkgAssumption DEF DepsAbove
  <2>2. CASE q \in Listed
    BY <1>3, <2>2, PrependedList
  <2>3. CASE q \in Pending
    <3>1. PICK j \in 0 .. top : stack[j].newpkg = q /\ q # NoPkg
      BY <2>3 DEF Pending
    <3>2. CASE j = top
      BY <1>1, <1>3, <3>1, <3>2, ReachesStep
    <3>3. CASE j < top
      BY <1>1, <1>3, <3>1, <3>3, NoPkgAssumption DEF RequiredBelow
    <3> QED
      BY <1>1, <3>1, <3>2, <3>3
  <2> QED
    BY <1>1, <2>1, <2>2, <2>3
<1>4. \A r, q : Reaches(r, q)' <=> Reaches(r, q)
  BY DEF Reaches
<1>5. Listed' = Listed \cup ({cur.newpkg} \ {NoPkg})
  BY PrependedList
<1>6. ASSUME NEW r \in Listed', NEW q \in AllDeps(input, r)
      PROVE  Before(r, q)' \/ Reaches(q, r)
  BY <1>1, <1>2, <1>3, <1>5
<1> QED
  BY <1>4, <1>6 DEF ListedFirst

LEMMA ReturnOrder ==
  ASSUME ProcessInv, OrderInv, Return
  PROVE  OrderInv'
<1>1. TypeOK /\ EachListedOnce
  BY DEF ProcessInv
<1>2. /\ Running /\ top \in Slot /\ list' = Prepended /\ input' = input /\ loaded' = loaded
      /\ Named(stack[top].specs) = {}
      /\ \A i \in Slot : i # top => stack'[i] = stack[i]
      /\ \A i \in Slot : i <= top' <=> i <= top /\ i # top
  BY <1>1, ReturnFrames
<1> SUFFICES ASSUME Unlimited(input) PROVE DepsAbove' /\ RequiredBelow' /\ ListedFirst'
  BY <1>2 DEF OrderInv
<1>3. DepsAbove /\ RequiredBelow /\ ListedFirst
  BY DEF OrderInv
<1>4. DepsAbove'
  <2>1. ASSUME NEW i \in Slot, i <= top', stack'[i].newpkg # NoPkg,
               NEW q \in AllDeps(input, stack'[i].newpkg), q \notin loaded
        PROVE  \E j \in Slot : i < j /\ j <= top' /\ q \in Named(stack'[j].specs)
    <3>1. i <= top /\ stack'[i] = stack[i]
      BY <1>2, <2>1
    <3>2. PICK j \in Slot : i < j /\ j <= top /\ q \in Named(stack[j].specs)
      BY <1>3, <2>1, <3>1 DEF DepsAbove
    <3>3. j # top
      BY <1>2, <3>2
    <3> QED
      BY <1>2, <3>2, <3>3
  <2> QED
    BY <1>2, <2>1 DEF DepsAbove
<1>5. RequiredBelow'
  <2>1. \A q, r : Reaches(q, r)' <=> Reaches(q, r)
    BY <1>2 DEF Reaches
  <2>2. ASSUME NEW i \in Slot, NEW j \in Slot, i < j, j <= top'
        PROVE  i # top /\ j # top /\ j <= top
    BY <1>2, <2>2, CapAssumption DEF Slot
  <2> QED
    BY <1>2, <1>3, <2>1, <2>2 DEF RequiredBelow
<1>6. ListedFirst'
  BY <1>1, <1>2, <1>3, ListedFirstStep
<1> QED
  BY <1>4, <1>5, <1>6

LEMMA VisitOrder ==
  ASSUME ProcessInv, OrderInv, NEW p \in Pkgs, Takes(p), Visited(p), Linked(p)
  PROVE  OrderInv'
<1>1. TypeOK /\ EachListedOnce
  BY DEF ProcessInv
<1>2. /\ Running /\ top \in Slot /\ top' \in Slot /\ top' >= top
      /\ list' = Prepended /\ input' = input /\ loaded' = loaded \cup {p}
      /\ FramesAfter(p) /\ FollowedUp(p) /\ cur = stack[top]
      /\ Named(stack[top].specs) = {p} \cup Named(stack'[top].specs)
      /\ stack'[top].newpkg = IF p \in loaded THEN NoPkg ELSE p
      /\ \A i \in Slot : i < top => stack'[i] = stack[i]
      /\ \A i \in Slot : i > top /\ i <= top' => stack'[i].newpkg = NoPkg
  BY <1>1, TakesFacts, CurType DEF Visited, Linked, FramesAfter, cur
<1>3. \A i \in Slot : /\ i < top \/ i = top \/ i > top
                      /\ i <= top => i <= top'
                      /\ i < top => i <= top
  BY <1>2, CapAssumption DEF Slot
<1> SUFFICES ASSUME Unlimited(input) PROVE DepsAbove' /\ RequiredBelow' /\ ListedFirst'
  BY <1>2 DEF OrderInv
<1>4. DepsAbove /\ RequiredBelow /\ ListedFirst
  BY DEF OrderInv
<1>5. DepsAbove'
  <2>1. ASSUME NEW i \in Slot, i < top, stack[i].newpkg # NoPkg,
               NEW q \in AllDeps(input, stack[i].newpkg), q \notin loaded'
        PROVE  \E j \in Slot : i < j /\ j <= top' /\ q \in Named(stack'[j].specs)
    <3>1. PICK j \in Slot : i < j /\ j <= top /\ q \in Named(stack[j].specs)
      BY <1>2, <1>3, <1>4, <2>1 DEF DepsAbove
    <3>2. q # p
      BY <1>2, <2>1
    <3>3. q \in Named(stack'[j].specs)
      BY <1>2, <1>3, <3>1, <3>2, CapAssumption DEF Slot
    <3> QED
      BY <1>3, <3>1, <3>3
  <2>2. ASSUME p \notin loaded, NEW q \in AllDeps(input, p)
        PROVE  \E j \in Slot : top < j /\ j <= top' /\ q \in Named(stack'[j].specs)
    <3>1. PICK j \in Slot : j > top /\ j <= top' /\ VisitsRequires(j, p)
      BY <1>2, <2>2 DEF FollowedUp
    <3>2. PICK k \in Slot : k > top /\ k <= top' /\ VisitsPrivate(k, p)
      BY <1>2, <2>2 DEF FollowedUp
    <3>3. q \in Named(stack'[j].specs) \/ q \in Named(stack'[k].specs)
      BY <2>2, <3>1, <3>2 DEF VisitsRequires, VisitsPrivate, AllDeps
    <3>4. top < j /\ top < k
      BY <1>2, <3>1, <3>2 DEF Slot
    <3> QED
      BY <3>1, <3>2, <3>3, <3>4
  <2>3. ASSUME NEW i \in Slot, i <= top', stack'[i].newpkg # NoPkg,
               NEW q \in AllDeps(input, stack'[i].newpkg), q \notin loaded'
        PROVE  \E j \in Slot : i < j /\ j <= top' /\ q \in Named(stack'[j].specs)
    <3>1. CASE i < top
      BY <1>2, <2>1, <2>3, <3>1
    <3>2. CASE i = top
      BY <1>2, <2>2, <2>3, <3>2
    <3> QED
      BY <1>2, <1>3, <2>3, <3>1, <3>2
  <2> QED
    BY <1>2, <2>3 DEF DepsAbove
<1>6. RequiredBelow'
  <2>1. \A q, r : Reaches(q, r)' <=> Reaches(q, r)
    BY <1>2 DEF Reaches
  <2>2. ASSUME NEW i \in Slot, i < top, stack[i].newpkg # NoPkg
        PROVE  stack[i].newpkg \in Pkgs /\ Reaches(stack[i].newpkg, p)
    <3>1. top <= top
      BY <1>2 DEF Slot
    <3>2. stack[i] \in Frame
      BY <1>1 DEF TypeOK
    <3> QED
      BY <1>2, <1>4, <2>2, <3>1, <3>2, FrameFields DEF RequiredBelow
  <2>3. ASSUME NEW j \in Slot, j > top, j <= top'
        PROVE  Named(stack'[j].specs) \subseteq AllDeps(input, p)
    <3>1. ~(j <= top)
      BY <1>2, <2>3 DEF Slot
    <3> QED
      BY <1>1, <2>3, <3>1, VisitNamed DEF AllDeps, PublicDeps
  <2>4. ASSUME NEW n \in Pkgs, Reaches(n, p), NEW j \in Slot, j > top, j <= top',
               NEW q \in Named(stack'[j].specs)
        PROVE  Reaches(n, q)
    BY <1>1, <2>3, <2>4, ReachesStep
  <2>5. ASSUME NEW i \in Slot, NEW j \in Slot, i < j, j <= top', stack'[i].newpkg # NoPkg
        PROVE  /\ \A q \in Named(stack'[j].specs) : Reaches(stack'[i].newpkg, q)
               /\ stack'[j].newpkg # NoPkg => Reaches(stack'[i].newpkg, stack'[j].newpkg)
    <3>1. CASE j < top
      <4>1. i < top /\ stack'[i] = stack[i] /\ stack'[j] = stack[j] /\ j <= top
        BY <1>2, <1>3, <2>5, <3>1, CapAssumption DEF Slot
      <4> QED
        BY <1>4, <2>5, <4>1 DEF RequiredBelow
    <3>2. CASE j = top
      <4>1. i < top /\ stack'[i] = stack[i] /\ stack[i].newpkg # NoPkg /\ top <= top
        BY <1>2, <2>5, <3>2, CapAssumption DEF Slot
      <4>2. \A q \in Named(stack[top].specs) : Reaches(stack[i].newpkg, q)
        BY <1>2, <1>4, <2>5, <3>2, <4>1 DEF RequiredBelow
      <4> QED
        BY <1>2, <2>2, <3>2, <4>1, <4>2
    <3>3. CASE j > top
      <4>1. stack'[j].newpkg = NoPkg
        BY <1>2, <2>5, <3>3
      <4>2. CASE i < top
        BY <1>2, <2>2, <2>4, <2>5, <3>3, <4>1, <4>2
      <4>3. CASE i = top
        <5>1. stack'[i].newpkg = p /\ Reaches(p, p)
          BY <1>1, <1>2, <2>5, <4>3, ReachesStep
        <5> QED
          BY <2>4, <2>5, <3>3, <4>1, <5>1
      <4>4. ~(i > top)
        <5>1. CASE i > top
          <6>1. i <= top'
            BY <1>2, <2>5, CapAssumption DEF Slot
          <6> QED
            BY <1>2, <2>5, <5>1, <6>1
        <5> QED
          BY <5>1
      <4> QED
        BY <1>3, <4>2, <4>3, <4>4
    <3> QED
      BY <1>3, <3>1, <3>2, <3>3
  <2> QED
    BY <2>1, <2>5 DEF RequiredBelow
<1>7. ListedFirst'
  BY <1>1, <1>2, <1>4, ListedFirstStep
<1> QED
  BY <1>5, <1>6, <1>7

LEMMA InitOrder == Init => OrderInv
<1> SUFFICES ASSUME Init PROVE OrderInv
  OBVIOUS
<1>1. \A i \in Slot : stack[i].newpkg = NoPkg
  BY DEF Init, ZeroFrame
<1>2. Listed = {}
  BY DEF Init, Listed
<1> QED
  BY <1>1, <1>2 DEF OrderInv, DepsAbove, RequiredBelow, ListedFirst

LEMMA NextOrder == ProcessInv /\ ProcessInv' /\ OrderInv /\ [Next]_vars => OrderInv'
<1> SUFFICES ASSUME ProcessInv, ProcessInv', OrderInv, [Next]_vars PROVE OrderInv'
  OBVIOUS
<1>1. CASE Return
  BY <1>1, ReturnOrder
<1>2. ASSUME UNCHANGED <<input, stack, top, loaded, flags, list>> PROVE OrderInv'
  <2>1. Listed' = Listed /\ (Unlimited(input)' <=> Unlimited(input))
    BY <1>2 DEF Listed
  <2>2. \A p, q : (Reaches(p, q)' <=> Reaches(p, q)) /\ (Before(p, q)' <=> Before(p, q))
    BY <1>2 DEF Reaches, Before
  <2> QED
    BY <1>2, <2>1, <2>2 DEF OrderInv, DepsAbove, RequiredBelow, ListedFirst
<1>3. ASSUME NEW p \in Pkgs, Visit(p) PROVE OrderInv'
  <2>1. CASE Revisit(p) \/ Reveal(p) \/ Load(p) \/ LoadLeaf(p)
    BY <2>1, VisitLinked, VisitOrder
  <2>2. CASE FailLoad(p) \/ FailVersion(p) \/ FailDepth(p)
    BY <1>2, <2>2 DEF FailLoad, FailVersion, FailDepth, Exit
  <2> QED
    BY <1>3, <2>1, <2>2 DEF Visit
<1>4. CASE Finish \/ UNCHANGED vars
  BY <1>2, <1>4 DEF Finish, vars
<1> QED
  BY <1>1, <1>3, <1>4 DEF Next, Stopped

(***************************************************************************)
(* The order of the list that process() returns is right for a linker: a   *)
(* package is listed before what it requires, unless they require one      *)
(* another, however the traversal came across the two.                     *)
(***************************************************************************)
THEOREM DependentsCorrect == Spec => []DependentsFirst
<1>1. ProcessInv /\ OrderInv => DependentsFirst
  <2> SUFFICES ASSUME ProcessInv, OrderInv, status = "done", Unlimited(input)
               PROVE  \A p \in loaded : \A q \in AllDeps(input, p) :
                        Before(p, q) \/ Reaches(q, p)
    BY DEF DependentsFirst
  <2>1. top = -1
    BY DEF ProcessInv, DoneAtBottom
  <2>2. Pending = {}
    BY <2>1 DEF Pending
  <2>3. loaded = Listed
    BY <2>2 DEF ProcessInv, EachListedOnce
  <2> QED
    BY <2>3 DEF OrderInv, ListedFirst
<1> QED
  BY <1>1, ProcessInvariant, InitOrder, NextOrder, PTL DEF Spec

-----------------------------------------------------------------------------
(***************************************************************************)
(* The order of the command line.                                          *)
(***************************************************************************)

\* How many specs of the command line were taken off the bottom frame.
Taken == Len(input.roots) - Len(stack[0].specs)

\* The command line, as far as it was taken, leads to q.
LedTo(q) == \E k \in 1 .. Taken : Reaches(input.roots[k].pkg, q)

\* What is taken, and what is left, is the command line.
TakenInOrder ==
  /\ Taken \in Nat
  /\ \A i \in 1 .. Len(stack[0].specs) : stack[0].specs[i] = input.roots[Taken + i]
  /\ top = -1 => stack[0].specs = <<>>

\* What is taken is loaded, and nothing is that it does not lead to.
TakenLoaded ==
  /\ \A k \in 1 .. Taken : input.roots[k].pkg \in loaded
  /\ \A q \in loaded : LedTo(q)
  /\ \A i \in Slot : 1 <= i /\ i <= top => \A q \in Named(stack[i].specs) : LedTo(q)

\* Nothing before the j-th spec of the command line leads to its package.
Fresh(j) == \A k \in 1 .. j - 1 : ~Reaches(input.roots[k].pkg, input.roots[j].pkg)

\* Of two packages taken that are not required before, the one given first
\* is not listed before the other one is.
LaterGivenFirst ==
  \A i, j \in 1 .. Taken : i < j /\ Fresh(j) =>
    /\ input.roots[i].pkg \in Listed
    /\ input.roots[j].pkg \in Listed => Before(input.roots[j].pkg, input.roots[i].pkg)

CommandInv == TakenInOrder /\ TakenLoaded /\ LaterGivenFirst

LEMMA CommandTypes ==
  ASSUME TypeOK, TakenInOrder
  PROVE  /\ 0 \in Slot
         /\ stack[0].specs \in Seq(PkgSpec)
         /\ Len(stack[0].specs) \in Nat /\ Taken \in Nat
         /\ \A k \in 1 .. Taken : input.roots[k].pkg \in Pkgs
<1>1. 0 \in Slot /\ input.roots \in Seq(PkgSpec)
  BY InputSpecs, CapAssumption DEF TypeOK, Slot
<1>2. stack[0].specs \in Seq(PkgSpec)
  BY <1>1, FrameFields DEF TypeOK
<1>3. Taken \in Nat /\ Len(stack[0].specs) \in Nat /\ Taken = Len(input.roots) - Len(stack[0].specs)
  BY <1>2 DEF TakenInOrder, Taken
<1>4. ASSUME NEW k \in 1 .. Taken PROVE input.roots[k].pkg \in Pkgs
  <2>1. k \in 1 .. Len(input.roots)
    BY <1>1, <1>3
  <2>2. input.roots[k] \in PkgSpec
    BY <1>1, <2>1
  <2> QED
    BY <2>2 DEF PkgSpec
<1> QED
  BY <1>1, <1>2, <1>3, <1>4

\* What goes in front of the list does not come between the others.
LEMMA BeforeKept ==
  ASSUME TypeOK, Running, list' = Prepended, NEW p \in Listed, NEW q \in Pkgs,
         q \in Listed => Before(q, p)
  PROVE  p \in Listed' /\ (q \in Listed' => Before(q, p)')
<1>1. Listed' = Listed \cup ({cur.newpkg} \ {NoPkg})
  BY PrependedList
<1>2. CASE q \in Listed
  BY <1>1, <1>2, PrependedList
<1>3. CASE q = cur.newpkg
  BY <1>1, <1>3, PrependedList
<1> QED
  BY <1>1, <1>2, <1>3

LEMMA PairsKept ==
  ASSUME TypeOK, Running, list' = Prepended, TakenInOrder, LaterGivenFirst,
         NEW i \in 1 .. Taken, NEW j \in 1 .. Taken, i < j, Fresh(j),
         NEW p, NEW q, p = input.roots[i].pkg, q = input.roots[j].pkg
  PROVE  p \in Listed' /\ (q \in Listed' => Before(q, p)')
<1>1. q \in Pkgs
  BY CommandTypes
<1>2. p \in Listed /\ (q \in Listed => Before(q, p))
  BY DEF LaterGivenFirst
<1> QED
  BY <1>1, <1>2, BeforeKept

\* A visit takes a spec of the command line if the bottom frame is current.
LEMMA VisitTaken ==
  ASSUME TypeOK, TakenInOrder, NEW p \in Pkgs, Takes(p), Visited(p)
  PROVE  /\ TakenInOrder'
         /\ IF top = 0 THEN /\ Taken' = Taken + 1
                            /\ input.roots[Taken + 1].pkg = p
            ELSE Taken' = Taken
<1>1. /\ Running /\ top \in Slot /\ top' \in Slot /\ input' = input /\ FramesAfter(p)
      /\ 0 \in Slot /\ stack[0].specs \in Seq(PkgSpec)
      /\ Len(stack[0].specs) \in Nat /\ Taken \in Nat
      /\ Taken = Len(input.roots) - Len(stack[0].specs)
      /\ Taken' = Len(input.roots) - Len(stack'[0].specs)
  BY TakesFacts, CurType, CommandTypes DEF Visited, Taken
<1>2. input.roots \in Seq(PkgSpec) /\ Len(input.roots) \in Nat
  BY InputSpecs DEF TypeOK
<1>0. Taken \in Nat /\ input' = input
  BY <1>1
<1>3. top' # -1
  BY <1>1, CapAssumption DEF Slot
<1>4. \A i \in 1 .. Len(stack[0].specs) : stack[0].specs[i] = input.roots[Taken + i]
  BY DEF TakenInOrder
<1>5. CASE top = 0
  <2> DEFINE specs == stack[0].specs
  <2>1. /\ specs \in Seq(PkgSpec) /\ specs # <<>> /\ Head(specs).pkg = p
        /\ stack'[0].specs = Tail(specs)
    BY <1>1, <1>5 DEF Takes, cur, FramesAfter
  <2> HIDE DEF specs
  <2>2. /\ Len(Tail(specs)) = Len(specs) - 1 /\ Len(specs) \in Nat \ {0}
        /\ Head(specs) = specs[1]
        /\ \A i \in 1 .. Len(Tail(specs)) : Tail(specs)[i] = specs[i + 1]
    BY <2>1
  <2>3. Taken' = Taken + 1
    <3>1. Len(stack'[0].specs) = Len(stack[0].specs) - 1
      BY <2>1, <2>2 DEF specs
    <3> QED
      BY <1>1, <1>2, <3>1
  <2>4. input.roots[Taken + 1].pkg = p
    BY <1>4, <2>1, <2>2 DEF specs
  <2>5. ASSUME NEW i \in 1 .. Len(stack'[0].specs)
        PROVE  stack'[0].specs[i] = input.roots[Taken' + i]
    <3>1. i \in Nat /\ i + 1 \in 1 .. Len(specs) /\ stack'[0].specs[i] = specs[i+1]
      BY <2>1, <2>2
    <3>2. specs[i+1] = input.roots[Taken + (i + 1)]
      BY <1>4, <3>1 DEF specs
    <3>3. Taken + (i + 1) = Taken' + i
      BY <1>0, <2>3, <3>1
    <3> QED
      BY <3>1, <3>2, <3>3
  <2> QED
    <3>1. Taken' \in Nat
      BY <1>0, <2>3
    <3>2. TakenInOrder'
      BY <1>0, <1>3, <2>5, <3>1 DEF TakenInOrder
    <3> QED
      BY <1>5, <2>3, <2>4, <3>2
<1>6. CASE top # 0
  <2>1. stack'[0] = stack[0]
    BY <1>1, <1>6, CapAssumption DEF FramesAfter, Slot
  <2> QED
    BY <1>1, <1>3, <1>6, <2>1 DEF TakenInOrder
<1> QED
  BY <1>5, <1>6

LEMMA VisitTakenLoaded ==
  ASSUME TypeOK, TakenInOrder, TakenLoaded, NEW p \in Pkgs, Takes(p), Visited(p)
  PROVE  TakenLoaded'
<1>1. /\ top \in Slot /\ top' \in Slot /\ top' >= top /\ input' = input
      /\ loaded' = loaded \cup {p}
      /\ Named(cur.specs) = {p} \cup Named(Tail(cur.specs)) /\ cur = stack[top]
      /\ Taken \in Nat
      /\ IF top = 0 THEN Taken' = Taken + 1 /\ input.roots[Taken + 1].pkg = p
                    ELSE Taken' = Taken
  BY TakesFacts, CurType, CommandTypes, VisitTaken DEF Visited, cur
<1>2. \A r, q : Reaches(r, q)' <=> Reaches(r, q)
  BY <1>1 DEF Reaches
<1>3. \A q : LedTo(q)' <=> \E k \in 1 .. Taken' : Reaches(input.roots[k].pkg, q)
  BY <1>1, <1>2 DEF LedTo
<1>4. \A q : LedTo(q) => LedTo(q)'
  BY <1>1, <1>3 DEF LedTo
<1>5. LedTo(p)'
  <2>1. CASE top = 0
    <3>1. Taken + 1 \in 1 .. Taken' /\ Reaches(p, p)
      BY <1>1, <2>1, ReachesStep
    <3> QED
      BY <1>1, <1>3, <2>1, <3>1
  <2>2. CASE top # 0
    <3>1. 1 <= top /\ top <= top
      BY <1>1, <2>2, CapAssumption DEF Slot
    <3> QED
      BY <1>1, <1>4, <3>1 DEF TakenLoaded
  <2> QED
    BY <2>1, <2>2
<1>6. ASSUME NEW q \in AllDeps(input, p) PROVE LedTo(q)'
  <2>1. PICK k \in 1 .. Taken' : Reaches(input.roots[k].pkg, p)
    BY <1>3, <1>5
  <2>2. input.roots[k].pkg \in Pkgs
    BY <1>1, <2>1, CommandTypes
  <2>3. Reaches(input.roots[k].pkg, q)
    BY <1>6, <2>1, <2>2, ReachesStep
  <2> QED
    BY <1>3, <2>1, <2>3
<1>7. \A k \in 1 .. Taken' : input.roots[k].pkg \in loaded'
  BY <1>1 DEF TakenLoaded
<1>8. \A q \in loaded' : LedTo(q)'
  BY <1>1, <1>4, <1>5 DEF TakenLoaded
<1>9. ASSUME NEW i \in Slot, 1 <= i, i <= top', NEW q \in Named(stack'[i].specs)
      PROVE  LedTo(q)'
  <2>1. CASE i <= top /\ Named(stack'[i].specs) \subseteq Named(stack[i].specs)
    BY <1>4, <1>9, <2>1 DEF TakenLoaded
  <2>2. CASE Named(stack'[i].specs) \subseteq AllDeps(input, p)
    BY <1>6, <1>9, <2>2
  <2> QED
    BY <1>9, <2>1, <2>2, VisitNamed DEF AllDeps, PublicDeps
<1> QED
  BY <1>1, <1>7, <1>8, <1>9 DEF TakenLoaded

LEMMA VisitGiven ==
  ASSUME ProcessInv, CommandInv, NEW p \in Pkgs, Takes(p), Visited(p), list' = Prepended
  PROVE  LaterGivenFirst'
<1>1. TypeOK /\ TakenInOrder /\ TakenLoaded /\ LaterGivenFirst /\ loaded = Listed \cup Pending
  BY DEF ProcessInv, CommandInv, EachListedOnce
<1>2. /\ Running /\ top \in Slot /\ input' = input /\ Taken \in Nat
      /\ IF top = 0 THEN Taken' = Taken + 1 /\ input.roots[Taken + 1].pkg = p
                    ELSE Taken' = Taken
  BY <1>1, TakesFacts, CurType, CommandTypes, VisitTaken DEF Visited
<1>3. \A r, q : Reaches(r, q)' <=> Reaches(r, q)
  BY <1>2 DEF Reaches
<1>4. \A j : Fresh(j)' <=> Fresh(j)
  BY <1>2, <1>3 DEF Fresh
<1>5. ASSUME NEW i \in 1 .. Taken', NEW j \in 1 .. Taken', i < j, Fresh(j),
             NEW r, NEW q, r = input.roots[i].pkg, q = input.roots[j].pkg
      PROVE  r \in Listed' /\ (q \in Listed' => Before(q, r)')
  <2>1. CASE i \in 1 .. Taken /\ j \in 1 .. Taken
    BY <1>1, <1>2, <1>5, <2>1, PairsKept
  <2>2. CASE ~(i \in 1 .. Taken /\ j \in 1 .. Taken)
    <3>1. top = 0 /\ j = Taken + 1 /\ i \in 1 .. Taken /\ q = p
      BY <1>2, <1>5, <2>2
    <3>2. Pending \subseteq {cur.newpkg} \ {NoPkg}
      BY <3>1 DEF Pending, cur
    <3>3. /\ Listed' = Listed \cup ({cur.newpkg} \ {NoPkg})
          /\ cur.newpkg # NoPkg => cur.newpkg \in Pending
      <4>1. 0 \in 0 .. top /\ cur.newpkg = stack[0].newpkg
        BY <3>1 DEF cur
      <4> QED
        BY <1>1, <1>2, <4>1, PrependedList DEF Pending
    <3>4. Listed' = loaded
      BY <1>1, <1>2, <3>1, <3>2, <3>3, PrependedList DEF Pending, cur
    <3>5. r \in loaded
      BY <1>1, <1>5, <3>1 DEF TakenLoaded
    <3>6. q \notin loaded
      <4>1. \A k \in 1 .. Taken : ~Reaches(input.roots[k].pkg, q)
        BY <1>2, <1>5, <3>1 DEF Fresh
      <4> QED
        BY <1>1, <4>1 DEF TakenLoaded, LedTo
    <3> QED
      BY <3>4, <3>5, <3>6
  <2> QED
    BY <2>1, <2>2
<1> QED
  BY <1>2, <1>4, <1>5 DEF LaterGivenFirst

LEMMA ReturnCommand ==
  ASSUME TypeOK, CommandInv, Return
  PROVE  CommandInv'
<1>1. /\ Running /\ top \in Slot /\ list' = Prepended /\ input' = input /\ loaded' = loaded
      /\ stack[top].specs = <<>> /\ top' = top - 1
      /\ \A i \in Slot : stack'[i].specs = stack[i].specs
      /\ \A i \in Slot : i <= top' <=> i <= top /\ i # top
  BY ReturnFrames
<1>2. TakenInOrder /\ TakenLoaded /\ LaterGivenFirst
  BY DEF CommandInv
<1>3. 0 \in Slot /\ Taken \in Nat
  BY <1>2, CommandTypes
<1>4. stack'[0].specs = stack[0].specs /\ Taken' = Taken
  BY <1>1, <1>3 DEF Taken
<1>5. \A r, q : Reaches(r, q)' <=> Reaches(r, q)
  BY <1>1 DEF Reaches
<1>6. (\A q : LedTo(q)' <=> LedTo(q)) /\ (\A j : Fresh(j)' <=> Fresh(j))
  BY <1>1, <1>4, <1>5 DEF LedTo, Fresh
<1>7. TakenInOrder'
  <2>1. top' = -1 => top = 0
    BY <1>1, CapAssumption DEF Slot
  <2> QED
    BY <1>1, <1>2, <1>4, <2>1 DEF TakenInOrder
<1>8. TakenLoaded'
  BY <1>1, <1>2, <1>4, <1>6 DEF TakenLoaded
<1>9. LaterGivenFirst'
  <2>1. ASSUME NEW i \in 1 .. Taken, NEW j \in 1 .. Taken, i < j, Fresh(j),
               NEW r, NEW q, r = input.roots[i].pkg, q = input.roots[j].pkg
        PROVE  r \in Listed' /\ (q \in Listed' => Before(q, r)')
    BY <1>1, <1>2, <2>1, PairsKept
  <2> QED
    BY <1>1, <1>4, <1>6, <2>1 DEF LaterGivenFirst
<1> QED
  BY <1>7, <1>8, <1>9 DEF CommandInv

LEMMA InitCommand == Init => CommandInv
<1> SUFFICES ASSUME Init PROVE CommandInv
  OBVIOUS
<1>1. TypeOK /\ 0 \in Slot
  BY InitTypeOK, CapAssumption DEF Slot
<1>2. stack[0].specs = input.roots
  BY <1>1 DEF Init, ZeroFrame
<1>3. Len(input.roots) \in Nat
  BY <1>1, InputSpecs DEF TypeOK
<1>4. Taken = 0
  BY <1>2, <1>3 DEF Taken
<1>5. top = 0 /\ loaded = {} /\ \A i \in Slot : ~(1 <= i /\ i <= top)
  BY DEF Init, Slot
<1>6. TakenInOrder
  BY <1>2, <1>3, <1>4, <1>5 DEF TakenInOrder
<1>7. TakenLoaded /\ LaterGivenFirst
  BY <1>4, <1>5 DEF TakenLoaded, LaterGivenFirst
<1> QED
  BY <1>6, <1>7 DEF CommandInv

LEMMA NextCommand == ProcessInv /\ ProcessInv' /\ CommandInv /\ [Next]_vars => CommandInv'
<1> SUFFICES ASSUME ProcessInv, ProcessInv', CommandInv, [Next]_vars PROVE CommandInv'
  OBVIOUS
<1>1. TypeOK
  BY DEF ProcessInv
<1>2. CASE Return
  BY <1>1, <1>2, ReturnCommand
<1>3. ASSUME UNCHANGED <<input, stack, top, loaded, flags, list>> PROVE CommandInv'
  <2>1. Listed' = Listed /\ Taken' = Taken
    BY <1>3 DEF Listed, Taken
  <2>2. \A p, q : (Reaches(p, q)' <=> Reaches(p, q)) /\ (Before(p, q)' <=> Before(p, q))
    BY <1>3 DEF Reaches, Before
  <2>3. (\A q : LedTo(q)' <=> LedTo(q)) /\ (\A j : Fresh(j)' <=> Fresh(j))
    BY <1>3, <2>1, <2>2 DEF LedTo, Fresh
  <2> QED
    BY <1>3, <2>1, <2>2, <2>3
       DEF CommandInv, TakenInOrder, TakenLoaded, LaterGivenFirst
<1>4. ASSUME NEW p \in Pkgs, Visit(p) PROVE CommandInv'
  <2>1. CASE Revisit(p) \/ Reveal(p) \/ Load(p) \/ LoadLeaf(p)
    <3>1. Takes(p) /\ Visited(p) /\ list' = Prepended
      BY <2>1, VisitLinked DEF Linked
    <3> QED
      BY <1>1, <3>1, VisitTaken, VisitTakenLoaded, VisitGiven DEF CommandInv
  <2>2. CASE FailLoad(p) \/ FailVersion(p) \/ FailDepth(p)
    BY <1>3, <2>2 DEF FailLoad, FailVersion, FailDepth, Exit
  <2> QED
    BY <1>4, <2>1, <2>2 DEF Visit
<1>5. CASE Finish \/ UNCHANGED vars
  BY <1>3, <1>5 DEF Finish, vars
<1> QED
  BY <1>2, <1>4, <1>5 DEF Next, Stopped

(***************************************************************************)
(* The order of the list that process() returns is the order of the        *)
(* command line, wherever what one package requires does not reverse it.   *)
(***************************************************************************)
THEOREM CommandLineKept == Spec => []CommandLineOrder
<1>1. ProcessInv /\ CommandInv => CommandLineOrder
  <2> SUFFICES ASSUME ProcessInv, CommandInv, status = "done",
                      NEW i \in DOMAIN input.roots, NEW j \in DOMAIN input.roots,
                      i < j, Fresh(j)
               PROVE  Before(input.roots[j].pkg, input.roots[i].pkg)
    BY DEF CommandLineOrder, Fresh
  <2>1. top = -1
    BY DEF ProcessInv, DoneAtBottom
  <2>2. loaded = Listed
    BY <2>1 DEF ProcessInv, EachListedOnce, Pending
  <2>3. stack[0].specs = <<>> /\ input.roots \in Seq(PkgSpec)
    BY <2>1, InputSpecs DEF CommandInv, TakenInOrder, ProcessInv, TypeOK
  <2>4. Taken = Len(input.roots)
    BY <2>3 DEF Taken
  <2>5. i \in 1 .. Taken /\ j \in 1 .. Taken
    BY <2>3, <2>4
  <2> QED
    BY <2>2, <2>5 DEF CommandInv, TakenLoaded, LaterGivenFirst
<1> QED
  BY <1>1, ProcessInvariant, InitCommand, NextCommand, PTL DEF Spec

-----------------------------------------------------------------------------
(***************************************************************************)
(* The height of the stack.                                                *)
(***************************************************************************)

\* What the command line leads to.
Needed == Reach(Roots(input), AllEdges(input))

IsPublic(i) == "PUBLIC" \in stack[i].flags

PublicCount  == Cardinality(Public)
PrivateCount == Cardinality(loaded \ Public)

\* Only what is needed is loaded.
LoadedNeeded == loaded \subseteq Needed /\ IsFiniteSet(loaded)

\* Public frames are below all others.
PublicBelow == \A i, j \in Slot : i < j /\ j <= top /\ IsPublic(j) => IsPublic(i)

\* Each public frame above the first is there for a public package of its
\* own; the others come in twos, for a package that is not, but for one.
HeightBound ==
  \A i \in Slot : i <= top =>
    IF IsPublic(i) THEN i <= PublicCount
    ELSE 1 <= PublicCount /\ i <= PublicCount + 1 + 2 * PrivateCount

HeightInv == LoadedNeeded /\ PublicBelow /\ HeightBound /\ StackSuffices

\* What is asked for is what the command line leads to.
LEMMA TakesNeeded ==
  ASSUME ProcessInv, LoadedNeeded, NEW p \in Pkgs, Takes(p)
  PROVE  p \in Needed
<1>1. TypeOK /\ Justified /\ loaded \subseteq Needed
  BY DEF ProcessInv, LoadedNeeded
<1>2. p \in Roots(input) \/ \E q \in loaded : p \in AllDeps(input, q)
  BY <1>1, TakesWanted, SameGraph DEF Result!Wanted
<1>3. Roots(input) \in SUBSET Pkgs
  BY <1>1, EdgesOfPkgs
<1> QED
  BY <1>1, <1>2, <1>3, ReachClosed DEF Needed

LEMMA CountTypes ==
  ASSUME ProcessInv, LoadedNeeded
  PROVE  /\ Public \subseteq loaded
         /\ IsFiniteSet(Public) /\ IsFiniteSet(loaded \ Public)
         /\ PublicCount \in Nat /\ PrivateCount \in Nat
         /\ Cardinality(loaded) = PublicCount + PrivateCount
<1>1. Public \subseteq loaded /\ IsFiniteSet(loaded)
  BY DEF ProcessInv, FlagsLoaded, LoadedNeeded, Public
<1>2. IsFiniteSet(Public) /\ Cardinality(loaded) \in Nat /\ Cardinality(Public) \in Nat
  BY <1>1, FS_Subset, FS_CardinalityType
<1>3. /\ IsFiniteSet(loaded \ Public)
      /\ Cardinality(loaded \ Public) = Cardinality(loaded) - Cardinality(loaded \cap Public)
  BY <1>1, FS_Difference
<1>4. loaded \cap Public = Public
  BY <1>1
<1>5. Cardinality(loaded \ Public) \in Nat
  BY <1>3, FS_CardinalityType
<1>6. Cardinality(loaded \ Public) = Cardinality(loaded) - Cardinality(Public)
  BY <1>3, <1>4
<1>7. Cardinality(loaded) = Cardinality(Public) + Cardinality(loaded \ Public)
  BY <1>2, <1>5, <1>6
<1> QED
  BY <1>1, <1>2, <1>3, <1>5, <1>7 DEF PublicCount, PrivateCount

\* What a visit does to the counts.
LEMMA VisitCounts ==
  ASSUME ProcessInv, LoadedNeeded, NEW p \in Pkgs, Takes(p), Visited(p)
  PROVE  /\ LoadedNeeded'
         /\ "PUBLIC" \in cur.flags =>
              PublicCount' = IF p \in Public THEN PublicCount ELSE PublicCount + 1
         /\ "PUBLIC" \notin cur.flags =>
              /\ PublicCount' = PublicCount
              /\ PrivateCount' = IF p \in loaded THEN PrivateCount ELSE PrivateCount + 1
<1>1. /\ Running /\ input' = input /\ loaded' = loaded \cup {p}
      /\ Public' = IF "PUBLIC" \in cur.flags THEN Public \cup {p} ELSE Public
  BY TakesFacts, VisitFlags DEF Visited, ProcessInv
<1>2. LoadedNeeded'
  <2>1. Needed' = Needed /\ p \in Needed
    BY <1>1, TakesNeeded DEF Needed
  <2>2. IsFiniteSet(loaded \cup {p})
    BY FS_AddElement DEF LoadedNeeded
  <2> QED
    BY <1>1, <2>1, <2>2 DEF LoadedNeeded
<1>3. ASSUME "PUBLIC" \in cur.flags
      PROVE  PublicCount' = IF p \in Public THEN PublicCount ELSE PublicCount + 1
  <2>1. Public' = Public \cup {p}
    BY <1>1, <1>3
  <2>2. Cardinality(Public \cup {p})
          = IF p \in Public THEN Cardinality(Public) ELSE Cardinality(Public) + 1
    BY CountTypes, FS_AddElement
  <2> QED
    BY <2>1, <2>2 DEF PublicCount
<1>4. ASSUME "PUBLIC" \notin cur.flags
      PROVE  /\ PublicCount' = PublicCount
             /\ PrivateCount' = IF p \in loaded THEN PrivateCount ELSE PrivateCount + 1
  <2>1. Public' = Public
    BY <1>1, <1>4
  <2>2. CASE p \in loaded
    <3>1. loaded' = loaded
      BY <1>1, <2>2
    <3> QED
      BY <2>1, <2>2, <3>1 DEF PublicCount, PrivateCount
  <2>3. CASE p \notin loaded
    <3>1. loaded' \ Public' = (loaded \ Public) \cup {p} /\ p \notin loaded \ Public
      BY <1>1, <2>1, <2>3, CountTypes
    <3>2. Cardinality((loaded \ Public) \cup {p}) = Cardinality(loaded \ Public) + 1
      BY <3>1, CountTypes, FS_AddElement
    <3> QED
      BY <2>1, <2>3, <3>1, <3>2 DEF PublicCount, PrivateCount
  <2> QED
    BY <2>2, <2>3
<1> QED
  BY <1>2, <1>3, <1>4

\* The two bounds on the height that a visit starts from.
LEMMA HeightAtTop ==
  ASSUME ProcessInv, LoadedNeeded, PublicBelow, HeightBound, Running
  PROVE  /\ top \in Slot /\ cur = stack[top]
         /\ IsPublic(top) => /\ top <= PublicCount
                             /\ \A i \in Slot : i <= top => IsPublic(i)
         /\ ~IsPublic(top) => /\ 1 <= PublicCount
                              /\ top <= PublicCount + 1 + 2 * PrivateCount
<1>1. TypeOK
  BY DEF ProcessInv
<1>2. top \in Slot /\ top <= top /\ \A i \in Slot : i <= top => i = top \/ i < top
  BY <1>1, CurType DEF Slot
<1> QED
  BY <1>2 DEF HeightBound, PublicBelow, cur

LEMMA VisitHeight ==
  ASSUME ProcessInv, HeightInv, NEW p \in Pkgs, Takes(p), Visited(p), Linked(p)
  PROVE  LoadedNeeded' /\ PublicBelow' /\ HeightBound'
<1>1. TypeOK /\ LoadedNeeded /\ PublicBelow /\ HeightBound /\ Running
  BY TakesFacts DEF ProcessInv, HeightInv
<1>2. /\ top \in Slot /\ top' \in Slot /\ top' >= top /\ cur = stack[top]
      /\ PublicCount \in Nat /\ PrivateCount \in Nat
      /\ Public \subseteq loaded
  BY <1>1, CurType, CountTypes DEF Visited, cur
<1>3. /\ \A i \in Slot : i <= top => (i <= top' /\ (IsPublic(i)' <=> IsPublic(i)))
      /\ \A i \in Slot : i > top /\ i <= top' /\ IsPublic(i)' => IsPublic(top)
  <2>1. ASSUME NEW i \in Slot, i <= top
        PROVE  i <= top' /\ stack'[i].flags = stack[i].flags
    <3>1. i <= top' /\ ~(i > top)
      BY <1>2, <2>1 DEF Slot
    <3> QED
      BY <1>1, <3>1, VisitNamed
  <2>2. ASSUME NEW i \in Slot, i > top, i <= top', IsPublic(i)' PROVE IsPublic(top)
    <3>1. ~(i <= top)
      BY <1>2, <2>2 DEF Slot
    <3> QED
      BY <1>1, <1>2, <2>2, <3>1, VisitNamed DEF IsPublic
  <2> QED
    BY <2>1, <2>2 DEF IsPublic
<1>4. CASE IsPublic(top)
  <2>1. /\ top <= PublicCount /\ \A i \in Slot : i <= top => IsPublic(i)
        /\ PublicCount' = IF p \in Public THEN PublicCount ELSE PublicCount + 1
    BY <1>1, <1>2, <1>4, HeightAtTop, VisitCounts DEF IsPublic
  <2>2. \/ top' = top
        \/ top' = top + 1 /\ p \notin Public /\ "PUBLIC" \in stack'[top + 1].flags
        \/ top' = top + 2 /\ p \notin Public /\ "PUBLIC" \in stack'[top + 1].flags
                                              /\ "PUBLIC" \notin stack'[top + 2].flags
    BY <1>2, <1>4 DEF Linked, Revealed, Public, VisitsRequires, VisitsPrivate, IsPublic
  <2>3. PrivateCount' \in Nat
    <3>1. IsFiniteSet(loaded \ Public)'
      <4>1. IsFiniteSet(loaded')
        BY <1>1, VisitCounts DEF LoadedNeeded
      <4> QED
        BY <4>1, FS_Difference
    <3> QED
      BY <3>1, FS_CardinalityType DEF PrivateCount
  <2>4. ASSUME NEW i \in Slot, i <= top'
        PROVE  \/ i <= top /\ IsPublic(i)' /\ i <= PublicCount'
               \/ i = top + 1 /\ IsPublic(i)' /\ i <= PublicCount'
               \/ i = top + 2 /\ i = top' /\ ~IsPublic(i)'
                    /\ i <= PublicCount' + 1 /\ 1 <= PublicCount'
    <3>1. CASE i <= top
      <4>1. i <= PublicCount'
        BY <1>2, <2>1, <3>1 DEF Slot
      <4> QED
        BY <1>3, <2>1, <3>1, <4>1
    <3>2. CASE i = top + 1 /\ "PUBLIC" \in stack'[top + 1].flags /\ p \notin Public
      <4>1. i <= PublicCount'
        BY <1>2, <2>1, <3>2 DEF Slot
      <4> QED
        BY <3>2, <4>1 DEF IsPublic
    <3>3. CASE i = top + 2 /\ i = top' /\ "PUBLIC" \notin stack'[top + 2].flags /\ p \notin Public
      <4>1. i <= PublicCount' + 1 /\ 1 <= PublicCount'
        BY <1>2, <2>1, <3>3 DEF Slot
      <4> QED
        BY <3>3, <4>1 DEF IsPublic
    <3>4. i <= top \/ (i = top + 1 /\ top' # top) \/ (i = top + 2 /\ i = top')
      BY <1>2, <2>2, <2>4 DEF Slot
    <3> QED
      BY <1>2, <2>2, <3>1, <3>2, <3>3, <3>4 DEF Slot
  <2>5. HeightBound'
    <3>1. ASSUME NEW i \in Slot, i <= top'
          PROVE  IF IsPublic(i)' THEN i <= PublicCount'
                 ELSE 1 <= PublicCount' /\ i <= PublicCount' + 1 + 2 * PrivateCount'
      <4>1. CASE IsPublic(i)' /\ i <= PublicCount'
        BY <4>1
      <4>2. CASE ~IsPublic(i)' /\ i <= PublicCount' + 1 /\ 1 <= PublicCount'
        <5>1. i \in Nat /\ PublicCount' \in Nat
          BY <1>2, <2>1 DEF Slot
        <5>2. i <= PublicCount' + 1 + 2 * PrivateCount'
          <6>1. \A a, b, c \in Nat : a <= b + 1 => a <= b + 1 + 2 * c
            OBVIOUS
          <6> QED
            BY <2>3, <4>2, <5>1, <6>1
        <5> QED
          BY <4>2, <5>2
      <4> QED
        BY <2>4, <3>1, <4>1, <4>2
    <3> QED
      BY <3>1 DEF HeightBound
  <2>6. PublicBelow'
    <3>1. ASSUME NEW i \in Slot, NEW j \in Slot, i < j, j <= top' PROVE IsPublic(i)'
      BY <1>2, <2>4, <3>1 DEF Slot
    <3> QED
      BY <3>1 DEF PublicBelow
  <2> QED
    BY <1>1, <2>5, <2>6, VisitCounts
<1>5. CASE ~IsPublic(top)
  <2>1. /\ 1 <= PublicCount /\ top <= PublicCount + 1 + 2 * PrivateCount
        /\ PublicCount' = PublicCount
        /\ PrivateCount' = IF p \in loaded THEN PrivateCount ELSE PrivateCount + 1
    BY <1>1, <1>2, <1>5, HeightAtTop, VisitCounts DEF IsPublic
  <2>2. \/ top' = top
        \/ top' = top + 2 /\ p \notin loaded
    BY <1>2, <1>5 DEF Linked, Revealed, IsPublic
  <2>3. HeightBound'
    <3>1. ASSUME NEW i \in Slot, i <= top, IsPublic(i) PROVE i <= PublicCount
      BY <1>1, <3>1 DEF HeightBound
    <3>2. ASSUME NEW i \in Slot, i <= top'
          PROVE  IF IsPublic(i)' THEN i <= PublicCount'
                 ELSE 1 <= PublicCount' /\ i <= PublicCount' + 1 + 2 * PrivateCount'
      <4>1. top' <= PublicCount' + 1 + 2 * PrivateCount' /\ PrivateCount' \in Nat
        BY <1>2, <2>1, <2>2 DEF Slot
      <4>2. IsPublic(i)' => i <= top /\ IsPublic(i)
        BY <1>2, <1>3, <1>5, <3>2 DEF Slot
      <4> QED
        BY <1>2, <2>1, <3>1, <3>2, <4>1, <4>2 DEF Slot
    <3> QED
      BY <3>2 DEF HeightBound
  <2>4. PublicBelow'
    <3>1. ASSUME NEW i \in Slot, NEW j \in Slot, i < j, j <= top', IsPublic(j)'
          PROVE  IsPublic(i)'
      <4>1. j <= top /\ i <= top
        BY <1>2, <1>3, <1>5, <3>1 DEF Slot
      <4> QED
        BY <1>1, <1>3, <3>1, <4>1 DEF PublicBelow
    <3> QED
      BY <3>1 DEF PublicBelow
  <2> QED
    BY <1>1, <2>3, <2>4, VisitCounts
<1> QED
  BY <1>4, <1>5

\* The program does not give up while less than half the slots are needed.
LEMMA DepthSuffices ==
  ASSUME ProcessInv, HeightInv, NEW p \in Pkgs, FailDepth(p),
         IsFiniteSet(Needed), 2 * Cardinality(Needed) < Cap
  PROVE  FALSE
<1>1. TypeOK /\ LoadedNeeded /\ PublicBelow /\ HeightBound /\ Takes(p) /\ Running
  BY DEF ProcessInv, HeightInv, FailDepth, Takes
<1>2. /\ top \in Slot /\ top \in Nat /\ Cap \in Nat /\ cur = stack[top]
      /\ PublicCount \in Nat /\ PrivateCount \in Nat
      /\ Public \subseteq loaded /\ loaded \subseteq Needed /\ p \in Needed
      /\ Cardinality(loaded) = PublicCount + PrivateCount
  BY <1>1, CurType, CountTypes, TakesNeeded, CapAssumption DEF cur, Slot, LoadedNeeded
<1>3. /\ IsPublic(top) => top <= PublicCount
      /\ ~IsPublic(top) => 1 <= PublicCount /\ top <= PublicCount + 1 + 2 * PrivateCount
  BY <1>1, HeightAtTop
<1>4. Cardinality(Needed) \in Nat
  BY FS_CardinalityType
<1>5. ASSUME p \notin loaded PROVE PublicCount + PrivateCount + 1 <= Cardinality(Needed)
  <2>1. loaded \cup {p} \in SUBSET Needed /\ IsFiniteSet(loaded)
    BY <1>1, <1>2 DEF LoadedNeeded
  <2>2. Cardinality(loaded \cup {p}) = Cardinality(loaded) + 1
    BY <1>5, <2>1, FS_AddElement
  <2>3. Cardinality(loaded \cup {p}) <= Cardinality(Needed)
    BY <2>1, FS_Subset
  <2> QED
    BY <1>2, <1>4, <2>2, <2>3
<1>6. ASSUME p \notin Public PROVE PublicCount + 1 <= Cardinality(Needed)
  <2>1. Public \cup {p} \in SUBSET Needed /\ IsFiniteSet(Public)
    BY <1>1, <1>2, CountTypes
  <2>2. Cardinality(Public \cup {p}) = PublicCount + 1
    BY <1>6, <2>1, FS_AddElement DEF PublicCount
  <2>3. Cardinality(Public \cup {p}) <= Cardinality(Needed)
    BY <2>1, FS_Subset
  <2> QED
    BY <1>2, <1>4, <2>2, <2>3
<1>7. CASE p \in loaded
  <2>1. IsPublic(top) /\ p \notin Public /\ ~Room(1)
    BY <1>2, <1>7 DEF FailDepth, Revealed, IsPublic, Public
  <2> QED
    BY <1>2, <1>3, <1>4, <1>6, <2>1 DEF Room
<1>8. CASE p \notin loaded
  <2>1. p \notin Public /\ ~Room(2)
    BY <1>2, <1>8 DEF FailDepth
  <2>2. CASE IsPublic(top)
    BY <1>2, <1>3, <1>4, <1>6, <2>1, <2>2 DEF Room
  <2>3. CASE ~IsPublic(top)
    BY <1>2, <1>3, <1>4, <1>5, <1>8, <2>1, <2>3 DEF Room
  <2> QED
    BY <2>2, <2>3
<1> QED
  BY <1>7, <1>8

LEMMA InitHeight == Init => HeightInv
<1> SUFFICES ASSUME Init PROVE HeightInv
  OBVIOUS
<1>1. loaded = {} /\ Public = {} /\ top = 0 /\ status = "run" /\ 0 \in Slot
  BY CapAssumption DEF Init, Public, Slot
<1>2. IsPublic(0)
  BY <1>1 DEF Init, IsPublic, ZeroFrame, Flag
<1>3. PublicCount = 0
  BY <1>1, FS_EmptySet DEF PublicCount
<1>4. \A i \in Slot : i <= top => i = 0
  BY <1>1 DEF Slot
<1>5. LoadedNeeded
  BY <1>1, FS_EmptySet DEF LoadedNeeded
<1>6. PublicBelow /\ HeightBound
  BY <1>1, <1>2, <1>3, <1>4 DEF PublicBelow, HeightBound, Slot
<1> QED
  BY <1>1, <1>5, <1>6 DEF HeightInv, StackSuffices

LEMMA NextHeight == ProcessInv /\ ProcessInv' /\ HeightInv /\ [Next]_vars => HeightInv'
<1> SUFFICES ASSUME ProcessInv, ProcessInv', HeightInv, [Next]_vars PROVE HeightInv'
  OBVIOUS
<1>1. TypeOK /\ LoadedNeeded /\ PublicBelow /\ HeightBound /\ StackSuffices
  BY DEF ProcessInv, HeightInv
<1>2. CASE Return
  <2>1. /\ UNCHANGED <<input, loaded, flags, status>>
        /\ \A i \in Slot : stack'[i].flags = stack[i].flags
        /\ \A i \in Slot : i <= top' => i <= top
    BY <1>1, <1>2, ReturnFrames
  <2>2. /\ Needed' = Needed /\ PublicCount' = PublicCount /\ PrivateCount' = PrivateCount
        /\ \A i \in Slot : IsPublic(i)' <=> IsPublic(i)
    BY <2>1 DEF Needed, PublicCount, PrivateCount, Public, IsPublic
  <2>3. LoadedNeeded' /\ PublicBelow' /\ HeightBound'
    BY <1>1, <2>1, <2>2 DEF LoadedNeeded, PublicBelow, HeightBound
  <2>4. StackSuffices'
    BY <1>1, <2>1 DEF StackSuffices
  <2> QED
    BY <2>3, <2>4 DEF HeightInv
<1>3. ASSUME UNCHANGED <<input, stack, top, loaded, flags, list>>
      PROVE  LoadedNeeded' /\ PublicBelow' /\ HeightBound' /\ Needed' = Needed
  <2>1. /\ Needed' = Needed /\ PublicCount' = PublicCount /\ PrivateCount' = PrivateCount
        /\ \A i \in Slot : IsPublic(i)' <=> IsPublic(i)
    BY <1>3 DEF Needed, PublicCount, PrivateCount, Public, IsPublic
  <2> QED
    BY <1>1, <1>3, <2>1 DEF LoadedNeeded, PublicBelow, HeightBound
<1>4. ASSUME NEW p \in Pkgs, Visit(p) PROVE HeightInv'
  <2>1. CASE Revisit(p) \/ Reveal(p) \/ Load(p) \/ LoadLeaf(p)
    <3>1. Takes(p) /\ Visited(p) /\ Linked(p)
      BY <2>1, VisitLinked
    <3>2. StackSuffices'
      BY <1>1, <3>1 DEF Visited, StackSuffices
    <3> QED
      BY <3>1, <3>2, VisitHeight DEF HeightInv
  <2>2. CASE FailLoad(p) \/ FailVersion(p)
    <3>1. UNCHANGED <<input, stack, top, loaded, flags, list>> /\ status' # "toodeep"
      BY <2>2 DEF FailLoad, FailVersion, Exit
    <3> QED
      BY <1>3, <3>1 DEF HeightInv, StackSuffices
  <2>3. CASE FailDepth(p)
    <3>1. UNCHANGED <<input, stack, top, loaded, flags, list>>
      BY <2>3 DEF FailDepth, Exit
    <3>2. ~(IsFiniteSet(Needed) /\ 2 * Cardinality(Needed) < Cap)
      BY <2>3, DepthSuffices
    <3>3. StackSuffices'
      BY <3>1, <3>2 DEF StackSuffices, Needed
    <3> QED
      BY <1>3, <3>1, <3>3 DEF HeightInv
  <2> QED
    BY <1>4, <2>1, <2>2, <2>3 DEF Visit
<1>5. CASE Finish
  <2>1. UNCHANGED <<input, stack, top, loaded, flags, list>> /\ status' # "toodeep"
    BY <1>5 DEF Finish
  <2> QED
    BY <1>3, <2>1 DEF HeightInv, StackSuffices
<1>6. CASE UNCHANGED vars
  <2>1. UNCHANGED <<input, stack, top, loaded, flags, list>> /\ status' = status
    BY <1>6 DEF vars
  <2> QED
    BY <1>1, <1>3, <2>1 DEF HeightInv, StackSuffices, Needed
<1> QED
  BY <1>2, <1>4, <1>5, <1>6 DEF Next, Stopped

(***************************************************************************)
(* process() never fails for want of stack while twice the number of       *)
(* packages that the command line leads to is less than the size of the    *)
(* stack, whatever the packages require: failmaxrecurse() is only met by   *)
(* an invocation that involves 128 packages or more.                       *)
(***************************************************************************)
THEOREM StackIsEnough == Spec => []StackSuffices
<1>1. HeightInv => StackSuffices
  BY DEF HeightInv
<1> QED
  BY <1>1, ProcessInvariant, InitHeight, NextHeight, PTL DEF Spec

-----------------------------------------------------------------------------
(***************************************************************************)
(* How far a package is from the command line.                             *)
(***************************************************************************)

\* A set of packages with all that they require, and the sets that result
\* from growing the command line up to n times.
Grown(S)   == S \cup UNION {AllDeps(input, p) : p \in S}
Balls(g, n) == g = [k \in 0 .. n |-> IF k = 0 THEN Roots(input) ELSE Grown(g[k-1])]

\* Induction over the natural numbers: a set with 0 that holds the successor
\* of whatever it holds has them all, as there is no least one it lacks.
LEMMA NaturalsFrom0 ==
  ASSUME NEW S, 0 \in S, \A n \in Nat : n \in S => n + 1 \in S
  PROVE  Nat \subseteq S
<1> SUFFICES ASSUME Nat \ S # {} PROVE FALSE
  OBVIOUS
<1>1. PICK x \in Nat \ S : \A y \in Nat \ S : ~(<<y, x>> \in OpToRel(<, Nat))
  <2>1. Nat \ S \subseteq Nat
    OBVIOUS
  <2> QED
    BY <2>1, NatLessThanWellFounded, WFMin, Zenon
<1>2. \A y \in Nat \ S : ~(y < x)
  BY <1>1 DEF OpToRel
<1>3. x # 0
  OBVIOUS
<1>4. x - 1 \in Nat /\ x - 1 < x /\ (x - 1) + 1 = x
  BY <1>3
<1>5. x - 1 \in S
  BY <1>2, <1>4
<1> QED
  BY <1>4, <1>5

LEMMA BallsExist == \A n \in Nat : \E g : Balls(g, n)
<1> DEFINE S == {n \in Nat : \E g : Balls(g, n)}
<1>1. 0 \in S
  <2> DEFINE g == [k \in 0 .. 0 |-> Roots(input)]
  <2>1. g = [k \in 0 .. 0 |-> IF k = 0 THEN Roots(input) ELSE Grown(g[k-1])]
    OBVIOUS
  <2> HIDE DEF g
  <2>2. Balls(g, 0)
    BY <2>1 DEF Balls
  <2> QED
    BY <2>2
<1>2. ASSUME NEW n \in Nat, n \in S PROVE n + 1 \in S
  <2>1. PICK g : Balls(g, n)
    BY <1>2
  <2> DEFINE h == [k \in 0 .. n + 1 |-> IF k = n + 1 THEN Grown(g[n]) ELSE g[k]]
  <2>2. \A k \in 0 .. n : g[k] = IF k = 0 THEN Roots(input) ELSE Grown(g[k-1])
    BY <2>1 DEF Balls
  <2>3. \A k \in 0 .. n + 1 : h[k] = IF k = 0 THEN Roots(input) ELSE Grown(h[k-1])
    <3>1. \A k \in 0 .. n + 1 : k = n + 1 \/ k \in 0 .. n
      OBVIOUS
    <3>2. \A k \in 0 .. n : k \in 0 .. n + 1 /\ k # n + 1 /\ h[k] = g[k]
      OBVIOUS
    <3>3. h[n + 1] = Grown(g[n])
      OBVIOUS
    <3> HIDE DEF h
    <3>4. h[n + 1] = Grown(h[(n + 1) - 1]) /\ n + 1 # 0
      BY <3>2, <3>3
    <3>5. ASSUME NEW k \in 0 .. n PROVE h[k] = IF k = 0 THEN Roots(input) ELSE Grown(h[k-1])
      <4>1. k # 0 => k - 1 \in 0 .. n
        OBVIOUS
      <4> QED
        BY <2>2, <3>2, <4>1
    <3> QED
      BY <3>1, <3>4, <3>5
  <2>4. h = [k \in 0 .. n + 1 |-> IF k = 0 THEN Roots(input) ELSE Grown(h[k-1])]
    BY <2>3
  <2> HIDE DEF h
  <2>5. Balls(h, n + 1)
    BY <2>4 DEF Balls
  <2> QED
    BY <2>5
<1>3. Nat \subseteq S
  <2> HIDE DEF S
  <2> QED
    BY <1>1, <1>2, NaturalsFrom0
<1> QED
  BY <1>3

LEMMA BallsAgree ==
  ASSUME NEW g, NEW h, NEW n \in Nat, NEW m \in Nat, Balls(g, n), Balls(h, m)
  PROVE  \A k \in Nat : k <= n /\ k <= m => g[k] = h[k]
<1> DEFINE S == {k \in Nat : k <= n /\ k <= m => g[k] = h[k]}
<1>1. /\ \A k \in 0 .. n : g[k] = IF k = 0 THEN Roots(input) ELSE Grown(g[k-1])
      /\ \A k \in 0 .. m : h[k] = IF k = 0 THEN Roots(input) ELSE Grown(h[k-1])
  BY DEF Balls
<1>2. 0 \in S
  BY <1>1
<1>3. ASSUME NEW k \in Nat, k \in S PROVE k + 1 \in S
  <2>1. ASSUME k + 1 <= n, k + 1 <= m PROVE g[k+1] = h[k+1]
    <3>1. g[k] = h[k] /\ k + 1 \in 0 .. n /\ k + 1 \in 0 .. m /\ (k + 1) - 1 = k /\ k + 1 # 0
      BY <1>3, <2>1
    <3>2. g[k+1] = Grown(g[k]) /\ h[k+1] = Grown(h[k])
      BY <1>1, <3>1
    <3> QED
      BY <3>1, <3>2
  <2> QED
    BY <2>1
<1>4. Nat \subseteq S
  <2> HIDE DEF S
  <2> QED
    BY <1>2, <1>3, NaturalsFrom0
<1> QED
  BY <1>4

\* The recursive definition of Within says what it seems to say.
LEMMA WithinSteps ==
  /\ Within(0) = Roots(input)
  /\ \A n \in Nat : Within(n + 1) = Grown(Within(n))
<1> DEFINE b(n) == CHOOSE g : Balls(g, n)
<1>1. ASSUME NEW n \in Nat PROVE Balls(b(n), n)
  BY BallsExist
<1>2. ASSUME NEW n PROVE Within(n) = b(n)[n]
  BY DEF Within, Balls, Grown
<1> HIDE DEF b
<1>3. \A n \in Nat : \A k \in 0 .. n :
        b(n)[k] = IF k = 0 THEN Roots(input) ELSE Grown(b(n)[k-1])
  BY <1>1 DEF Balls
<1>4. Within(0) = Roots(input)
  BY <1>2, <1>3
<1>5. ASSUME NEW n \in Nat PROVE Within(n + 1) = Grown(Within(n))
  <2>1. n + 1 \in 0 .. n + 1 /\ (n + 1) - 1 = n /\ n + 1 # 0 /\ n + 1 \in Nat
        /\ n <= n /\ n <= n + 1
    OBVIOUS
  <2>2. b(n + 1)[n + 1] = Grown(b(n + 1)[n])
    BY <1>3, <2>1
  <2>3. b(n + 1)[n] = b(n)[n]
    BY <1>1, <2>1, BallsAgree
  <2> QED
    BY <1>2, <2>2, <2>3
<1> QED
  BY <1>4, <1>5

LEMMA WithinGrows ==
  ASSUME NEW m \in Nat, NEW n \in Nat, m <= n
  PROVE  Within(m) \subseteq Within(n)
<1> DEFINE S == {k \in Nat : Within(m) \subseteq Within(m + k)}
<1>1. 0 \in S
  OBVIOUS
<1>2. ASSUME NEW k \in Nat, k \in S PROVE k + 1 \in S
  <2>1. m + k \in Nat /\ m + (k + 1) = (m + k) + 1
    OBVIOUS
  <2>2. Within(m + (k + 1)) = Grown(Within(m + k))
    BY <2>1, WithinSteps
  <2> QED
    BY <1>2, <2>2 DEF Grown
<1>3. Nat \subseteq S
  <2> HIDE DEF S
  <2> QED
    BY <1>1, <1>2, NaturalsFrom0
<1>4. n - m \in Nat /\ m + (n - m) = n
  OBVIOUS
<1> QED
  BY <1>3, <1>4

-----------------------------------------------------------------------------
(***************************************************************************)
(* The depth limit.                                                        *)
(***************************************************************************)

\* How far the depth limit, or the absence of a traversal, lets it go.
Allowed ==
  IF ~input.recursive \/ input.maxdepth = 0 THEN Roots(input) ELSE Within(input.maxdepth - 1)

DepthInv ==
  /\ \A i \in Slot : i <= top =>
       /\ Named(stack[i].specs) \subseteq Within(stack[i].depth)
       /\ stack[i].depth = 0 \/ (input.recursive /\ stack[i].depth < input.maxdepth)
  /\ loaded \subseteq Allowed

\* A spec that is as far away as the limit allows names a package that may
\* be loaded.
LEMMA WithinAllowed ==
  ASSUME TypeOK, NEW d \in Nat, d = 0 \/ (input.recursive /\ d < input.maxdepth)
  PROVE  Within(d) \subseteq Allowed
<1>1. input.maxdepth \in Nat
  BY InputSpecs DEF TypeOK
<1>2. CASE ~input.recursive \/ input.maxdepth = 0
  <2>1. d = 0
    BY <1>1, <1>2
  <2> QED
    BY <1>2, <2>1, WithinSteps DEF Allowed
<1>3. CASE input.recursive /\ input.maxdepth # 0
  <2>1. input.maxdepth - 1 \in Nat /\ d <= input.maxdepth - 1
    BY <1>1, <1>3
  <2>2. Within(d) \subseteq Within(input.maxdepth - 1)
    BY <2>1, WithinGrows
  <2> QED
    BY <1>3, <2>2 DEF Allowed
<1> QED
  BY <1>2, <1>3

LEMMA VisitDepth ==
  ASSUME TypeOK, DepthInv, NEW p \in Pkgs, Takes(p), Visited(p), top' = top \/ Deeper
  PROVE  DepthInv'
<1>1. /\ Running /\ top \in Slot /\ top <= top /\ top' \in Slot
      /\ input' = input /\ loaded' = loaded \cup {p}
      /\ cur = stack[top] /\ cur.depth \in Nat /\ p \in Named(cur.specs)
      /\ \A i \in Slot : stack[i] \in Frame /\ stack[i].depth \in Nat
  <2>1. \A i \in Slot : stack[i] \in Frame
    BY DEF TypeOK
  <2>2. Running /\ input' = input /\ loaded' = loaded \cup {p} /\ top' \in Slot
        /\ p \in Named(cur.specs)
    BY TakesFacts DEF Visited
  <2>3. top \in Slot /\ top <= top /\ cur.depth \in Nat
    BY <2>2, CurType DEF Slot
  <2> QED
    BY <2>1, <2>2, <2>3, FrameFields DEF cur
<1>2. /\ (\A n : Within(n)' = Within(n)) /\ Allowed' = Allowed
  BY <1>1 DEF Within, Allowed
<1>3. p \in Within(cur.depth) /\ p \in Allowed
  <2>1. /\ p \in Within(cur.depth)
        /\ cur.depth = 0 \/ (input.recursive /\ cur.depth < input.maxdepth)
    BY <1>1 DEF DepthInv
  <2> QED
    BY <1>1, <2>1, WithinAllowed
<1>4. AllDeps(input, p) \subseteq Within(cur.depth + 1)
  BY <1>1, <1>3, WithinSteps DEF Grown
<1>5. ASSUME NEW i \in Slot, i <= top'
      PROVE  /\ Named(stack'[i].specs) \subseteq Within(stack'[i].depth)
             /\ stack'[i].depth = 0 \/ (input.recursive /\ stack'[i].depth < input.maxdepth)
  <2>1. CASE /\ i <= top /\ Named(stack'[i].specs) \subseteq Named(stack[i].specs)
             /\ stack'[i].depth = stack[i].depth
    BY <2>1 DEF DepthInv
  <2>2. CASE /\ stack'[i].depth = cur.depth + 1 /\ i > top
             /\ Named(stack'[i].specs) \subseteq AllDeps(input, p)
    <3>1. top' # top
      BY <1>1, <1>5, <2>2 DEF Slot
    <3>2. input.recursive /\ cur.depth + 1 < input.maxdepth
      BY <3>1 DEF Deeper
    <3> QED
      BY <1>4, <2>2, <3>2
  <2> QED
    BY <1>5, <2>1, <2>2, VisitNamed DEF AllDeps, PublicDeps
<1> QED
  BY <1>1, <1>2, <1>3, <1>5 DEF DepthInv

LEMMA InitDepth == Init => DepthInv
<1> SUFFICES ASSUME Init PROVE DepthInv
  OBVIOUS
<1>1. loaded = {} /\ top = 0 /\ 0 \in Slot
  BY CapAssumption DEF Init, Slot
<1>2. stack[0].specs = input.roots /\ stack[0].depth = 0
  BY <1>1 DEF Init, ZeroFrame
<1>3. \A i \in Slot : i <= top => i = 0
  BY <1>1 DEF Slot
<1> QED
  BY <1>1, <1>2, <1>3, WithinSteps DEF DepthInv, Roots

LEMMA NextDepth == ProcessInv /\ ProcessInv' /\ DepthInv /\ [Next]_vars => DepthInv'
<1> SUFFICES ASSUME ProcessInv, ProcessInv', DepthInv, [Next]_vars PROVE DepthInv'
  OBVIOUS
<1>1. TypeOK
  BY DEF ProcessInv
<1>2. CASE Return
  <2>1. /\ input' = input /\ loaded' = loaded
        /\ \A i \in Slot : stack'[i].specs = stack[i].specs /\ stack'[i].depth = stack[i].depth
        /\ \A i \in Slot : i <= top' => i <= top
    BY <1>1, <1>2, ReturnFrames
  <2>2. (\A n : Within(n)' = Within(n)) /\ Allowed' = Allowed
    BY <2>1 DEF Within, Allowed
  <2> QED
    BY <2>1, <2>2 DEF DepthInv
<1>3. ASSUME UNCHANGED <<input, stack, top, loaded, flags, list>> PROVE DepthInv'
  <2>1. (\A n : Within(n)' = Within(n)) /\ Allowed' = Allowed
    BY <1>3 DEF Within, Allowed
  <2> QED
    BY <1>3, <2>1 DEF DepthInv
<1>4. ASSUME NEW p \in Pkgs, Visit(p) PROVE DepthInv'
  <2>1. CASE Revisit(p) \/ Reveal(p) \/ Load(p) \/ LoadLeaf(p)
    <3>1. Takes(p) /\ Visited(p)
      BY <2>1, VisitLinked
    <3>2. top' = top \/ Deeper
      BY <2>1 DEF Revisit, Reveal, Load, LoadLeaf
    <3> QED
      BY <1>1, <3>1, <3>2, VisitDepth
  <2>2. CASE FailLoad(p) \/ FailVersion(p) \/ FailDepth(p)
    BY <1>3, <2>2 DEF FailLoad, FailVersion, FailDepth, Exit
  <2> QED
    BY <1>4, <2>1, <2>2 DEF Visit
<1>5. CASE Finish \/ UNCHANGED vars
  BY <1>3, <1>5 DEF Finish, vars
<1> QED
  BY <1>2, <1>4, <1>5 DEF Next, Stopped

(***************************************************************************)
(* The limits of the options are kept: no package is loaded that is        *)
(* further from the command line than --maximum-traverse-depth allows, and *)
(* none but those of the command line when the traversal is turned off.    *)
(***************************************************************************)
THEOREM DepthLimited == Spec => []DepthRespected
<1>1. DepthInv => DepthRespected
  BY DEF DepthInv, Allowed, DepthRespected
<1> QED
  BY <1>1, ProcessInvariant, InitDepth, NextDepth, PTL DEF Spec

=============================================================================
