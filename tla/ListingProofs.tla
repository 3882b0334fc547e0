---------------------------- MODULE ListingProofs ---------------------------
(***************************************************************************)
(* Proofs about Search and Listing: whatever the size of the memory, the   *)
(* directories and the files, no two objects that list() has in use        *)
(* overlap, the search list is in the order of the options, and            *)
(* findpackage() takes the first file that there is.                       *)
(***************************************************************************)
EXTENDS Listing, SequenceTheorems, FiniteSetTheorems, WellFoundedInduction, TLAPS

Region == {r \in [beg : Nat, end : Nat] : r.beg <= r.end}
Object == {o \in [lo : Nat, hi : Nat] : o.lo <= o.hi}

Apart(x, y) == x.hi <= y.lo \/ y.hi <= x.lo \/ x.lo = x.hi \/ y.lo = y.hi

AllApart(s) == \A i, j \in 1 .. Len(s) : i < j => Apart(s[i], s[j])

\* All objects are between two places, or none is.
Within(s, low, high)  == \A i \in 1 .. Len(s) : low <= s[i].lo /\ s[i].hi <= high
Outside(s, low, high) == \A i \in 1 .. Len(s) : s[i].hi <= low \/ s[i].lo >= high

Objects(s, whole, free) ==
  /\ s \in Seq(Object)
  /\ AllApart(s)
  /\ Within(s, whole.beg, whole.end)
  /\ Outside(s, free.beg, free.end)

Inside(r, whole) == r.beg >= whole.beg /\ r.end <= whole.end

(***************************************************************************)
(* What is in use for the directory lies outside of the arena for the      *)
(* directory, and what is in use for the file lies within it, but outside  *)
(* of the arena for the file.                                              *)
(***************************************************************************)
MemoryInv ==
  /\ shelf.memory \in Nat
  /\ scratch \in Region /\ temp \in Region
  /\ Inside(scratch, Arena)
  /\ Objects(here, Arena, scratch)
  /\ Objects(now, scratch, temp)

PhaseInv ==
  /\ phase = "file" => len \in Nat /\ len <= Room(temp)
  /\ phase \in {"file", "parse"} => Inside(temp, scratch)
  /\ phase \notin {"files", "file", "parse", "undefined", "oom"} => now = <<>>

ListingInv == MemoryInv /\ PhaseInv

-----------------------------------------------------------------------------
LEMMA NoObjects == ASSUME NEW whole, NEW free PROVE Objects(<<>>, whole, free)
BY DEF Objects, AllApart, Within, Outside

\* An object more, in what was free.
LEMMA OneMore ==
  ASSUME NEW s, NEW whole \in Region, NEW free \in Region, NEW left \in Region,
         NEW o \in Object,
         Objects(s, whole, free), Inside(free, whole), Inside(left, free),
         free.beg <= o.lo, o.hi <= free.end,
         o.hi <= left.beg \/ o.lo >= left.end
  PROVE  Objects(Append(s, o), whole, left)
<1> DEFINE t == Append(s, o)
<1>1. s \in Seq(Object) /\ Len(s) \in Nat
  BY DEF Objects
<1>2. t \in Seq(Object) /\ Len(t) = Len(s) + 1 /\ t[Len(s) + 1] = o
      /\ \A i \in 1 .. Len(s) : t[i] = s[i]
  BY <1>1
<1>3. \A i \in 1 .. Len(t) : i \in 1 .. Len(s) \/ i = Len(s) + 1
  BY <1>1, <1>2
<1>4. \A i \in 1 .. Len(s) : s[i] \in Object
  BY <1>1
<1> HIDE DEF t
<1>5. /\ whole.beg \in Nat /\ whole.end \in Nat /\ free.beg \in Nat /\ free.end \in Nat
      /\ left.beg \in Nat /\ left.end \in Nat /\ o.lo \in Nat /\ o.hi \in Nat
      /\ \A i \in 1 .. Len(s) : s[i].lo \in Nat /\ s[i].hi \in Nat
  BY <1>4 DEF Region, Object
<1>6. AllApart(t)
  <2> SUFFICES ASSUME NEW i \in 1 .. Len(t), NEW j \in 1 .. Len(t), i < j
               PROVE  Apart(t[i], t[j])
    BY DEF AllApart
  <2>1. i \in 1 .. Len(s)
    BY <1>1, <1>2
  <2>2. CASE j \in 1 .. Len(s)
    BY <1>2, <2>1, <2>2 DEF Objects, AllApart
  <2>3. CASE j = Len(s) + 1
    <3>1. s[i].hi <= free.beg \/ s[i].lo >= free.end
      BY <2>1 DEF Objects, Outside
    <3>2. s[i].hi <= o.lo \/ o.hi <= s[i].lo
      BY <1>5, <2>1, <3>1, SMTT(30)
    <3> QED
      BY <1>2, <2>1, <2>3, <3>2 DEF Apart
  <2> QED
    BY <1>3, <2>2, <2>3
<1>7. Within(t, whole.beg, whole.end)
  <2>1. whole.beg <= o.lo /\ o.hi <= whole.end
    BY <1>5 DEF Inside
  <2> QED
    BY <1>2, <1>3, <2>1 DEF Objects, Within
<1>8. Outside(t, left.beg, left.end)
  <2>1. \A i \in 1 .. Len(s) : s[i].hi <= left.beg \/ s[i].lo >= left.end
    BY <1>5, SMTT(30) DEF Objects, Outside, Inside
  <2> QED
    BY <1>2, <1>3, <2>1 DEF Outside
<1> QED
  BY <1>2, <1>6, <1>7, <1>8 DEF Objects, t

\* Less is free than before.
LEMMA LessFree ==
  ASSUME NEW s, NEW whole \in Region, NEW free \in Region, NEW left \in Region,
         Objects(s, whole, free), Inside(left, free)
  PROVE  Objects(s, whole, left)
<1>1. /\ free.beg \in Nat /\ free.end \in Nat /\ left.beg \in Nat /\ left.end \in Nat
  BY DEF Region
<1>2. \A i \in 1 .. Len(s) : s[i].lo \in Nat /\ s[i].hi \in Nat
  <2>1. \A i \in 1 .. Len(s) : s[i] \in Object
    BY DEF Objects
  <2> QED
    BY <2>1 DEF Object
<1>3. Outside(s, left.beg, left.end)
  <2>1. \A i \in 1 .. Len(s) : s[i].hi <= free.beg \/ s[i].lo >= free.end
    BY DEF Objects, Outside
  <2> QED
    BY <1>1, <1>2, <2>1 DEF Outside, Inside
<1> QED
  BY <1>3 DEF Objects

LEMMA AllocAtEnd ==
  ASSUME NEW r \in Region, NEW n \in Nat, Room(r) >= n
  PROVE  /\ Alloc(r, n) \in Region /\ Inside(Alloc(r, n), r)
         /\ AtEnd(r, n) \in Object
         /\ r.beg <= AtEnd(r, n).lo /\ AtEnd(r, n).hi <= r.end
         /\ AtEnd(r, n).lo >= Alloc(r, n).end
         /\ Room(Alloc(r, n)) = Room(r) - n
<1>1. r = [beg |-> r.beg, end |-> r.end] /\ r.beg \in Nat /\ r.end \in Nat
  BY DEF Region
<1>2. Alloc(r, n) = [beg |-> r.beg, end |-> r.end - n]
  BY <1>1 DEF Alloc
<1>3. r.end - n \in Nat /\ r.beg <= r.end - n /\ r.end - n <= r.end
  BY <1>1 DEF Room
<1> QED
  BY <1>1, <1>2, <1>3 DEF Region, Inside, AtEnd, Object, Room

LEMMA ClaimedAtBeg ==
  ASSUME NEW r \in Region, NEW n \in Nat, Room(r) >= n
  PROVE  /\ Extended(r, n) \in Region /\ Inside(Extended(r, n), r)
         /\ AtBeg(r, n) \in Object
         /\ r.beg <= AtBeg(r, n).lo /\ AtBeg(r, n).hi <= r.end
         /\ AtBeg(r, n).hi <= Extended(r, n).beg
         /\ Room(Extended(r, n)) = Room(r) - n
<1>1. r = [beg |-> r.beg, end |-> r.end] /\ r.beg \in Nat /\ r.end \in Nat
  BY DEF Region
<1>2. Extended(r, n) = [beg |-> r.beg + n, end |-> r.end]
  BY <1>1 DEF Extended
<1>3. r.beg + n \in Nat /\ r.beg + n <= r.end /\ r.beg <= r.beg + n
  BY <1>1 DEF Room
<1> QED
  BY <1>1, <1>2, <1>3 DEF Region, Inside, AtBeg, Object, Room

LEMMA InsideTrans ==
  ASSUME NEW r \in Region, NEW s \in Region, NEW t \in Region, Inside(r, s), Inside(s, t)
  PROVE  Inside(r, t)
BY DEF Region, Inside

LEMMA InsideSelf == ASSUME NEW r \in Region PROVE Inside(r, r)
BY DEF Region, Inside

-----------------------------------------------------------------------------
LEMMA InitInv == InitListing => ListingInv
<1> SUFFICES ASSUME InitListing PROVE ListingInv
  OBVIOUS
<1>1. shelf \in Shelf
  <2>1. Bare \in Shelf
    BY DEF Bare, Shelf
  <2> QED
    BY <2>1, ShelvesAssumption DEF InitListing
<1>2. shelf.memory \in Nat
  BY <1>1 DEF Shelf
<1>3. Arena \in Region
  BY <1>2 DEF Arena, Region
<1>4. scratch = Arena /\ temp = Arena /\ here = <<>> /\ now = <<>> /\ phase = "options"
  BY DEF InitListing, Init
<1>5. MemoryInv
  BY <1>2, <1>3, <1>4, NoObjects, InsideSelf DEF MemoryInv
<1>6. PhaseInv
  BY <1>4 DEF PhaseInv
<1> QED
  BY <1>5, <1>6 DEF ListingInv

LEMMA SameMemory ==
  ASSUME MemoryInv, UNCHANGED <<shelf, scratch, temp, here, now>>
  PROVE  MemoryInv'
<1>1. Arena' = Arena
  BY DEF Arena
<1> QED
  BY <1>1 DEF MemoryInv

\* A step of findpackage(), or one that only goes on elsewhere.
LEMMA PhaseStep ==
  ASSUME ListingInv, UNCHANGED <<shelf, scratch, temp, here, now>>,
         \/ phase' = "oom"
         \/ phase' \notin {"files", "file", "parse", "oom", "undefined"} /\ now = <<>>
         \/ phase' \in {"files", "undefined"}
         \/ phase' = phase /\ UNCHANGED len
  PROVE  ListingInv'
<1>1. MemoryInv'
  BY SameMemory DEF ListingInv
<1>2. PhaseInv'
  BY DEF ListingInv, PhaseInv, Room, Inside
<1> QED
  BY <1>1, <1>2 DEF ListingInv

LEMMA SearchInv == ListingInv /\ Next /\ UNCHANGED shelfvars => ListingInv'
<1> SUFFICES ASSUME ListingInv, Next, UNCHANGED shelfvars PROVE ListingInv'
  OBVIOUS
<1>1. UNCHANGED <<shelf, scratch, temp, here, now, len>>
  BY DEF shelfvars
<1>2. phase \notin {"files", "file", "parse", "oom", "undefined"}
  BY DEF Next, PrependPath, PrependNothing, StartSearch, LookDirect, Look, NotFound, Check,
         Stopped, Failed
<1>3. now = <<>>
  BY <1>2 DEF ListingInv, PhaseInv
<1>4. \/ phase' = phase
      \/ phase' \notin {"files", "file", "parse", "oom", "undefined"}
  BY DEF Next, PrependPath, PrependNothing, StartSearch, LookDirect, Look, NotFound, Check,
         Stopped, vars, Taken, Read
<1> QED
  BY <1>1, <1>3, <1>4, PhaseStep

LEMMA TwoObjects ==
  ASSUME NEW x \in Object, NEW y \in Object, NEW whole, NEW free, Apart(x, y),
         whole.beg <= x.lo, x.hi <= whole.end, whole.beg <= y.lo, y.hi <= whole.end,
         x.hi <= free.beg, y.lo >= free.end
  PROVE  Objects(<<x, y>>, whole, free)
<1> DEFINE s == <<x, y>>
<1>1. s \in Seq(Object) /\ Len(s) = 2 /\ s[1] = x /\ s[2] = y
  OBVIOUS
<1> HIDE DEF s
<1>2. \A i \in 1 .. Len(s) : i = 1 \/ i = 2
  BY <1>1
<1>3. Within(s, whole.beg, whole.end)
  BY <1>1, <1>2 DEF Within
<1>4. Outside(s, free.beg, free.end)
  BY <1>1, <1>2 DEF Outside
<1>5. ASSUME NEW i \in 1 .. Len(s), NEW j \in 1 .. Len(s), i < j
      PROVE  Apart(s[i], s[j])
  <2>1. i = 1 /\ j = 2
    BY <1>2, <1>5
  <2> QED
    BY <1>1, <2>1
<1>6. AllApart(s)
  BY <1>5 DEF AllApart
<1> QED
  BY <1>1, <1>3, <1>4, <1>6 DEF Objects, s

LEMMA OpenDirInv == ListingInv /\ OpenDir => ListingInv'
<1> SUFFICES ASSUME ListingInv, OpenDir PROVE ListingInv'
  OBVIOUS
<1> DEFINE named  == Extended(Arena, 1)
           size   == IF Buffered THEN 1 ELSE 0
           opened == Alloc(named, size)
           path   == AtBeg(Arena, 1)
           buffer == AtEnd(named, size)
<1>1. CASE Oom
  BY <1>1, PhaseStep DEF Oom, shelfvars
<1>2. CASE ~Oom
  <2>1. /\ FitsText(Arena, 1) /\ phase = "dir"
        /\ scratch' = opened /\ here' = <<path, buffer>>
        /\ phase' \in {"entries", "files"} /\ UNCHANGED <<shelf, temp, now, len>>
    BY <1>2 DEF OpenDir
  <2>2. now = <<>>
    BY <2>1 DEF ListingInv, PhaseInv
  <2>3. Arena \in Region /\ Arena' = Arena /\ shelf'.memory \in Nat /\ temp' \in Region
    BY <2>1 DEF ListingInv, MemoryInv, Arena, Region
  <2>4. Room(Arena) \in Nat /\ Room(Arena) >= 2
    BY <2>1, <2>3 DEF FitsText, Room, Region
  <2>5. size \in {0, 1}
    OBVIOUS
  <2> HIDE DEF size
  <2>6. /\ named \in Region /\ Inside(named, Arena) /\ path \in Object
        /\ Arena.beg <= path.lo /\ path.hi <= Arena.end /\ path.hi <= named.beg
        /\ Room(named) = Room(Arena) - 1
    <3>1. 1 \in Nat /\ Room(Arena) >= 1
      BY <2>4
    <3> QED
      BY <2>3, <3>1, ClaimedAtBeg
  <2> HIDE DEF named, path
  <2>7. /\ opened \in Region /\ Inside(opened, named) /\ buffer \in Object
        /\ named.beg <= buffer.lo /\ buffer.hi <= named.end /\ buffer.lo >= opened.end
    <3>1. size \in Nat /\ Room(named) >= size
      BY <2>4, <2>5, <2>6
    <3> QED
      BY <2>6, <3>1, AllocAtEnd
  <2> HIDE DEF opened, buffer
  <2>8. /\ path.lo \in Nat /\ path.hi \in Nat /\ buffer.lo \in Nat /\ buffer.hi \in Nat
        /\ named.beg \in Nat /\ named.end \in Nat /\ opened.beg \in Nat /\ opened.end \in Nat
        /\ Arena.beg \in Nat /\ Arena.end \in Nat
    BY <2>3, <2>6, <2>7 DEF Object, Region
  <2>9. Objects(<<path, buffer>>, Arena, opened)
    <3>1. /\ Arena.beg <= buffer.lo /\ buffer.hi <= Arena.end
          /\ path.hi <= opened.beg /\ path.hi <= buffer.lo
      BY <2>6, <2>7, <2>8 DEF Inside
    <3>2. Apart(path, buffer)
      BY <3>1 DEF Apart
    <3> QED
      BY <2>6, <2>7, <3>1, <3>2, TwoObjects
  <2>10. Inside(opened, Arena)
    BY <2>3, <2>6, <2>7, InsideTrans
  <2>11. MemoryInv'
    <3>1. Objects(<<path, buffer>>, Arena, opened) /\ Objects(<<>>, opened, temp)
      BY <2>9, NoObjects
    <3> QED
      BY <2>1, <2>2, <2>3, <2>7, <2>10, <3>1 DEF MemoryInv
  <2>12. PhaseInv'
    BY <2>1, <2>2 DEF PhaseInv
  <2> QED
    BY <2>11, <2>12 DEF ListingInv
<1> QED
  BY <1>1, <1>2

LEMMA TakeEntryInv == ListingInv /\ TakeEntry => ListingInv'
<1> SUFFICES ASSUME ListingInv, TakeEntry PROVE ListingInv'
  OBVIOUS
<1> DEFINE names == AtEnd(scratch, 2)
<1>1. CASE Oom
  BY <1>1, PhaseStep DEF Oom, shelfvars
<1>2. phase = "entries" /\ now = <<>>
  BY DEF TakeEntry, ListingInv, PhaseInv
<1>3. CASE UNCHANGED <<shelf, scratch, temp, here, now, len, phase>>
  BY <1>2, <1>3, PhaseStep
<1>4. CASE /\ Room(scratch) >= 2
           /\ here' = Append(here, names)
           /\ scratch' = Alloc(scratch, 2)
           /\ UNCHANGED <<shelf, temp, now, len, phase>>
  <2>1. /\ scratch \in Region /\ Arena \in Region /\ Arena' = Arena
        /\ Inside(scratch, Arena) /\ Objects(here, Arena, scratch)
    BY <1>4 DEF ListingInv, MemoryInv, Arena, Region
  <2>2. /\ scratch' \in Region /\ Inside(scratch', scratch) /\ names \in Object
        /\ scratch.beg <= names.lo /\ names.hi <= scratch.end /\ names.lo >= scratch'.end
    BY <1>4, <2>1, AllocAtEnd
  <2> HIDE DEF names
  <2>3. Objects(here', Arena, scratch')
    BY <1>4, <2>1, <2>2, OneMore
  <2>4. Inside(scratch', Arena)
    BY <2>1, <2>2, InsideTrans
  <2>5. Objects(now', scratch', temp')
    BY <1>2, <1>4, NoObjects
  <2>6. MemoryInv'
    BY <1>4, <2>1, <2>2, <2>3, <2>4, <2>5 DEF ListingInv, MemoryInv
  <2>7. PhaseInv'
    BY <1>2, <1>4 DEF PhaseInv
  <2> QED
    BY <2>6, <2>7 DEF ListingInv
<1>5. Room(scratch) \in Int
  BY DEF ListingInv, MemoryInv, Region, Room
<1> QED
  BY <1>1, <1>3, <1>4, <1>5 DEF TakeEntry

LEMMA OpenFileInv == ListingInv /\ OpenFile => ListingInv'
<1> SUFFICES ASSUME ListingInv, OpenFile PROVE ListingInv'
  OBVIOUS
<1> DEFINE path == AtEnd(scratch, 1)
<1>1. CASE Oom
  BY <1>1, PhaseStep DEF Oom, shelfvars
<1>2. CASE ~Oom
  <2>1. /\ temp' = Alloc(scratch, 1) /\ now' = <<path>> /\ len' = 0
        /\ phase' \in {"file", "files"} /\ UNCHANGED <<shelf, scratch, here>>
    BY <1>2 DEF OpenFile, Temp, SkipFile
  <2>2. /\ scratch \in Region /\ Arena \in Region /\ Arena' = Arena /\ Room(scratch) \in Int
    BY <2>1 DEF ListingInv, MemoryInv, Arena, Region, Room
  <2>3. Room(scratch) >= 1 /\ 1 \in Nat
    BY <1>2, <2>2 DEF OpenFile, Temp
  <2>4. /\ temp' \in Region /\ Inside(temp', scratch) /\ path \in Object
        /\ scratch.beg <= path.lo /\ path.hi <= scratch.end /\ path.lo >= temp'.end
        /\ Room(temp') = Room(scratch) - 1
    BY <2>1, <2>2, <2>3, AllocAtEnd
  <2> HIDE DEF path
  <2>5. Objects(now', scratch, temp')
    <3>1. Objects(Append(<<>>, path), scratch, temp')
      BY <2>2, <2>4, NoObjects, InsideSelf, OneMore
    <3>2. Append(<<>>, path) = <<path>>
      BY <2>4
    <3> QED
      BY <2>1, <3>1, <3>2
  <2>6. MemoryInv'
    BY <2>1, <2>2, <2>4, <2>5 DEF ListingInv, MemoryInv
  <2>7. PhaseInv'
    <3>1. Room(temp') >= 0
      BY <2>2, <2>3, <2>4
    <3> QED
      BY <2>1, <2>4, <3>1 DEF PhaseInv, Room, Inside
  <2> QED
    BY <2>6, <2>7 DEF ListingInv
<1> QED
  BY <1>1, <1>2

\* What is read fits, and a file that is kept is claimed.
LEMMA MappedInv ==
  ASSUME ListingInv, phase = "file", NEW size \in Nat, size <= Room(temp), len' = size,
         Mapped(size), UNCHANGED <<shelf, scratch, here>>
  PROVE  ListingInv'
<1>1. CASE UNCHANGED <<temp, now>> /\ phase' = "files"
  BY <1>1, PhaseStep
<1>2. CASE /\ temp' = Extended(temp, size) /\ now' = Append(now, AtBeg(temp, size))
           /\ phase' = "parse"
  <2> DEFINE text == AtBeg(temp, size)
  <2>1. /\ scratch \in Region /\ temp \in Region /\ Arena' = Arena
        /\ Inside(temp, scratch) /\ Objects(now, scratch, temp)
    BY DEF ListingInv, MemoryInv, PhaseInv, Arena
  <2>2. Room(temp) >= size
    BY <2>1 DEF Room, Region
  <2>3. /\ temp' \in Region /\ Inside(temp', temp) /\ text \in Object
        /\ temp.beg <= text.lo /\ text.hi <= temp.end /\ text.hi <= temp'.beg
    BY <1>2, <2>1, <2>2, ClaimedAtBeg
  <2>4. now' = Append(now, text)
    BY <1>2
  <2> HIDE DEF text
  <2>5. Objects(now', scratch, temp')
    BY <2>1, <2>3, <2>4, OneMore
  <2>6. Inside(temp', scratch)
    BY <2>1, <2>3, InsideTrans
  <2>7. MemoryInv'
    BY <2>1, <2>3, <2>5 DEF ListingInv, MemoryInv
  <2>8. PhaseInv'
    BY <1>2, <2>6 DEF PhaseInv, Inside
  <2> QED
    BY <2>7, <2>8 DEF ListingInv
<1> QED
  BY <1>1, <1>2 DEF Mapped, SkipFile

LEMMA ReadInv == ListingInv /\ (ReadSome \/ ReadEnd \/ ReadOnce \/ ReadError) => ListingInv'
<1> SUFFICES ASSUME ListingInv, ReadSome \/ ReadEnd \/ ReadOnce \/ ReadError
             PROVE  ListingInv'
  OBVIOUS
<1>1. phase = "file" /\ len \in Nat /\ len <= Room(temp) /\ Room(temp) \in Nat
  <2>1. phase = "file"
    BY DEF ReadSome, ReadEnd, ReadOnce, ReadError
  <2>2. temp.beg \in Nat /\ temp.end \in Nat /\ temp.beg <= temp.end
    BY DEF ListingInv, MemoryInv, Region
  <2>3. temp.end - temp.beg \in Nat
    BY <2>2
  <2> QED
    BY <2>1, <2>3 DEF ListingInv, PhaseInv, Room
<1>2. \A n \in Readable : n \in Nat /\ n <= Room(temp)
  BY <1>1 DEF Readable, Cap
<1>3. CASE ReadSome
  <2>1. len' \in Nat /\ len' <= Room(temp)
    BY <1>1, <1>2, <1>3 DEF ReadSome
  <2>2. UNCHANGED <<shelf, scratch, temp, here, now, phase>>
    BY <1>3 DEF ReadSome
  <2>3. MemoryInv'
    BY <2>2, SameMemory DEF ListingInv
  <2>4. PhaseInv'
    BY <1>1, <2>1, <2>2 DEF ListingInv, PhaseInv, Room, Inside
  <2> QED
    BY <2>3, <2>4 DEF ListingInv
<1>4. CASE ReadEnd
  BY <1>1, <1>4, MappedInv DEF ReadEnd
<1>5. CASE ReadOnce
  <2>1. len' \in Nat /\ len' <= Room(temp)
    BY <1>1, <1>2, <1>5 DEF ReadOnce
  <2> QED
    BY <1>1, <1>5, <2>1, MappedInv DEF ReadOnce
<1>6. CASE ReadError
  BY <1>6, PhaseStep DEF ReadError, SkipFile
<1> QED
  BY <1>3, <1>4, <1>5, <1>6

LEMMA ParseFileInv == ListingInv /\ ParseFile => ListingInv'
<1> SUFFICES ASSUME ListingInv, ParseFile PROVE ListingInv'
  OBVIOUS
<1>1. phase = "parse"
  BY DEF ParseFile
<1>2. CASE Oom
  BY <1>2, PhaseStep DEF Oom, shelfvars
<1>3. CASE ~Oom
  <2>1. PICK n \in 0 .. File.variables :
          /\ ~(Room(temp) < n)
          /\ temp' = Alloc(temp, n)
          /\ now' = Append(now, AtEnd(temp, n))
          /\ phase' \in {"undefined", "files"}
          /\ UNCHANGED <<shelf, scratch, here, len>>
    BY <1>3 DEF ParseFile, SkipFile
  <2> DEFINE variables == AtEnd(temp, n)
  <2>2. /\ scratch \in Region /\ temp \in Region /\ Arena' = Arena
        /\ Inside(temp, scratch) /\ Objects(now, scratch, temp)
    BY <1>1, <2>1 DEF ListingInv, MemoryInv, PhaseInv, Arena
  <2>3. n \in Nat /\ Room(temp) >= n
    BY <2>1, <2>2 DEF Room, Region
  <2>4. /\ temp' \in Region /\ Inside(temp', temp) /\ variables \in Object
        /\ temp.beg <= variables.lo /\ variables.hi <= temp.end /\ variables.lo >= temp'.end
    BY <2>1, <2>2, <2>3, AllocAtEnd
  <2>5. now' = Append(now, variables)
    BY <2>1
  <2> HIDE DEF variables
  <2>6. Objects(now', scratch, temp')
    BY <2>2, <2>4, <2>5, OneMore
  <2>7. MemoryInv'
    BY <2>1, <2>2, <2>4, <2>6 DEF ListingInv, MemoryInv
  <2>8. PhaseInv'
    BY <2>1 DEF PhaseInv
  <2> QED
    BY <2>7, <2>8 DEF ListingInv
<1> QED
  BY <1>2, <1>3

LEMMA NextDirInv == ListingInv /\ NextDir => ListingInv'
<1> SUFFICES ASSUME ListingInv, NextDir PROVE ListingInv'
  OBVIOUS
<1>1. phase' = "dir" /\ now' = <<>> /\ UNCHANGED <<shelf, scratch, temp, here>>
  BY DEF NextDir
<1>2. Arena' = Arena /\ Objects(now', scratch, temp)
  BY <1>1, NoObjects DEF Arena
<1>3. MemoryInv'
  BY <1>1, <1>2 DEF ListingInv, MemoryInv
<1>4. PhaseInv'
  BY <1>1 DEF PhaseInv
<1> QED
  BY <1>3, <1>4 DEF ListingInv

\* The steps that only go on elsewhere.
LEMMA ElsewhereInv ==
  ListingInv /\ (StartListing \/ Listed \/ StoppedListing \/ ReadDir \/ CloseDir) => ListingInv'
<1> SUFFICES ASSUME ListingInv, StartListing \/ Listed \/ StoppedListing \/ ReadDir \/ CloseDir
             PROVE  ListingInv'
  OBVIOUS
<1>1. UNCHANGED <<shelf, scratch, temp, here, now, len>>
  BY DEF StartListing, Listed, StoppedListing, ReadDir, CloseDir, shelfvars, allvars
<1>2. \/ phase' = phase
      \/ phase' = "files"
      \/ phase' \in {"dir", "listed"} /\ phase \in {"options", "dir"}
  BY DEF StartListing, Listed, StoppedListing, ReadDir, CloseDir, allvars, vars
<1>3. phase \in {"options", "dir"} => now = <<>>
  BY DEF ListingInv, PhaseInv
<1> QED
  BY <1>1, <1>2, <1>3, PhaseStep

THEOREM ListingInvariant == SpecListing => []ListingInv
<1>1. ListingInv /\ UNCHANGED allvars => ListingInv'
  BY PhaseStep DEF allvars, shelfvars, vars
<1>2. ListingInv /\ NextListing => ListingInv'
  BY SearchInv, ElsewhereInv, OpenDirInv, TakeEntryInv, NextDirInv, OpenFileInv, ReadInv,
     ParseFileInv DEF NextListing
<1> QED
  BY <1>1, <1>2, InitInv, PTL DEF SpecListing

-----------------------------------------------------------------------------
\* Objects on either side of a region's bounds.
LEMMA Together ==
  ASSUME NEW s \in Seq(Object), NEW t \in Seq(Object), AllApart(s), AllApart(t),
         \A i \in 1 .. Len(s), j \in 1 .. Len(t) : Apart(s[i], t[j])
  PROVE  s \o t \in Seq(Object) /\ AllApart(s \o t)
<1> DEFINE u == s \o t
<1>1. Len(s) \in Nat /\ Len(t) \in Nat /\ u \in Seq(Object) /\ Len(u) = Len(s) + Len(t)
  OBVIOUS
<1>2. \A i \in 1 .. Len(u) :
        IF i <= Len(s) THEN i \in 1 .. Len(s) /\ u[i] = s[i]
        ELSE i - Len(s) \in 1 .. Len(t) /\ u[i] = t[i - Len(s)]
  OBVIOUS
<1> HIDE DEF u
<1>3. ASSUME NEW i \in 1 .. Len(u), NEW j \in 1 .. Len(u), i < j
      PROVE  Apart(u[i], u[j])
  <2>1. CASE j <= Len(s)
    <3>1. i \in 1 .. Len(s) /\ j \in 1 .. Len(s)
      BY <1>1, <1>3, <2>1
    <3>2. Apart(s[i], s[j])
      BY <1>3, <3>1 DEF AllApart
    <3>3. i <= Len(s) /\ j <= Len(s)
      BY <3>1
    <3>4. u[i] = s[i] /\ u[j] = s[j]
      BY <1>2, <3>3
    <3> QED
      BY <3>2, <3>4
  <2>2. CASE i <= Len(s) /\ j > Len(s)
    <3>1. i \in 1 .. Len(s) /\ j - Len(s) \in 1 .. Len(t)
      BY <1>1, <1>3, <2>2
    <3>2. ~(j <= Len(s))
      BY <1>1, <2>2
    <3>3. u[i] = s[i] /\ u[j] = t[j - Len(s)]
      BY <1>2, <2>2, <3>2
    <3>4. Apart(s[i], t[j - Len(s)])
      BY <3>1
    <3> QED
      BY <3>3, <3>4
  <2>3. CASE i > Len(s)
    <3>1. i - Len(s) \in 1 .. Len(t) /\ j - Len(s) \in 1 .. Len(t) /\ i - Len(s) < j - Len(s)
      BY <1>1, <1>2, <1>3, <2>3
    <3>2. Apart(t[i - Len(s)], t[j - Len(s)])
      BY <3>1 DEF AllApart
    <3>3. ~(i <= Len(s)) /\ ~(j <= Len(s))
      BY <1>1, <3>1
    <3>4. u[i] = t[i - Len(s)] /\ u[j] = t[j - Len(s)]
      BY <1>2, <3>3
    <3> QED
      BY <3>2, <3>4
  <2> QED
    BY <1>1, <2>1, <2>2, <2>3
<1>4. AllApart(u)
  BY <1>3 DEF AllApart
<1> QED
  BY <1>1, <1>4 DEF u

LEMMA InsideOutside ==
  ASSUME NEW s, NEW t, NEW whole, NEW free \in Region, NEW left,
         Objects(s, whole, free), Objects(t, free, left)
  PROVE  \A i \in 1 .. Len(s), j \in 1 .. Len(t) : Apart(s[i], t[j])
<1> SUFFICES ASSUME NEW i \in 1 .. Len(s), NEW j \in 1 .. Len(t) PROVE Apart(s[i], t[j])
  OBVIOUS
<1>1. s[i] \in Object /\ t[j] \in Object
  BY DEF Objects
<1>2. /\ s[i].hi <= free.beg \/ s[i].lo >= free.end
      /\ free.beg <= t[j].lo /\ t[j].hi <= free.end
  BY DEF Objects, Outside, Within
<1> QED
  BY <1>1, <1>2 DEF Apart, Object, Region

LEMMA Nested ==
  ASSUME NEW s, NEW t, NEW whole \in Region, NEW free \in Region, NEW left \in Region,
         Objects(s, whole, free), Objects(t, free, left), Inside(free, whole)
  PROVE  /\ s \o t \in Seq(Object)
         /\ AllApart(s \o t)
         /\ Within(s \o t, whole.beg, whole.end)
         /\ Inside(left, free) => Objects(s \o t, whole, left)
<1> DEFINE u == s \o t
<1>1. s \in Seq(Object) /\ t \in Seq(Object) /\ AllApart(s) /\ AllApart(t)
  BY DEF Objects
<1>2. u \in Seq(Object) /\ AllApart(u)
  BY <1>1, InsideOutside, Together
<1>3. /\ Len(s) \in Nat /\ Len(t) \in Nat
      /\ \A i \in 1 .. Len(u) :
           \/ i \in 1 .. Len(s) /\ u[i] = s[i]
           \/ i - Len(s) \in 1 .. Len(t) /\ u[i] = t[i - Len(s)]
  BY <1>1
<1> HIDE DEF u
<1>4. /\ whole.beg \in Nat /\ whole.end \in Nat /\ free.beg \in Nat /\ free.end \in Nat
      /\ left.beg \in Nat /\ left.end \in Nat
      /\ whole.beg <= free.beg /\ free.end <= whole.end
  BY DEF Region, Inside
<1>5. /\ \A i \in 1 .. Len(s) : s[i].lo \in Nat /\ s[i].hi \in Nat
      /\ \A i \in 1 .. Len(t) : t[i].lo \in Nat /\ t[i].hi \in Nat
  <2>1. /\ \A i \in 1 .. Len(s) : s[i] \in Object
        /\ \A i \in 1 .. Len(t) : t[i] \in Object
    BY <1>1
  <2> QED
    BY <2>1 DEF Object
<1>6. /\ \A i \in 1 .. Len(s) : whole.beg <= s[i].lo /\ s[i].hi <= whole.end
      /\ \A i \in 1 .. Len(t) : free.beg <= t[i].lo /\ t[i].hi <= free.end
  BY DEF Objects, Within
<1>7. Within(u, whole.beg, whole.end)
  <2>1. \A i \in 1 .. Len(t) : whole.beg <= t[i].lo /\ t[i].hi <= whole.end
    BY <1>4, <1>5, <1>6
  <2> QED
    BY <1>3, <1>6, <2>1 DEF Within
<1>8. ASSUME Inside(left, free) PROVE Outside(u, left.beg, left.end)
  <2>1. /\ \A i \in 1 .. Len(s) : s[i].hi <= free.beg \/ s[i].lo >= free.end
        /\ \A i \in 1 .. Len(t) : t[i].hi <= left.beg \/ t[i].lo >= left.end
    BY DEF Objects, Outside
  <2>2. \A i \in 1 .. Len(s) : s[i].hi <= left.beg \/ s[i].lo >= left.end
    BY <1>4, <1>5, <1>8, <2>1, SMTT(30) DEF Inside
  <2> QED
    BY <1>3, <2>1, <2>2 DEF Outside
<1>9. Inside(left, free) => Objects(u, whole, left)
  BY <1>2, <1>7, <1>8 DEF Objects
<1> QED
  BY <1>2, <1>7, <1>9 DEF u

LEMMA InvDisjoint == ListingInv => LiveDisjoint
<1> SUFFICES ASSUME ListingInv
             PROVE  AllApart(Live) /\ Within(Live, 0, shelf.memory) /\ Live \in Seq(Object)
  BY DEF LiveDisjoint, AllApart, Apart, Within
<1> DEFINE both == here \o now
<1>1. /\ scratch \in Region /\ temp \in Region /\ Arena \in Region
      /\ shelf.memory \in Nat /\ Inside(scratch, Arena)
      /\ Objects(here, Arena, scratch) /\ Objects(now, scratch, temp)
      /\ Arena.beg = 0 /\ Arena.end = shelf.memory
  BY DEF ListingInv, MemoryInv, Arena, Region
<1>2. /\ both \in Seq(Object) /\ AllApart(both) /\ Within(both, Arena.beg, Arena.end)
      /\ Inside(temp, scratch) => Objects(both, Arena, temp)
  BY <1>1, Nested
<1>3. CASE phase # "file"
  <2>1. Live = both \o <<>>
    BY <1>3 DEF Live
  <2> HIDE DEF both
  <2>2. Live = both
    BY <1>2, <2>1
  <2> QED
    BY <1>1, <1>2, <2>2
<1>4. CASE phase = "file"
  <2> DEFINE o == AtBeg(temp, len)
             rest0 == Extended(temp, len)
             text == Append(<<>>, o)
  <2>1. len \in Nat /\ Room(temp) >= len /\ Inside(temp, scratch)
    <3>1. len \in Nat /\ len <= Room(temp) /\ Inside(temp, scratch)
      BY <1>4 DEF ListingInv, PhaseInv
    <3>2. Room(temp) \in Int
      BY <1>1 DEF Room, Region
    <3> QED
      BY <3>1, <3>2
  <2>2. /\ rest0 \in Region /\ Inside(rest0, temp)
        /\ o \in Object /\ temp.beg <= o.lo /\ o.hi <= temp.end
        /\ o.hi <= rest0.beg
    BY <1>1, <2>1, ClaimedAtBeg
  <2> HIDE DEF rest0
  <2>3. text = <<AtBeg(temp, len)>>
    BY <2>2
  <2>4. Live = both \o text
    BY <1>4, <2>3 DEF Live
  <2> HIDE DEF o, both
  <2>5. Objects(text, temp, rest0)
    BY <1>1, <2>2, NoObjects, InsideSelf, OneMore
  <2>6. Inside(temp, Arena)
    BY <1>1, <2>1, InsideTrans
  <2> HIDE DEF text
  <2>7. both \o text \in Seq(Object) /\ AllApart(both \o text)
        /\ Within(both \o text, Arena.beg, Arena.end)
    BY <1>1, <1>2, <2>1, <2>2, <2>5, <2>6, Nested
  <2> QED
    BY <1>1, <2>4, <2>7
<1> QED
  BY <1>3, <1>4

(***************************************************************************)
(* Whatever the memory, the directories, the files and the platform, the   *)
(* paths, names, files and variables that list() has in use lie within the *)
(* memory, and no two overlap.                                             *)
(***************************************************************************)
THEOREM MemoryDisjoint == SpecListing => []LiveDisjoint
BY ListingInvariant, InvDisjoint, PTL

-----------------------------------------------------------------------------
(***************************************************************************)
(* The search for one package.                                             *)
(***************************************************************************)
\* The place that a request names itself comes first.
Direct == IF input.request = "path" THEN 1 ELSE 0

StatusAt(k) == IF input.request = "self" THEN "good" ELSE input.files[list[k]]

\* A file was taken.
Found == {"check", "dup", "missing", "found"}

SearchTypes ==
  /\ input \in Input
  /\ list \in Seq(Dirs)
  /\ withs \in Seq(Path)
  /\ phase \in {"direct", "search"} => input.request # "list" /\ rest \in Seq(Dirs)

\* There is nothing in the places that were looked at.
LookedAt ==
  /\ phase = "direct" => input.request = "path" /\ rest = list
  /\ phase \in {"search", "notfound"} =>
       /\ input.request = "path" => input.direct = "none"
       /\ Len(rest) <= Len(list)
       /\ \A k \in 1 .. Len(rest) : rest[k] = list[Len(list) - Len(rest) + k]
       /\ \A k \in 1 .. Len(list) - Len(rest) : StatusAt(k) = "none"
       /\ phase = "notfound" => rest = <<>>

IsFirst(i) == Places[i].is # "none" /\ \A j \in 1 .. i - 1 : Places[j].is = "none"

\* What was taken, or could not be read, is at the first place where there
\* is anything.
Decided ==
  phase \in Found \cup {"readerr"} =>
    \E i \in 1 .. Len(Places) :
      /\ IsFirst(i)
      /\ phase = "readerr" => Places[i].is = "unreadable"
      /\ phase \in Found =>
           /\ dir = Places[i].at
           /\ Places[i].is \in {"good", "duplicate", "incomplete"}
           /\ contents = Places[i].is \/ (contents = "builtin" /\ Places[i].is = "good")
      /\ phase = "dup" => contents = "duplicate"
      /\ phase = "missing" => contents = "incomplete"
      /\ phase = "found" => contents \notin {"duplicate", "incomplete"}

PrefixInv == prefix = IF phase = "found" THEN Relocated ELSE "own"

FindInv == SearchTypes /\ LookedAt /\ Decided /\ PrefixInv

-----------------------------------------------------------------------------
\* The library's induction theorems take an operator; this one takes a set.
LEMMA NaturalsFrom0 ==
  ASSUME NEW S, 0 \in S, \A n \in Nat : n \in S => n + 1 \in S
  PROVE  Nat \subseteq S
<1> SUFFICES ASSUME Nat \ S # {} PROVE FALSE
  OBVIOUS
<1>1. PICK x \in Nat \ S : \A y \in Nat \ S : ~(<<y, x>> \in OpToRel(<, Nat))
  <2>1. Nat \ S \subseteq Nat
    OBVIOUS
  <2> QED
    BY <2>1, NatLessThanWellFounded, WFMin, Zenon
<1>2. \A y \in Nat \ S : ~(y < x)
  BY <1>1 DEF OpToRel
<1>3. x # 0
  OBVIOUS
<1>4. x - 1 \in Nat /\ x - 1 < x /\ (x - 1) + 1 = x
  BY <1>3
<1>5. x - 1 \in S
  BY <1>2, <1>4
<1> QED
  BY <1>4, <1>5

\* What appendpath() does with one more part of a path.
With(dirs, d) == IF d = Empty THEN dirs ELSE Append(dirs, d)

\* g gives what it has appended of the first n parts.
Appends(g, path, n) ==
  g = [k \in 0 .. n |-> IF k = 0 THEN <<>> ELSE With(g[k - 1], path[k])]

LEMMA AppendsExist == ASSUME NEW path PROVE \A n \in Nat : \E g : Appends(g, path, n)
<1> DEFINE S == {n \in Nat : \E g : Appends(g, path, n)}
<1>1. 0 \in S
  <2> DEFINE g == [k \in 0 .. 0 |-> <<>>]
  <2>1. g = [k \in 0 .. 0 |-> IF k = 0 THEN <<>> ELSE With(g[k - 1], path[k])]
    OBVIOUS
  <2> HIDE DEF g
  <2>2. Appends(g, path, 0)
    BY <2>1 DEF Appends
  <2> QED
    BY <2>2
<1>2. ASSUME NEW n \in Nat, n \in S PROVE n + 1 \in S
  <2>1. PICK g : Appends(g, path, n)
    BY <1>2
  <2> DEFINE more == With(g[n], path[n + 1])
             h == [k \in 0 .. n + 1 |-> IF k = n + 1 THEN more ELSE g[k]]
  <2>2. \A k \in 0 .. n : g[k] = IF k = 0 THEN <<>> ELSE With(g[k - 1], path[k])
    BY <2>1 DEF Appends
  <2>3. \A k \in 0 .. n + 1 : h[k] = IF k = 0 THEN <<>> ELSE With(h[k - 1], path[k])
    <3>1. \A k \in 0 .. n + 1 : k = n + 1 \/ k \in 0 .. n
      OBVIOUS
    <3> HIDE DEF more
    <3>2. \A k \in 0 .. n : k \in 0 .. n + 1 /\ k # n + 1 /\ h[k] = g[k]
      OBVIOUS
    <3>3. h[n + 1] = more
      OBVIOUS
    <3> HIDE DEF h
    <3>4. h[n + 1] = With(h[(n + 1) - 1], path[n + 1]) /\ n + 1 # 0
      <4>1. (n + 1) - 1 = n /\ n \in 0 .. n /\ n + 1 # 0
        OBVIOUS
      <4>2. h[n] = g[n]
        BY <3>2, <4>1
      <4> QED
        BY <3>3, <4>1, <4>2 DEF more
    <3>5. ASSUME NEW k \in 0 .. n
          PROVE  h[k] = IF k = 0 THEN <<>> ELSE With(h[k - 1], path[k])
      <4>1. k # 0 => k - 1 \in 0 .. n
        OBVIOUS
      <4> QED
        BY <2>2, <3>2, <4>1
    <3> QED
      BY <3>1, <3>4, <3>5
  <2>4. h = [k \in 0 .. n + 1 |-> IF k = 0 THEN <<>> ELSE With(h[k - 1], path[k])]
    BY <2>3
  <2> HIDE DEF h
  <2>5. Appends(h, path, n + 1)
    BY <2>4 DEF Appends
  <2> QED
    BY <2>5
<1>3. Nat \subseteq S
  <2> HIDE DEF S
  <2> QED
    BY <1>1, <1>2, NaturalsFrom0
<1> QED
  BY <1>3

\* The recursive definition of DirsOf says what it seems to say.
LEMMA DirsOfSteps ==
  ASSUME NEW path \in Path
  PROVE  \E g : /\ DirsOf(path) = g[Len(path)]
                /\ g[0] = <<>>
                /\ \A n \in Nat : n + 1 <= Len(path) => g[n + 1] = With(g[n], path[n + 1])
<1> DEFINE N == Len(path)
           g == CHOOSE f : Appends(f, path, N)
<1>1. N \in Nat
  BY DEF Path
<1>2. DirsOf(path) = g[N]
  BY DEF DirsOf, Appends, With
<1>3. Appends(g, path, N)
  BY <1>1, AppendsExist
<1> HIDE DEF g, N
<1>4. \A k \in 0 .. N : g[k] = IF k = 0 THEN <<>> ELSE With(g[k - 1], path[k])
  BY <1>3 DEF Appends
<1>5. g[0] = <<>>
  BY <1>1, <1>4
<1>6. ASSUME NEW n \in Nat, n + 1 <= N PROVE g[n + 1] = With(g[n], path[n + 1])
  <2>1. n + 1 \in 0 .. N /\ n + 1 # 0 /\ (n + 1) - 1 = n
    BY <1>1, <1>6
  <2> QED
    BY <1>4, <2>1
<1> QED
  BY <1>2, <1>5, <1>6 DEF N

\* appendpath() appends directories only.
LEMMA DirsOfType == ASSUME NEW path \in Path PROVE DirsOf(path) \in Seq(Dirs)
<1>1. PICK g : /\ DirsOf(path) = g[Len(path)]
               /\ g[0] = <<>>
               /\ \A n \in Nat : n + 1 <= Len(path) => g[n + 1] = With(g[n], path[n + 1])
  BY DirsOfSteps
<1> DEFINE S == {n \in Nat : n <= Len(path) => g[n] \in Seq(Dirs)}
<1>2. Len(path) \in Nat /\ \A n \in 1 .. Len(path) : path[n] \in Dirs \cup {Empty}
  BY DEF Path
<1>3. 0 \in S
  <2>1. g[0] \in Seq(Dirs)
    <3>1. <<>> \in Seq(Dirs)
      BY EmptySeq
    <3> QED
      BY <1>1, <3>1, Zenon
  <2> QED
    BY <2>1
<1>4. ASSUME NEW n \in Nat, n \in S PROVE n + 1 \in S
  <2> SUFFICES ASSUME n + 1 <= Len(path) PROVE g[n + 1] \in Seq(Dirs)
    OBVIOUS
  <2>1. n <= Len(path) /\ n + 1 \in 1 .. Len(path)
    BY <1>2
  <2>2. g[n] \in Seq(Dirs) /\ path[n + 1] \in Dirs \cup {Empty}
    BY <1>2, <1>4, <2>1
  <2>3. With(g[n], path[n + 1]) \in Seq(Dirs)
    <3> DEFINE dirs == g[n]
               d == path[n + 1]
    <3>1. dirs \in Seq(Dirs) /\ (d = Empty \/ d \in Dirs)
      BY <2>2
    <3> HIDE DEF dirs, d
    <3>2. With(dirs, d) \in Seq(Dirs)
      BY <3>1 DEF With
    <3> QED
      BY <3>2 DEF dirs, d
  <2> QED
    BY <1>1, <2>3
<1>5. Nat \subseteq S
  <2> HIDE DEF S
  <2> QED
    BY <1>3, <1>4, NaturalsFrom0
<1> QED
  BY <1>1, <1>2, <1>5

-----------------------------------------------------------------------------
\* The place that is named, and then those in the list.
LEMMA PlacesFacts ==
  ASSUME SearchTypes
  PROVE  /\ Direct \in {0, 1} /\ Len(list) \in Nat
         /\ Len(Places) = Direct + Len(list) /\ DOMAIN Places = 1 .. Len(Places)
         /\ \A i \in 1 .. Len(Places) :
              Places[i] = IF i <= Direct THEN [at |-> input.home, is |-> input.direct]
                          ELSE [at |-> list[i - Direct], is |-> StatusAt(i - Direct)]
<1> DEFINE here0 == [at |-> input.home, is |-> input.direct]
           place(i) == [at |-> list[i], is |-> StatusAt(i)]
           first == IF input.request = "path" THEN <<here0>> ELSE <<>>
           others == [i \in DOMAIN list |-> place(i)]
           S == {here0} \cup {place(i) : i \in DOMAIN list}
           both == first \o others
<1>1. list \in Seq(Dirs) /\ Len(list) \in Nat /\ DOMAIN list = 1 .. Len(list)
  BY DEF SearchTypes
<1>2. Places = both
  BY DEF Places, StatusAt
<1>3. first \in Seq(S) /\ Len(first) = Direct /\ (Direct = 1 => first[1] = here0)
  <2>1. here0 \in S
    OBVIOUS
  <2> HIDE DEF here0, S
  <2>2. CASE input.request = "path"
    BY <2>1, <2>2 DEF Direct
  <2>3. CASE input.request # "path"
    BY <2>3 DEF Direct
  <2> QED
    BY <2>2, <2>3
<1>4. others \in Seq(S) /\ Len(others) = Len(list)
      /\ \A i \in 1 .. Len(list) : others[i] = place(i)
  <2>1. \A i \in 1 .. Len(list) : place(i) \in S
    BY <1>1
  <2>2. others = [i \in 1 .. Len(list) |-> place(i)]
    BY <1>1
  <2> HIDE DEF others, S, place
  <2> QED
    BY <1>1, <2>1, <2>2
<1>5. Direct \in {0, 1}
  BY DEF Direct
<1> HIDE DEF first, others, S
<1>6. /\ both \in Seq(S) /\ Len(both) = Len(first) + Len(others)
      /\ \A i \in 1 .. Len(first) + Len(others) :
           both[i] = IF i <= Len(first) THEN first[i] ELSE others[i - Len(first)]
  <2>1. first \in Seq(S) /\ others \in Seq(S)
    BY <1>3, <1>4, Zenon
  <2> QED
    BY <2>1, ConcatProperties, Zenon
<1> HIDE DEF both, here0, place
<1>7. Len(Places) = Direct + Len(list) /\ DOMAIN Places = 1 .. Len(Places)
  BY <1>2, <1>3, <1>4, <1>6
<1>8. ASSUME NEW i \in 1 .. Len(Places)
      PROVE  Places[i] = IF i <= Direct THEN here0 ELSE place(i - Direct)
  <2>1. Places[i] = IF i <= Direct THEN first[i] ELSE others[i - Direct]
    BY <1>2, <1>3, <1>4, <1>6, <1>7
  <2>2. i <= Direct => i = 1 /\ Direct = 1
    BY <1>1, <1>5, <1>7
  <2>3. ~(i <= Direct) => i - Direct \in 1 .. Len(list)
    BY <1>1, <1>5, <1>7
  <2> QED
    BY <1>3, <1>4, <2>1, <2>2, <2>3
<1> QED
  BY <1>1, <1>5, <1>7, <1>8 DEF here0, place

LEMMA InitFind == Init => FindInv
<1> SUFFICES ASSUME Init PROVE FindInv
  OBVIOUS
<1>1. input \in Input
  BY InputsAssumption DEF Init
<1>2. input.envpath \in Path /\ input.fixedpath \in Path /\ input.withs \in Seq(Path)
  BY <1>1 DEF Input
<1>3. DirsOf(input.envpath) \in Seq(Dirs) /\ DirsOf(input.fixedpath) \in Seq(Dirs)
  BY <1>2, DirsOfType
<1>4. list \in Seq(Dirs)
  BY <1>3 DEF Init
<1>5. SearchTypes
  BY <1>1, <1>2, <1>4 DEF Init, SearchTypes
<1> QED
  BY <1>5 DEF Init, FindInv, LookedAt, Decided, PrefixInv, Found

\* A step within the options.
LEMMA OptionsFind ==
  ASSUME FindInv, phase = "options", phase' \in {"options", "crash"}, UNCHANGED <<input, prefix>>,
         list' \in Seq(Dirs), withs' \in Seq(Path)
  PROVE  FindInv'
<1>1. SearchTypes' /\ LookedAt' /\ Decided'
  BY DEF FindInv, SearchTypes, LookedAt, Decided, Found
<1>2. PrefixInv'
  BY DEF FindInv, PrefixInv
<1> QED
  BY <1>1, <1>2 DEF FindInv

LEMMA PrependFind == FindInv /\ (PrependPath \/ PrependNothing) => FindInv'
<1> SUFFICES ASSUME FindInv, PrependPath \/ PrependNothing PROVE FindInv'
  OBVIOUS
<1>1. list \in Seq(Dirs) /\ withs \in Seq(Path) /\ withs # <<>>
  BY DEF FindInv, SearchTypes, PrependPath, PrependNothing
<1>2. Head(withs) \in Path /\ Tail(withs) \in Seq(Path)
  BY <1>1
<1>3. DirsOf(Head(withs)) \in Seq(Dirs)
  BY <1>2, DirsOfType
<1>4. DirsOf(Head(withs)) \o list \in Seq(Dirs) /\ <<>> \in Seq(Dirs)
  BY <1>1, <1>3
<1>5. list' \in Seq(Dirs)
  BY <1>1, <1>4 DEF PrependPath, PrependNothing
<1> QED
  BY <1>1, <1>2, <1>5, OptionsFind DEF PrependPath, PrependNothing

LEMMA StartFind == FindInv /\ StartSearch => FindInv'
<1> SUFFICES ASSUME FindInv, StartSearch PROVE FindInv'
  OBVIOUS
<1>1. /\ phase = "options" /\ input.request # "list" /\ rest' = list
      /\ phase' = IF input.request = "path" THEN "direct" ELSE "search"
      /\ UNCHANGED <<input, list, withs, dir, contents, prefix>>
  BY DEF StartSearch
<1>2. list \in Seq(Dirs) /\ Len(list) \in Nat
  BY DEF FindInv, SearchTypes
<1>3. SearchTypes'
  BY <1>1, <1>2 DEF FindInv, SearchTypes
<1>4. LookedAt'
  <2>1. \A k \in 1 .. Len(list) : list[k] = list[Len(list) - Len(list) + k]
    BY <1>2
  <2>2. 1 .. Len(list) - Len(list) = {} /\ Len(list) <= Len(list)
    BY <1>2
  <2> QED
    BY <1>1, <2>1, <2>2 DEF LookedAt
<1>5. Decided'
  BY <1>1 DEF Decided, Found
<1>6. PrefixInv'
  BY <1>1 DEF FindInv, PrefixInv
<1> QED
  BY <1>3, <1>4, <1>5, <1>6 DEF FindInv

\* A step that takes or rejects what is at place i.
LEMMA Decides ==
  ASSUME FindInv, UNCHANGED <<input, list, withs, prefix>>, phase \notin Found,
         NEW i \in 1 .. Len(Places), \A j \in 1 .. i - 1 : Places[j].is = "none",
         \/ Places[i].is = "unreadable" /\ phase' = "readerr"
         \/ /\ Places[i].is \in {"good", "duplicate", "incomplete"}
            /\ phase' = "check" /\ dir' = Places[i].at
            /\ contents' = Places[i].is \/ (contents' = "builtin" /\ Places[i].is = "good")
  PROVE  FindInv'
<1>1. SearchTypes'
  BY DEF FindInv, SearchTypes
<1>2. LookedAt'
  BY DEF LookedAt
<1>3. Places' = Places
  BY DEF Places
<1>4. IsFirst(i)'
  BY <1>3 DEF IsFirst
<1>5. Decided'
  BY <1>3, <1>4 DEF Decided, Found
<1>6. PrefixInv'
  BY DEF FindInv, PrefixInv, Found
<1> QED
  BY <1>1, <1>2, <1>5, <1>6 DEF FindInv

LEMMA StatusRead ==
  ASSUME NEW status \in Status
  PROVE  /\ Read(status) = "next" <=> status = "none"
         /\ Read(status) = "fail" <=> status = "unreadable"
         /\ Read(status) = "take" <=> status \in {"good", "duplicate", "incomplete"}
BY DEF Read, Status

LEMMA LookDirectFind == FindInv /\ LookDirect => FindInv'
<1> SUFFICES ASSUME FindInv, LookDirect PROVE FindInv'
  OBVIOUS
<1>1. /\ phase = "direct" /\ UNCHANGED <<input, list, withs, rest, prefix>>
      /\ SearchTypes /\ input.request = "path" /\ rest = list
  BY DEF LookDirect, FindInv, LookedAt
<1>2. input.direct \in Status
  BY <1>1 DEF SearchTypes, Input
<1>3. /\ Direct = 1 /\ Len(list) \in Nat /\ 1 \in 1 .. Len(Places)
      /\ Places[1] = [at |-> input.home, is |-> input.direct]
  <2>1. Direct = 1
    BY <1>1 DEF Direct
  <2>2. Len(list) \in Nat /\ Len(Places) = 1 + Len(list)
    BY <1>1, <2>1, PlacesFacts
  <2>3. 1 \in 1 .. Len(Places) /\ 1 <= Direct
    BY <2>1, <2>2
  <2> QED
    BY <1>1, <2>1, <2>2, <2>3, PlacesFacts
<1>4. \A j \in 1 .. 1 - 1 : Places[j].is = "none"
  OBVIOUS
<1>5. CASE input.direct = "none"
  <2>1. phase' = "search" /\ UNCHANGED <<contents, dir>>
    BY <1>2, <1>5, StatusRead DEF LookDirect
  <2>2. SearchTypes'
    BY <1>1, <2>1 DEF SearchTypes
  <2>3. LookedAt'
    <3>1. \A k \in 1 .. Len(list) : list[k] = list[Len(list) - Len(list) + k]
      BY <1>3
    <3>2. 1 .. Len(list) - Len(list) = {} /\ Len(list) <= Len(list)
      BY <1>3
    <3> QED
      BY <1>1, <1>5, <2>1, <3>1, <3>2 DEF LookedAt
  <2>4. Decided' /\ PrefixInv'
    BY <1>1, <2>1 DEF FindInv, Decided, PrefixInv, Found
  <2> QED
    BY <2>2, <2>3, <2>4 DEF FindInv
<1>6. CASE input.direct = "unreadable"
  <2>1. phase' = "readerr"
    BY <1>2, <1>6, StatusRead DEF LookDirect
  <2> QED
    BY <1>1, <1>3, <1>4, <1>6, <2>1, Decides DEF Found
<1>7. CASE input.direct \in {"good", "duplicate", "incomplete"}
  <2>1. Taken(input.direct, input.home)
    BY <1>2, <1>7, StatusRead DEF LookDirect
  <2> QED
    BY <1>1, <1>3, <1>4, <1>7, <2>1, Decides DEF Found, Taken
<1> QED
  BY <1>2, <1>5, <1>6, <1>7 DEF Status

\* The places before those that are still to be searched are empty.
LEMMA NoneBefore ==
  ASSUME SearchTypes, LookedAt, phase \in {"search", "notfound"}
  PROVE  \A j \in 1 .. Direct + (Len(list) - Len(rest)) :
           j \in 1 .. Len(Places) => Places[j].is = "none"
<1>1. Direct \in {0, 1} /\ Len(list) \in Nat
  BY PlacesFacts
<1> SUFFICES ASSUME NEW j \in 1 .. Direct + (Len(list) - Len(rest)), j \in 1 .. Len(Places)
             PROVE  Places[j].is = "none"
  OBVIOUS
<1>2. Places[j] = IF j <= Direct THEN [at |-> input.home, is |-> input.direct]
                  ELSE [at |-> list[j - Direct], is |-> StatusAt(j - Direct)]
  BY PlacesFacts
<1>3. CASE j <= Direct
  <2>1. Direct = 1
    BY <1>1, <1>3
  <2>2. input.request = "path"
    BY <2>1 DEF Direct
  <2> QED
    BY <1>2, <1>3, <2>2 DEF LookedAt
<1>4. CASE ~(j <= Direct)
  <2> DEFINE m == Len(list) - Len(rest)
  <2>2. \A k \in 1 .. m : StatusAt(k) = "none"
    BY DEF LookedAt
  <2>3. m \in Int
    <3>1. Len(rest) \in Nat
      <4>1. phase = "notfound" => rest = <<>>
        BY DEF LookedAt
      <4>2. phase = "search" => rest \in Seq(Dirs)
        BY DEF SearchTypes
      <4> QED
        BY <4>1, <4>2
    <3> QED
      BY <1>1, <3>1
  <2> HIDE DEF m
  <2>4. j - Direct \in 1 .. m
    BY <1>1, <1>4, <2>3 DEF m
  <2> QED
    BY <1>2, <1>4, <2>2, <2>4
<1> QED
  BY <1>3, <1>4

LEMMA LookFind == FindInv /\ Look => FindInv'
<1> SUFFICES ASSUME FindInv, Look PROVE FindInv'
  OBVIOUS
<1> DEFINE d == Head(rest)
           m == Len(list) - Len(rest)
           i == Direct + m + 1
<1>1. /\ phase = "search" /\ rest # <<>> /\ UNCHANGED <<input, list, withs, prefix>>
      /\ rest' = Tail(rest) /\ SearchTypes /\ LookedAt
  BY DEF Look, FindInv
<1>2. /\ rest \in Seq(Dirs) /\ list \in Seq(Dirs) /\ Len(rest) \in Nat \ {0} /\ Len(list) \in Nat
      /\ d = rest[1] /\ d \in Dirs /\ input.request # "list"
      /\ rest' \in Seq(Dirs) /\ Len(rest') = Len(rest) - 1
      /\ \A k \in 1 .. Len(rest) - 1 : rest'[k] = rest[k + 1]
  BY <1>1 DEF SearchTypes
<1>3. /\ Len(rest) <= Len(list)
      /\ \A k \in 1 .. Len(rest) : rest[k] = list[m + k]
      /\ \A k \in 1 .. m : StatusAt(k) = "none"
  BY <1>1 DEF LookedAt
<1>4. m \in Nat /\ m + 1 \in 1 .. Len(list) /\ 1 \in 1 .. Len(rest)
  BY <1>2, <1>3
<1>5. d = list[m + 1]
  BY <1>2, <1>3, <1>4
<1>6. Direct \in {0, 1} /\ Len(Places) = Direct + Len(list)
  BY <1>1, PlacesFacts
<1> HIDE DEF m
<1>7. i \in 1 .. Len(Places) /\ ~(i <= Direct) /\ i - Direct = m + 1 /\ i - 1 = Direct + m
  BY <1>2, <1>4, <1>6
<1>8. Places[i] = [at |-> d, is |-> StatusAt(m + 1)]
  BY <1>1, <1>5, <1>7, PlacesFacts
<1>9. \A j \in 1 .. i - 1 : Places[j].is = "none"
  <2>1. \A j \in 1 .. i - 1 : j \in 1 .. Len(Places) /\ j \in 1 .. Direct + m
    BY <1>4, <1>6, <1>7
  <2> QED
    BY <1>1, <2>1, NoneBefore DEF m
<1> HIDE DEF i, d
<1>10. CASE input.request = "self"
  <2>1. StatusIn(d) = "builtin" /\ StatusAt(m + 1) = "good"
    BY <1>10 DEF StatusIn, StatusAt
  <2>2. Read("builtin") = "take"
    BY DEF Read
  <2>3. Taken("builtin", d)
    BY <2>1, <2>2 DEF Look, d
  <2> QED
    BY <1>1, <1>7, <1>8, <1>9, <2>1, <2>3, Decides DEF Taken, Found
<1>11. CASE input.request # "self"
  <2>1. StatusIn(d) = input.files[d] /\ StatusAt(m + 1) = input.files[d]
    BY <1>5, <1>11 DEF StatusIn, StatusAt
  <2> DEFINE status == input.files[d]
  <2>2. status \in Status
    BY <1>1, <1>2 DEF SearchTypes, Input, d
  <2>3. /\ Read(status) = "next" => UNCHANGED <<contents, dir, phase>>
        /\ Read(status) = "fail" => phase' = "readerr"
        /\ Read(status) = "take" => Taken(status, d)
    BY <2>1 DEF Look, d
  <2> HIDE DEF status
  <2>4. CASE status = "none"
    <3>1. UNCHANGED <<contents, dir, phase>>
      BY <2>2, <2>3, <2>4, StatusRead
    <3>2. SearchTypes'
      BY <1>1, <1>2, <3>1 DEF SearchTypes
    <3>3. LookedAt'
      <4>1. Len(list) - Len(rest') = m + 1 /\ Len(rest') <= Len(list)
        BY <1>2, <1>3 DEF m
      <4>2. \A k \in 1 .. Len(rest') : rest'[k] = list[m + 1 + k]
        <5> SUFFICES ASSUME NEW k \in 1 .. Len(rest) - 1 PROVE rest'[k] = list[m + 1 + k]
          BY <1>2
        <5>1. k + 1 \in 1 .. Len(rest) /\ m + (k + 1) = m + 1 + k
          BY <1>2, <1>4
        <5> QED
          BY <1>2, <1>3, <5>1
      <4>3. \A k \in 1 .. m + 1 : StatusAt(k) = "none"
        <5>1. \A k \in 1 .. m + 1 : k \in 1 .. m \/ k = m + 1
          BY <1>4
        <5>2. StatusAt(m + 1) = "none"
          BY <2>1, <2>4 DEF status
        <5> QED
          BY <1>3, <5>1, <5>2
      <4>4. input.request = "path" => input.direct = "none"
        BY <1>1 DEF LookedAt
      <4>5. \A k : StatusAt(k)' = StatusAt(k)
        BY <1>1 DEF StatusAt
      <4> QED
        BY <1>1, <3>1, <4>1, <4>2, <4>3, <4>4, <4>5 DEF LookedAt
    <3>4. Decided' /\ PrefixInv'
      BY <1>1, <3>1 DEF FindInv, Decided, PrefixInv, Found
    <3> QED
      BY <3>2, <3>3, <3>4 DEF FindInv
  <2>5. CASE status = "unreadable"
    <3>1. phase' = "readerr" /\ Places[i].is = "unreadable"
      BY <1>8, <2>1, <2>2, <2>3, <2>5, StatusRead DEF status
    <3> QED
      BY <1>1, <1>7, <1>9, <3>1, Decides DEF Found
  <2>6. CASE status \in {"good", "duplicate", "incomplete"}
    <3>1. Taken(status, d) /\ Places[i].is = status /\ Places[i].at = d
      BY <1>8, <2>1, <2>2, <2>3, <2>6, StatusRead DEF status
    <3> QED
      BY <1>1, <1>7, <1>9, <2>6, <3>1, Decides DEF Found, Taken
  <2> QED
    BY <2>2, <2>4, <2>5, <2>6 DEF Status
<1> QED
  BY <1>10, <1>11

LEMMA NotFoundFind == FindInv /\ NotFound => FindInv'
<1> SUFFICES ASSUME FindInv, NotFound PROVE FindInv'
  OBVIOUS
<1>1. /\ phase = "search" /\ rest = <<>> /\ phase' = "notfound"
      /\ UNCHANGED <<input, list, withs, rest, dir, contents, prefix>>
  BY DEF NotFound
<1>2. SearchTypes' /\ LookedAt'
  BY <1>1 DEF FindInv, SearchTypes, LookedAt, StatusAt
<1>3. Decided' /\ PrefixInv'
  BY <1>1 DEF FindInv, Decided, PrefixInv, Found
<1> QED
  BY <1>2, <1>3 DEF FindInv

LEMMA CheckFind == FindInv /\ Check => FindInv'
<1> SUFFICES ASSUME FindInv, Check PROVE FindInv'
  OBVIOUS
<1>1. /\ phase = "check" /\ UNCHANGED <<input, list, withs, rest, dir, contents>>
      /\ \/ contents = "duplicate" /\ phase' = "dup" /\ UNCHANGED prefix
         \/ contents = "incomplete" /\ phase' = "missing" /\ UNCHANGED prefix
         \/ /\ contents \notin {"duplicate", "incomplete"}
            /\ phase' = "found" /\ prefix' = Relocated
  BY DEF Check
<1>2. SearchTypes' /\ LookedAt'
  BY <1>1 DEF FindInv, SearchTypes, LookedAt
<1>3. Decided'
  <2>1. PICK i \in 1 .. Len(Places) :
          /\ IsFirst(i)
          /\ dir = Places[i].at
          /\ Places[i].is \in {"good", "duplicate", "incomplete"}
          /\ contents = Places[i].is \/ (contents = "builtin" /\ Places[i].is = "good")
    BY <1>1 DEF FindInv, Decided, Found
  <2>2. Places' = Places
    BY <1>1 DEF Places
  <2>3. IsFirst(i)'
    BY <2>1, <2>2 DEF IsFirst
  <2> QED
    BY <1>1, <2>1, <2>2, <2>3 DEF Decided, Found
<1>4. PrefixInv'
  BY <1>1 DEF FindInv, PrefixInv, Relocated
<1> QED
  BY <1>2, <1>3, <1>4 DEF FindInv

LEMMA SameFind == FindInv /\ UNCHANGED vars => FindInv'
<1> SUFFICES ASSUME FindInv, UNCHANGED vars PROVE FindInv'
  OBVIOUS
<1>1. UNCHANGED <<input, list, withs, rest, dir, contents, prefix, phase>>
  BY DEF vars
<1>2. SearchTypes' /\ LookedAt'
  BY <1>1 DEF FindInv, SearchTypes, LookedAt, StatusAt
<1>3. Places' = Places
  BY <1>1 DEF Places
<1>4. Decided'
  BY <1>1, <1>3 DEF FindInv, Decided, IsFirst
<1>5. PrefixInv'
  BY <1>1 DEF FindInv, PrefixInv, Relocated
<1> QED
  BY <1>2, <1>4, <1>5 DEF FindInv

LEMMA SearchFind == FindInv /\ [Next]_vars => FindInv'
BY PrependFind, StartFind, LookDirectFind, LookFind, NotFoundFind, CheckFind, SameFind
   DEF Next, Stopped

-----------------------------------------------------------------------------
(***************************************************************************)
(* A listing leaves alone what the search for a package decides.           *)
(***************************************************************************)
ListingPhases == {"options", "dir", "entries", "files", "file", "parse",
                  "listed", "oom", "undefined"}

LEMMA ListingFind ==
  ASSUME FindInv, UNCHANGED Searching, phase \in ListingPhases, phase' \in ListingPhases
  PROVE  FindInv'
<1>1. UNCHANGED <<input, list, withs, dir, contents, prefix>>
  BY DEF Searching
<1>2. SearchTypes' /\ LookedAt' /\ Decided'
  BY <1>1 DEF FindInv, SearchTypes, LookedAt, Decided, Found, ListingPhases
<1>3. PrefixInv'
  BY <1>1 DEF FindInv, PrefixInv, ListingPhases
<1> QED
  BY <1>2, <1>3 DEF FindInv

LEMMA OomElsewhere ==
  ASSUME Oom, phase \in ListingPhases
  PROVE  UNCHANGED Searching /\ phase' \in ListingPhases
BY DEF Oom, Searching, ListingPhases

LEMMA NextFind == FindInv /\ [NextListing]_allvars => FindInv'
<1> SUFFICES ASSUME FindInv, [NextListing]_allvars PROVE FindInv'
  OBVIOUS
<1>1. CASE Next \/ UNCHANGED allvars \/ StoppedListing
  BY <1>1, SearchFind DEF allvars, StoppedListing
<1>2. CASE StartListing \/ Listed
  BY <1>2, ListingFind DEF StartListing, Listed, ListingPhases
<1>3. CASE OpenDir
  <2>1. phase \in ListingPhases
    BY <1>3 DEF OpenDir, ListingPhases
  <2>2. CASE Oom
    BY <2>1, <2>2, OomElsewhere, ListingFind
  <2>3. CASE ~Oom
    <3>1. UNCHANGED Searching /\ phase' \in {"entries", "files"}
      BY <1>3, <2>3 DEF OpenDir
    <3> QED
      BY <2>1, <3>1, ListingFind DEF ListingPhases
  <2> QED
    BY <2>2, <2>3
<1>4. CASE ReadDir \/ CloseDir \/ NextDir
  BY <1>4, ListingFind DEF ReadDir, CloseDir, NextDir, ListingPhases
<1>5. CASE TakeEntry
  <2>1. phase \in ListingPhases
    BY <1>5 DEF TakeEntry, ListingPhases
  <2>2. CASE Oom
    BY <2>1, <2>2, OomElsewhere, ListingFind
  <2>3. CASE ~Oom
    <3>1. UNCHANGED Searching /\ UNCHANGED phase
      BY <1>5, <2>3 DEF TakeEntry
    <3> QED
      BY <2>1, <3>1, ListingFind
  <2> QED
    BY <2>2, <2>3
<1>6. CASE OpenFile
  <2>1. phase \in ListingPhases
    BY <1>6 DEF OpenFile, ListingPhases
  <2>2. CASE Oom
    BY <2>1, <2>2, OomElsewhere, ListingFind
  <2>3. CASE ~Oom
    <3>1. UNCHANGED Searching /\ phase' \in {"file", "files"}
      BY <1>6, <2>3 DEF OpenFile, SkipFile
    <3> QED
      BY <2>1, <3>1, ListingFind DEF ListingPhases
  <2> QED
    BY <2>2, <2>3
<1>7. CASE ReadSome \/ ReadEnd \/ ReadOnce \/ ReadError
  <2>1. phase = "file" /\ UNCHANGED Searching /\ phase' \in {"file", "files", "parse"}
    BY <1>7 DEF ReadSome, ReadEnd, ReadOnce, ReadError, Mapped, SkipFile
  <2> QED
    BY <2>1, ListingFind DEF ListingPhases
<1>8. CASE ParseFile
  <2>1. phase \in ListingPhases
    BY <1>8 DEF ParseFile, ListingPhases
  <2>2. CASE Oom
    BY <2>1, <2>2, OomElsewhere, ListingFind
  <2>3. CASE ~Oom
    <3>1. UNCHANGED Searching /\ phase' \in {"undefined", "files"}
      BY <1>8, <2>3 DEF ParseFile, SkipFile
    <3> QED
      BY <2>1, <3>1, ListingFind DEF ListingPhases
  <2> QED
    BY <2>2, <2>3
<1> QED
  BY <1>1, <1>2, <1>3, <1>4, <1>5, <1>6, <1>7, <1>8 DEF NextListing

LEMMA FindInvariant == SpecListing => []FindInv
<1>1. InitListing => FindInv
  BY InitFind DEF InitListing
<1> QED
  BY <1>1, NextFind, PTL DEF SpecListing

-----------------------------------------------------------------------------
LEMMA InvFirstDecides == FindInv => FirstDecides
<1> SUFFICES ASSUME FindInv PROVE FirstDecides
  OBVIOUS
<1>1. SearchTypes /\ LookedAt /\ Decided
  BY DEF FindInv
<1>2. /\ Len(Places) = Direct + Len(list) /\ DOMAIN Places = 1 .. Len(Places)
      /\ Direct \in {0, 1} /\ Len(list) \in Nat
  BY <1>1, PlacesFacts
<1>3. ASSUME phase = "notfound" PROVE Occupied = {}
  <2>1. rest = <<>> /\ Len(list) - Len(rest) = Len(list)
    BY <1>1, <1>2, <1>3 DEF LookedAt
  <2>2. \A j \in 1 .. Len(Places) : Places[j].is = "none"
    BY <1>1, <1>2, <1>3, <2>1, NoneBefore
  <2> QED
    BY <1>2, <2>2 DEF Occupied
<1>4. ASSUME phase \in (Failed \ {"notfound"}) \cup {"found"}
      PROVE  \E i \in Occupied :
               /\ \A j \in Occupied : i <= j
               /\ CASE phase = "found"   -> Places[i].is = "good" /\ dir = Places[i].at
                    [] phase = "readerr" -> Places[i].is = "unreadable"
                    [] phase = "dup"     -> Places[i].is = "duplicate" /\ dir = Places[i].at
                    [] phase = "missing" -> Places[i].is = "incomplete" /\ dir = Places[i].at
  <2>1. phase \in {"found", "readerr", "dup", "missing"}
    BY <1>4 DEF Failed
  <2>2. PICK i \in 1 .. Len(Places) :
          /\ IsFirst(i)
          /\ phase = "readerr" => Places[i].is = "unreadable"
          /\ phase \in Found =>
               /\ dir = Places[i].at
               /\ Places[i].is \in {"good", "duplicate", "incomplete"}
               /\ contents = Places[i].is \/ (contents = "builtin" /\ Places[i].is = "good")
          /\ phase = "dup" => contents = "duplicate"
          /\ phase = "missing" => contents = "incomplete"
          /\ phase = "found" => contents \notin {"duplicate", "incomplete"}
    BY <1>1, <2>1 DEF Decided, Found
  <2>3. i \in Occupied
    BY <1>2, <2>2 DEF Occupied, IsFirst
  <2>4. ASSUME NEW j \in Occupied PROVE i <= j
    <3>1. j \in 1 .. Len(Places) /\ Places[j].is # "none"
      BY <1>2 DEF Occupied
    <3>2. ~(j \in 1 .. i - 1)
      BY <2>2, <3>1 DEF IsFirst
    <3> QED
      BY <1>2, <3>1, <3>2
  <2>5. /\ phase = "found" => Places[i].is = "good" /\ dir = Places[i].at
        /\ phase = "dup" => Places[i].is = "duplicate" /\ dir = Places[i].at
        /\ phase = "missing" => Places[i].is = "incomplete" /\ dir = Places[i].at
    BY <2>2 DEF Found
  <2> QED
    BY <2>1, <2>2, <2>3, <2>4, <2>5
<1> QED
  BY <1>3, <1>4 DEF FirstDecides

LEMMA InvPrefixFits == FindInv => PrefixFits
<1> SUFFICES ASSUME FindInv PROVE PrefixFits
  OBVIOUS
<1>1. prefix = IF phase = "found" THEN Relocated ELSE "own"
  BY DEF FindInv, PrefixInv
<1>2. ASSUME prefix # "own"
      PROVE  /\ phase = "found" /\ input.define_prefix
             /\ \E i \in DOMAIN Places : Places[i].at = prefix /\ Places[i].is = "good"
             /\ prefix = dir
  <2>1. phase = "found" /\ input.define_prefix /\ prefix = dir
    BY <1>1, <1>2 DEF Relocated
  <2>2. \E i \in Occupied : Places[i].is = "good" /\ dir = Places[i].at
    BY <2>1, InvFirstDecides DEF FirstDecides
  <2> QED
    BY <2>1, <2>2 DEF Occupied
<1>3. phase = "found" /\ dir \in Standard /\ input.define_prefix => prefix = dir
  BY <1>1 DEF Relocated
<1> QED
  BY <1>2, <1>3 DEF PrefixFits

(***************************************************************************)
(* For every search list and whatever is in its directories, findpackage() *)
(* takes the file at the first place that has something under the name,    *)
(* or fails because of it; it finds nothing only where nothing is.         *)
(***************************************************************************)
THEOREM FirstFound == SpecListing => []FirstDecides
BY FindInvariant, InvFirstDecides, PTL

(***************************************************************************)
(* Whatever is found and wherever, setprefix() gives a package the prefix  *)
(* of the directory it was read from, or none.                             *)
(***************************************************************************)
THEOREM PrefixCorrect == SpecListing => []PrefixFits
BY FindInvariant, InvPrefixFits, PTL

-----------------------------------------------------------------------------
(***************************************************************************)
(* The search list: each directory is where its name puts it.              *)
(***************************************************************************)
\* The spots in S that do not come after s.
UpIn(S, s) == {t \in S : t[1] < s[1] \/ (t[1] = s[1] /\ t[2] <= s[2])}

\* l has, in order, the directories named at the spots in S.
InPlace(l, S) ==
  /\ IsFiniteSet(S) /\ S \subseteq Int \X Int
  /\ l \in Seq(Dirs) /\ Len(l) = Cardinality(S)
  /\ \A s \in S : l[Cardinality(UpIn(S, s))] = PathAt(s[1])[s[2]]

LEMMA UpInFacts ==
  ASSUME NEW S, IsFiniteSet(S), S \subseteq Int \X Int, NEW s \in S
  PROVE  /\ IsFiniteSet(UpIn(S, s))
         /\ Cardinality(UpIn(S, s)) \in 1 .. Cardinality(S)
<1> DEFINE U == UpIn(S, s)
<1>1. U \subseteq S /\ s \in U
  <2>1. s[2] \in Int
    OBVIOUS
  <2> QED
    BY <2>1 DEF UpIn
<1> HIDE DEF U
<1>2. IsFiniteSet(U) /\ Cardinality(U) <= Cardinality(S)
  BY <1>1, FS_Subset
<1>3. Cardinality(U) \in Nat /\ Cardinality(S) \in Nat /\ Cardinality(U) # 0
  BY <1>1, <1>2, FS_CardinalityType, FS_EmptySet
<1> QED
  BY <1>2, <1>3 DEF U

LEMMA DisjointUnion ==
  ASSUME NEW S, NEW T, IsFiniteSet(S), IsFiniteSet(T), S \cap T = {}
  PROVE  /\ IsFiniteSet(S \cup T)
         /\ Cardinality(S \cup T) = Cardinality(S) + Cardinality(T)
<1>1. Cardinality(S) \in Nat /\ Cardinality(T) \in Nat /\ Cardinality({}) = 0
  BY FS_CardinalityType, FS_EmptySet, Zenon
<1>2. /\ IsFiniteSet(S \cup T)
      /\ Cardinality(S \cup T) = Cardinality(S) + Cardinality(T) - Cardinality(S \cap T)
  BY FS_Union, Zenon
<1>3. Cardinality(S \cap T) = 0
  BY <1>1, Zenon
<1> QED
  BY <1>1, <1>2, <1>3

\* One list after another.
LEMMA InPlaceConcat ==
  ASSUME NEW l, NEW m, NEW S, NEW T, InPlace(l, S), InPlace(m, T),
         \A s \in S, t \in T : s[1] < t[1] \/ (s[1] = t[1] /\ s[2] < t[2])
  PROVE  InPlace(l \o m, S \cup T)
<1> DEFINE U == S \cup T
           both == l \o m
<1>1. /\ IsFiniteSet(S) /\ S \subseteq Int \X Int /\ IsFiniteSet(T) /\ T \subseteq Int \X Int
      /\ l \in Seq(Dirs) /\ Len(l) = Cardinality(S) /\ m \in Seq(Dirs) /\ Len(m) = Cardinality(T)
  BY DEF InPlace
<1>2. \A s \in U : s[1] \in Int /\ s[2] \in Int
  BY <1>1
<1>3. S \cap T = {}
  <2> SUFFICES ASSUME NEW s \in S, s \in T PROVE FALSE
    OBVIOUS
  <2>1. s[1] \in Int /\ s[2] \in Int
    BY <1>2
  <2> QED
    BY <2>1
<1>4. IsFiniteSet(U) /\ Cardinality(U) = Cardinality(S) + Cardinality(T)
  BY <1>1, <1>3, DisjointUnion
<1>5. /\ both \in Seq(Dirs) /\ Len(both) = Len(l) + Len(m)
      /\ \A i \in 1 .. Len(l) + Len(m) :
           both[i] = IF i <= Len(l) THEN l[i] ELSE m[i - Len(l)]
  BY <1>1, ConcatProperties, Zenon
<1>6. Len(l) \in Nat /\ Len(m) \in Nat
  BY <1>1
<1> HIDE DEF both
<1>7. ASSUME NEW s \in S
      PROVE  both[Cardinality(UpIn(U, s))] = PathAt(s[1])[s[2]]
  <2>1. UpIn(U, s) = UpIn(S, s)
    <3>1. ASSUME NEW t \in T PROVE ~(t[1] < s[1] \/ (t[1] = s[1] /\ t[2] <= s[2]))
      <4>1. t[1] \in Int /\ t[2] \in Int /\ s[1] \in Int /\ s[2] \in Int
        BY <1>2
      <4> QED
        BY <4>1
    <3> QED
      BY <3>1 DEF UpIn
  <2>2. Cardinality(UpIn(S, s)) \in 1 .. Len(l)
    BY <1>1, UpInFacts
  <2>3. l[Cardinality(UpIn(S, s))] = PathAt(s[1])[s[2]]
    BY DEF InPlace
  <2> QED
    BY <1>5, <1>6, <2>1, <2>2, <2>3
<1>8. ASSUME NEW s \in T
      PROVE  both[Cardinality(UpIn(U, s))] = PathAt(s[1])[s[2]]
  <2> DEFINE V == UpIn(T, s)
  <2>1. UpIn(U, s) = S \cup V
    <3>1. ASSUME NEW t \in S PROVE t[1] < s[1] \/ (t[1] = s[1] /\ t[2] <= s[2])
      <4>1. t[1] \in Int /\ t[2] \in Int /\ s[1] \in Int /\ s[2] \in Int
        BY <1>2
      <4> QED
        BY <4>1
    <3> QED
      BY <3>1 DEF UpIn
  <2>2. IsFiniteSet(V) /\ Cardinality(V) \in 1 .. Len(m)
    BY <1>1, UpInFacts
  <2>3. S \cap V = {}
    BY <1>3 DEF UpIn
  <2>4. m[Cardinality(V)] = PathAt(s[1])[s[2]]
    BY DEF InPlace
  <2> HIDE DEF V
  <2>5. Cardinality(S \cup V) = Len(l) + Cardinality(V)
    BY <1>1, <2>2, <2>3, DisjointUnion
  <2>6. /\ Len(l) + Cardinality(V) \in 1 .. Len(l) + Len(m)
        /\ ~(Len(l) + Cardinality(V) <= Len(l))
        /\ (Len(l) + Cardinality(V)) - Len(l) = Cardinality(V)
    BY <1>6, <2>2
  <2> QED
    BY <1>5, <2>1, <2>4, <2>5, <2>6
<1>9. U \subseteq Int \X Int /\ Len(both) = Cardinality(U)
  BY <1>1, <1>4, <1>5
<1> QED
  BY <1>4, <1>5, <1>7, <1>8, <1>9 DEF InPlace, both

LEMMA InPlaceNone == InPlace(<<>>, {})
BY FS_EmptySet DEF InPlace

LEMMA InPlaceOne ==
  ASSUME NEW p \in Int, NEW i \in Int, PathAt(p)[i] \in Dirs
  PROVE  InPlace(<<PathAt(p)[i]>>, {<<p, i>>})
<1> DEFINE d == PathAt(p)[i]
           s == <<p, i>>
<1>1. <<d>> \in Seq(Dirs) /\ Len(<<d>>) = 1 /\ <<d>>[1] = d
  OBVIOUS
<1>2. UpIn({s}, s) = {s}
  BY DEF UpIn
<1>3. IsFiniteSet({s}) /\ Cardinality({s}) = 1
  BY FS_Singleton
<1>4. \A t \in {s} : <<d>>[Cardinality(UpIn({s}, t))] = PathAt(t[1])[t[2]]
  BY <1>1, <1>2, <1>3
<1> QED
  BY <1>1, <1>3, <1>4 DEF InPlace

\* What appendpath() appends is in the order of the path, without its empty parts.
LEMMA DirsInPlace ==
  ASSUME NEW p \in Int, PathAt(p) \in Path
  PROVE  InPlace(DirsOf(PathAt(p)), {p} \X Parts(PathAt(p)))
<1> DEFINE path == PathAt(p)
           N == Len(path)
           Spot(n) == {p} \X {i \in Parts(path) : i <= n}
<1>1. PICK g : /\ DirsOf(path) = g[N]
               /\ g[0] = <<>>
               /\ \A n \in Nat : n + 1 <= N => g[n + 1] = With(g[n], path[n + 1])
  BY DirsOfSteps
<1>2. N \in Nat /\ DOMAIN path = 1 .. N /\ \A n \in 1 .. N : path[n] \in Dirs \cup {Empty}
  BY DEF Path
<1>3. Parts(path) \subseteq 1 .. N
  BY <1>2 DEF Parts
<1> DEFINE S == {n \in Nat : n <= N => InPlace(g[n], Spot(n))}
<1> HIDE DEF path, N
<1>4. 0 \in S
  <2>1. Spot(0) = {}
    BY <1>2, <1>3
  <2>2. InPlace(g[0], Spot(0))
    BY <1>1, <2>1, InPlaceNone
  <2> QED
    BY <2>2
<1>5. ASSUME NEW n \in Nat, n \in S PROVE n + 1 \in S
  <2> SUFFICES ASSUME n + 1 <= N PROVE InPlace(g[n + 1], Spot(n + 1))
    OBVIOUS
  <2>1. n <= N /\ n + 1 \in 1 .. N
    BY <1>2
  <2>2. InPlace(g[n], Spot(n)) /\ g[n + 1] = With(g[n], path[n + 1])
    BY <1>1, <1>5, <2>1
  <2>3. \A i \in Parts(path) : i <= n + 1 <=> i <= n \/ i = n + 1
    BY <1>3
  <2>4. CASE path[n + 1] = Empty
    <3>1. n + 1 \notin Parts(path)
      BY <2>4 DEF Parts
    <3>2. Spot(n + 1) = Spot(n)
      BY <2>3, <3>1
    <3>3. g[n + 1] = g[n]
      BY <2>2, <2>4 DEF With
    <3> QED
      BY <2>2, <3>2, <3>3
  <2>5. CASE path[n + 1] # Empty
    <3> DEFINE d == path[n + 1]
               s == <<p, n + 1>>
    <3>1. n + 1 \in Parts(path) /\ d \in Dirs
      BY <1>2, <2>1, <2>5 DEF Parts
    <3>2. Spot(n + 1) = Spot(n) \cup {s}
      BY <2>3, <3>1
    <3>3. g[n + 1] = Append(g[n], d)
      BY <2>2, <2>5 DEF With
    <3>4. g[n] \in Seq(Dirs)
      BY <2>2 DEF InPlace
    <3>5. Append(g[n], d) = g[n] \o <<d>>
      BY <3>1, <3>4, SMTT(30)
    <3>6. InPlace(<<d>>, {s})
      BY <3>1, InPlaceOne DEF path
    <3>7. \A t \in Spot(n) : t[1] = p /\ t[2] <= n /\ t[2] \in Int
      BY <1>3
    <3>8. \A t \in Spot(n), u \in {s} : t[1] < u[1] \/ (t[1] = u[1] /\ t[2] < u[2])
      BY <3>7
    <3> HIDE DEF d, s, Spot
    <3>9. InPlace(g[n] \o <<d>>, Spot(n) \cup {s})
      BY <2>2, <3>6, <3>8, InPlaceConcat
    <3> QED
      BY <3>2, <3>3, <3>5, <3>9
  <2> QED
    BY <2>4, <2>5
<1>6. Nat \subseteq S
  <2> HIDE DEF S
  <2> QED
    BY <1>4, <1>5, NaturalsFrom0
<1>7. InPlace(g[N], Spot(N))
  <2>1. N \in S
    BY <1>2, <1>6, Zenon
  <2> HIDE DEF Spot
  <2>2. N <= N
    BY <1>2
  <2> QED
    BY <2>1, <2>2
<1>8. Spot(N) = {p} \X Parts(path)
  BY <1>2, <1>3
<1> QED
  BY <1>1, <1>7, <1>8 DEF path

(***************************************************************************)
(* Of the values of --with-path, those that are left are the last ones,    *)
(* and those before them have found their places.                          *)
(***************************************************************************)
ListInv ==
  LET k == Len(input.withs) - Len(withs)
  IN  /\ input \in Input
      /\ withs \in Seq(Path) /\ Len(withs) <= Len(input.withs)
      /\ \A i \in 1 .. Len(withs) : withs[i] = input.withs[k + i]
      /\ AllNameSome => phase # "crash" /\ InPlace(list, Spots)

LEMMA InitList == Init => ListInv
<1> SUFFICES ASSUME Init PROVE ListInv
  OBVIOUS
<1>1. input \in Input
  BY InputsAssumption DEF Init
<1>2. input.envpath \in Path /\ input.fixedpath \in Path /\ input.withs \in Seq(Path)
  BY <1>1 DEF Input
<1>3. withs = input.withs /\ Len(input.withs) \in Nat /\ phase = "options"
      /\ list = DirsOf(input.envpath) \o DirsOf(input.fixedpath)
  BY <1>2 DEF Init
<1>4. PathAt(1) = input.envpath /\ PathAt(2) = input.fixedpath
  BY DEF PathAt
<1> DEFINE New == {1} \X Parts(PathAt(1))
           Old == {2} \X Parts(PathAt(2))
<1>5. Spots = New \cup Old
  <2>1. 1 .. Len(input.withs) - Len(withs) = {}
    BY <1>3
  <2>2. Sources = {1, 2}
    BY <2>1 DEF Sources
  <2> QED
    BY <2>2 DEF Spots
<1>6. InPlace(DirsOf(PathAt(1)), New) /\ InPlace(DirsOf(PathAt(2)), Old)
  BY <1>2, <1>4, DirsInPlace
<1>7. \A s \in New, t \in Old : s[1] < t[1] \/ (s[1] = t[1] /\ s[2] < t[2])
  <2>1. \A s \in New, t \in Old : s[1] = 1 /\ t[1] = 2
    OBVIOUS
  <2> QED
    BY <2>1
<1> HIDE DEF New, Old
<1>8. InPlace(list, Spots)
  <2>1. InPlace(DirsOf(PathAt(1)) \o DirsOf(PathAt(2)), New \cup Old)
    BY <1>6, <1>7, InPlaceConcat
  <2> QED
    BY <1>3, <1>4, <1>5, <2>1
<1>9. Len(input.withs) <= Len(input.withs)
      /\ \A i \in 1 .. Len(input.withs) : Len(input.withs) - Len(input.withs) + i = i
  BY <1>3
<1> QED
  BY <1>1, <1>2, <1>3, <1>8, <1>9 DEF ListInv

\* With a directory in every path, no list is lost.
LEMMA NeverBeheaded == ASSUME ListInv, AllNameSome PROVE ~Beheaded
<1> SUFFICES ASSUME Beheaded PROVE FALSE
  OBVIOUS
<1>1. /\ input \in Input /\ withs \in Seq(Path) /\ Len(withs) <= Len(input.withs)
      /\ InPlace(list, Spots)
  BY DEF ListInv
<1>2. input.envpath \in Path /\ input.fixedpath \in Path /\ input.withs \in Seq(Path)
  BY <1>1 DEF Input
<1>3. list = <<>> /\ \E path \in Earlier : DirsOf(path) # <<>>
  BY DEF Beheaded
<1>4. Spots = {}
  <2>1. IsFiniteSet(Spots) /\ Cardinality(Spots) = Len(list)
    BY <1>1 DEF InPlace
  <2>2. Len(list) = 0
    BY <1>3
  <2> QED
    BY <2>1, <2>2, FS_EmptySet
<1>5. ASSUME NEW p \in Sources, p \in Int, PathAt(p) \in Path PROVE DirsOf(PathAt(p)) = <<>>
  <2>1. {p} \X Parts(PathAt(p)) = {}
    BY <1>4, Zenon DEF Spots
  <2>2. InPlace(DirsOf(PathAt(p)), {})
    <3>1. InPlace(DirsOf(PathAt(p)), {p} \X Parts(PathAt(p)))
      BY <1>5, DirsInPlace
    <3> QED
      BY <2>1, <3>1
  <2>3. DirsOf(PathAt(p)) \in Seq(Dirs) /\ Len(DirsOf(PathAt(p))) = 0
    BY <2>2, FS_EmptySet DEF InPlace
  <2> QED
    BY <2>3, EmptySeq
<1>6. PICK path \in Earlier : DirsOf(path) # <<>>
  BY <1>3
<1>7. CASE path = input.envpath
  <2>1. 1 \in Sources /\ PathAt(1) = path
    BY <1>7 DEF Sources, PathAt
  <2> QED
    BY <1>2, <1>5, <1>6, <1>7, <2>1
<1>8. CASE path = input.fixedpath
  <2>1. 2 \in Sources /\ PathAt(2) = path
    BY <1>8 DEF Sources, PathAt
  <2> QED
    BY <1>2, <1>5, <1>6, <1>8, <2>1
<1>9. ASSUME NEW k \in 1 .. Len(input.withs) - Len(withs), path = input.withs[k] PROVE FALSE
  <2>1. Len(input.withs) \in Nat /\ Len(withs) \in Nat
    BY <1>1, <1>2
  <2>2. 0 - k \in Int /\ 0 - k # 1 /\ 0 - k # 2 /\ 0 - (0 - k) = k /\ k \in 1 .. Len(input.withs)
    BY <2>1
  <2>3. 0 - k \in Sources
    BY DEF Sources
  <2>4. PathAt(0 - k) = path
    BY <1>9, <2>2 DEF PathAt
  <2>5. path \in Path
    BY <1>2, <1>9, <2>2
  <2> QED
    BY <1>5, <1>6, <2>2, <2>3, <2>4, <2>5
<1> QED
  BY <1>6, <1>7, <1>8, <1>9 DEF Earlier

\* The options that come and go leave the paths where they are.
LEMMA PrependList == ListInv /\ PrependPath => ListInv'
<1> SUFFICES ASSUME ListInv, PrependPath PROVE ListInv'
  OBVIOUS
<1> DEFINE W == input.withs
           k == Len(W) - Len(withs)
           p == 0 - (k + 1)
<1>1. /\ phase = "options" /\ withs # <<>> /\ UNCHANGED <<input, phase>>
      /\ withs' = Tail(withs)
      /\ AllNameSome => list' = DirsOf(Head(withs)) \o list
  BY NeverBeheaded DEF PrependPath
<1>2. /\ input \in Input /\ withs \in Seq(Path) /\ Len(withs) <= Len(W)
      /\ \A i \in 1 .. Len(withs) : withs[i] = W[k + i]
      /\ AllNameSome => InPlace(list, Spots)
  BY DEF ListInv
<1>3. W \in Seq(Path) /\ Len(W) \in Nat /\ Len(withs) \in Nat \ {0}
  BY <1>1, <1>2 DEF Input
<1>4. /\ withs' \in Seq(Path) /\ Len(withs') = Len(withs) - 1
      /\ \A i \in 1 .. Len(withs) - 1 : withs'[i] = withs[i + 1]
      /\ Head(withs) = withs[1]
  BY <1>1, <1>2, <1>3
<1>5. k \in Nat /\ k + 1 \in 1 .. Len(W) /\ Len(W) - Len(withs') = k + 1 /\ p \in Int /\ p < 0
  BY <1>2, <1>3, <1>4
<1>6. Head(withs) = W[k + 1] /\ W[k + 1] \in Path
  <2>1. 1 \in 1 .. Len(withs)
    BY <1>3
  <2> QED
    BY <1>2, <1>3, <1>4, <1>5, <2>1
<1> HIDE DEF W, k
<1>7. PathAt(p) = W[k + 1]
  <2>1. 0 - p = k + 1 /\ p # 1 /\ p # 2
    BY <1>5
  <2> QED
    BY <2>1 DEF PathAt, W
<1>8. Sources' = {p} \cup Sources
  <2>1. 1 .. k + 1 = (1 .. k) \cup {k + 1}
    BY <1>5
  <2>2. Sources' = {0 - i : i \in 1 .. k + 1} \cup {1, 2}
    BY <1>1, <1>5 DEF Sources, W
  <2>3. Sources = {0 - i : i \in 1 .. k} \cup {1, 2}
    BY DEF Sources, W, k
  <2> QED
    BY <2>1, <2>2, <2>3
<1> DEFINE New == {p} \X Parts(PathAt(p))
<1>9. Spots' = New \cup Spots
  <2>1. \A q : PathAt(q)' = PathAt(q)
    BY <1>1 DEF PathAt
  <2>2. Spots' = UNION {{q} \X Parts(PathAt(q)) : q \in Sources'}
    BY <2>1 DEF Spots, Parts
  <2> QED
    BY <1>8, <2>2 DEF Spots
<1>10. ASSUME AllNameSome PROVE InPlace(list', New \cup Spots)
  <2>1. InPlace(DirsOf(PathAt(p)), New)
    BY <1>5, <1>6, <1>7, DirsInPlace
  <2>2. \A s \in New, t \in Spots : s[1] < t[1] \/ (s[1] = t[1] /\ s[2] < t[2])
    <3> SUFFICES ASSUME NEW s \in New, NEW t \in Spots PROVE s[1] < t[1]
      OBVIOUS
    <3>1. s[1] = p
      OBVIOUS
    <3>2. t[1] \in Sources
      BY DEF Spots
    <3>3. \A q \in Sources : p < q
      BY <1>5 DEF Sources, k, W
    <3> QED
      BY <3>1, <3>2, <3>3
  <2> HIDE DEF New
  <2>3. InPlace(DirsOf(PathAt(p)) \o list, New \cup Spots)
    BY <1>2, <1>10, <2>1, <2>2, InPlaceConcat
  <2> QED
    BY <1>1, <1>6, <1>7, <1>10, <2>3
<1> HIDE DEF New
<1>11. AllNameSome' <=> AllNameSome
  BY <1>1 DEF AllNameSome
<1>12. InPlace(list', Spots') => InPlace(list, Spots)'
  <2>1. \A q : PathAt(q)' = PathAt(q)
    BY <1>1 DEF PathAt
  <2> QED
    BY <2>1 DEF InPlace
<1>13. ASSUME NEW i \in 1 .. Len(withs') PROVE withs'[i] = W[k + 1 + i]
  <2>1. i + 1 \in 1 .. Len(withs) /\ k + (i + 1) = k + 1 + i /\ i \in 1 .. Len(withs) - 1
    BY <1>3, <1>4, <1>5
  <2> QED
    BY <1>2, <1>4, <2>1
<1>14. Len(withs') <= Len(W)
  BY <1>2, <1>3, <1>4
<1> QED
  BY <1>1, <1>2, <1>4, <1>5, <1>9, <1>10, <1>11, <1>12, <1>13, <1>14 DEF ListInv, W

\* With a directory in every path, none is without one.
LEMMA PrependNothingList == ListInv /\ PrependNothing => ListInv'
<1> SUFFICES ASSUME ListInv, PrependNothing PROVE ListInv'
  OBVIOUS
<1> DEFINE W == input.withs
           k == Len(W) - Len(withs)
           path == Head(withs)
<1>1. /\ withs # <<>> /\ UNCHANGED input /\ DirsOf(path) = <<>> /\ withs' = Tail(withs)
  BY DEF PrependNothing
<1>2. /\ input \in Input /\ withs \in Seq(Path) /\ Len(withs) <= Len(W)
      /\ \A i \in 1 .. Len(withs) : withs[i] = W[k + i]
  BY DEF ListInv
<1>3. W \in Seq(Path) /\ Len(W) \in Nat /\ Len(withs) \in Nat \ {0}
  BY <1>1, <1>2 DEF Input
<1>4. /\ withs' \in Seq(Path) /\ Len(withs') = Len(withs) - 1
      /\ \A i \in 1 .. Len(withs) - 1 : withs'[i] = withs[i + 1]
      /\ path = withs[1]
  BY <1>1, <1>2, <1>3
<1>5. k \in Nat /\ k + 1 \in 1 .. Len(W) /\ Len(W) - Len(withs') = k + 1
  BY <1>2, <1>3, <1>4
<1>6. path = W[k + 1] /\ path \in Path
  <2>1. 1 \in 1 .. Len(withs)
    BY <1>3
  <2> QED
    BY <1>2, <1>3, <1>4, <1>5, <2>1
<1> HIDE DEF W, k, path
<1>7. ~AllNameSome
  <2> SUFFICES ASSUME AllNameSome PROVE FALSE
    OBVIOUS
  <2> DEFINE p == 0 - (k + 1)
             S == {p} \X Parts(PathAt(p))
  <2>1. p \in Int /\ PathAt(p) = path
    <3>1. p \in Int /\ 0 - p = k + 1 /\ p # 1 /\ p # 2
      BY <1>5
    <3> QED
      BY <1>6, <3>1 DEF PathAt, W
  <2>2. InPlace(DirsOf(path), S)
    BY <1>6, <2>1, DirsInPlace
  <2>3. Len(DirsOf(path)) = 0
    BY <1>1
  <2>4. IsFiniteSet(S) /\ Cardinality(S) = 0
    BY <2>2, <2>3 DEF InPlace
  <2>5. S = {}
    <3> HIDE DEF S
    <3> QED
      BY <2>4, FS_EmptySet
  <2>6. k + 1 \in DOMAIN W
    BY <1>3, <1>5
  <2>7. PICK i \in DOMAIN path : path[i] # Empty
    BY <1>6, <2>6 DEF AllNameSome, W
  <2>8. <<p, i>> \in S
    BY <2>1, <2>7 DEF Parts
  <2> QED
    BY <2>5, <2>8
<1>8. ~AllNameSome'
  BY <1>1, <1>7 DEF AllNameSome
<1>9. ASSUME NEW i \in 1 .. Len(withs') PROVE withs'[i] = W[k + 1 + i]
  <2>1. i + 1 \in 1 .. Len(withs) /\ k + (i + 1) = k + 1 + i /\ i \in 1 .. Len(withs) - 1
    BY <1>3, <1>4, <1>5
  <2> QED
    BY <1>2, <1>4, <2>1 DEF k, W
<1>10. Len(withs') <= Len(W)
  BY <1>2, <1>3, <1>4
<1> QED
  BY <1>1, <1>2, <1>4, <1>5, <1>8, <1>9, <1>10 DEF ListInv, W

\* Nothing else moves the list, or ends in a crash.
LEMMA SameList ==
  ASSUME ListInv, UNCHANGED <<input, list, withs>>, phase' # "crash" \/ phase' = phase
  PROVE  ListInv'
<1>1. /\ Spots' = Spots /\ AllNameSome' = AllNameSome
      /\ \A q : PathAt(q)' = PathAt(q)
  BY DEF Spots, Sources, PathAt, Parts, AllNameSome
<1>2. InPlace(list, Spots) => InPlace(list, Spots)'
  BY <1>1 DEF InPlace
<1> QED
  BY <1>1, <1>2 DEF ListInv

LEMMA NextList == ListInv /\ [NextListing]_allvars => ListInv'
<1> SUFFICES ASSUME ListInv, [NextListing]_allvars PROVE ListInv'
  OBVIOUS
<1>1. CASE PrependPath \/ PrependNothing
  BY <1>1, PrependList, PrependNothingList
<1>2. CASE StartSearch \/ LookDirect \/ Look \/ NotFound \/ Check
  <2>1. UNCHANGED <<input, list, withs>>
    BY <1>2 DEF StartSearch, LookDirect, Look, NotFound, Check
  <2>2. phase' # "crash" \/ phase' = phase
    BY <1>2 DEF StartSearch, LookDirect, Look, NotFound, Check, Taken, Read
  <2> QED
    BY <2>1, <2>2, SameList
<1>3. CASE UNCHANGED allvars \/ Stopped \/ StoppedListing
  BY <1>3, SameList DEF allvars, vars, Stopped, StoppedListing
<1>4. CASE \/ StartListing \/ Listed \/ OpenDir \/ ReadDir \/ TakeEntry \/ CloseDir \/ NextDir
           \/ OpenFile \/ ReadSome \/ ReadEnd \/ ReadOnce \/ ReadError \/ ParseFile
  <2>1. UNCHANGED <<input, list, withs>>
    BY <1>4 DEF StartListing, Listed, OpenDir, ReadDir, TakeEntry, CloseDir, NextDir, OpenFile,
                ReadSome, ReadEnd, ReadOnce, ReadError, ParseFile, Oom, Searching
  <2>2. phase' # "crash" \/ phase' = phase
    BY <1>4 DEF StartListing, Listed, OpenDir, ReadDir, TakeEntry, CloseDir, NextDir, OpenFile,
                ReadSome, ReadEnd, ReadOnce, ReadError, ParseFile, Oom, SkipFile, Mapped
  <2> QED
    BY <2>1, <2>2, SameList
<1> QED
  BY <1>1, <1>2, <1>3, <1>4 DEF NextListing, Next

LEMMA ListInvariant == SpecListing => []ListInv
<1>1. InitListing => ListInv
  BY InitList DEF InitListing
<1> QED
  BY <1>1, NextList, PTL DEF SpecListing

LEMMA InvDirsInOrder == ListInv => DirsInOrder
<1> SUFFICES ASSUME ListInv, AllNameSome PROVE phase # "crash" /\ AsNamed
  BY DEF DirsInOrder
<1>1. \A s : UpTo(s) = UpIn(Spots, s)
  BY DEF UpTo, UpIn
<1> QED
  BY <1>1 DEF ListInv, InPlace, AsNamed

(***************************************************************************)
(* However many paths there are and whatever they name: as long as each    *)
(* --with-path names a directory, the list has every directory at the      *)
(* place that the order of the options and the variables gives it.         *)
(***************************************************************************)
THEOREM OrderCorrect == SpecListing => []DirsInOrder
BY ListInvariant, InvDirsInOrder, PTL

=============================================================================
