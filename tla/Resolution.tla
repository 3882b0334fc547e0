----------------------------- MODULE Resolution -----------------------------
(***************************************************************************)
(* What resolving the requested packages promises, whatever the order in   *)
(* which the packages are visited: a package is loaded only if somebody    *)
(* requires it, counts as public only if a chain of public requires leads  *)
(* to it, and the program succeeds only when nothing is missing.           *)
(***************************************************************************)
EXTENDS Requirements

VARIABLES
  input,     \* the invocation; never changes
  loaded,    \* the packages loaded
  public,    \* those that a program linked dynamically needs too
  outcome    \* "run", "done" or the reason of the failure

vars == <<input, loaded, public, outcome>>

Failure == {"unloadable", "badversion", "toodeep"}

TypeOK ==
  /\ input \in Input
  /\ loaded \subseteq Pkgs
  /\ public \subseteq loaded
  /\ outcome \in {"run", "done"} \cup Failure

Init ==
  /\ input \in Input
  /\ loaded = {}
  /\ public = {}
  /\ outcome = "run"

\* Someone asked for p.
Wanted(p) == p \in Roots(input) \/ \E q \in loaded : p \in AllDeps(input, q)

\* Someone who is public asked for p, and not as a private matter.
WantedPublic(p) == p \in Roots(input) \/ \E q \in public : p \in PublicDeps(input, q)

Acquire(p) ==
  /\ outcome = "run"
  /\ p \notin loaded
  /\ p \notin input.broken
  /\ Wanted(p)
  /\ loaded' = loaded \cup {p}
  /\ \/ UNCHANGED public
     \/ WantedPublic(p) /\ public' = public \cup {p}
  /\ UNCHANGED <<input, outcome>>

Publish(p) ==
  /\ outcome = "run"
  /\ p \in loaded \ public
  /\ WantedPublic(p)
  /\ public' = public \cup {p}
  /\ UNCHANGED <<input, loaded, outcome>>

\* Everything requested is there and, unless a depth limit was asked for,
\* so is everything it requires.
Complete ==
  /\ Roots(input) \subseteq public
  /\ Unlimited(input) => /\ Closed(loaded, AllEdges(input))
                         /\ Closed(public, PublicEdges(input))

Succeed ==
  /\ outcome = "run"
  /\ Complete
  /\ outcome' = "done"
  /\ UNCHANGED <<input, loaded, public>>

\* A package is given up for being broken only when it is wanted.
Fail(why) ==
  /\ outcome = "run"
  /\ why = "unloadable" => \E p \in input.broken \ loaded : Wanted(p)
  /\ why = "badversion" => ~input.ignoreVersions
  /\ why = "toodeep" => input.recursive
  /\ outcome' = why
  /\ UNCHANGED <<input, loaded, public>>

Next ==
  \/ \E p \in Pkgs : Acquire(p) \/ Publish(p)
  \/ Succeed
  \/ \E why \in Failure : Fail(why)

Spec == Init /\ [][Next]_vars

-----------------------------------------------------------------------------
(***************************************************************************)
(* A successful run without a depth limit has loaded exactly what can be   *)
(* reached from the command line, and has marked public exactly what can   *)
(* be reached through public requires alone.                               *)
(***************************************************************************)
Exact ==
  outcome = "done" /\ Unlimited(input) =>
    /\ loaded = Reach(Roots(input), AllEdges(input))
    /\ public = Reach(Roots(input), PublicEdges(input))

=============================================================================
