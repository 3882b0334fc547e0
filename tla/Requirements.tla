---------------------------- MODULE Requirements ----------------------------
(***************************************************************************)
(* What an invocation of u-config asks for: the specs of the command line, *)
(* those in the "Requires" and "Requires.private" fields of the package    *)
(* files, and the graph they form.  The traversal (Process) and the        *)
(* specification of its result (Resolution) both speak of this graph.      *)
(*                                                                         *)
(* A package file is abstracted to its two lists of specs and to whether   *)
(* it can be loaded at all; a spec is abstracted to the package it names   *)
(* and to whether the version of that package satisfies it.                *)
(***************************************************************************)
EXTENDS Integers, Sequences, FiniteSets

CONSTANTS
  Pkgs,     \* the packages that may be named, identified by real name
  NoPkg,    \* the null pkg pointer
  Cap,      \* countof(proc->stack); 256 in the code
  Inputs    \* the invocations under consideration

\* sat: there is no version operator, or validcompare() accepts the version
PkgSpec == [pkg : Pkgs, sat : BOOLEAN]

(***************************************************************************)
(* The specs are in linked-list order: parsespecs() builds its lists back  *)
(* to front, so roots starts with the last package of the command line.    *)
(* Broken packages are those that findpackage(), or the expansion or       *)
(* parsing of a field, fails on.                                           *)
(***************************************************************************)
Input ==
  [roots          : Seq(PkgSpec),
   requires       : [Pkgs -> Seq(PkgSpec)],
   private        : [Pkgs -> Seq(PkgSpec)],
   broken         : SUBSET Pkgs,
   maxdepth       : Nat,
   recursive      : BOOLEAN,
   ignoreVersions : BOOLEAN]

ASSUME NoPkgAssumption  == NoPkg \notin Pkgs
ASSUME CapAssumption    == Cap \in Nat \ {0}
ASSUME InputsAssumption == Inputs \subseteq Input

-----------------------------------------------------------------------------
\* The packages that a list of specs names.
Named(specs) == {specs[i].pkg : i \in DOMAIN specs}

Roots(in) == Named(in.roots)

\* What p pulls in for those who link with it, and what it pulls in at all.
PublicDeps(in, p) == Named(in.requires[p])
AllDeps(in, p)    == Named(in.requires[p]) \cup Named(in.private[p])

PublicEdges(in) == [p \in Pkgs |-> PublicDeps(in, p)]
AllEdges(in)    == [p \in Pkgs |-> AllDeps(in, p)]

\* Following an edge never leaves C.
Closed(C, edges) == \A p \in C : edges[p] \subseteq C

\* The least set that holds S and is closed: what is reachable from S.
Reach(S, edges) ==
  {p \in Pkgs : \A C \in SUBSET Pkgs : S \subseteq C /\ Closed(C, edges) => p \in C}

\* The depth limit lies beyond what the stack can hold.  Both the default
\* and any --maximum-traverse-depth of 256 or more are of this kind.
Unlimited(in) == in.recursive /\ in.maxdepth > Cap

=============================================================================
