----------------------------- MODULE ObjectGraph -----------------------------
(***************************************************************************)
(* The graph that the fields of the heap objects form.  A heap f maps an   *)
(* object to its fields: f[o][i] is an object or Null.                     *)
(***************************************************************************)
EXTENDS Naturals, FiniteSets

CONSTANTS
  Obj,      \* the heap cells that can hold an object
  Null,     \* nullptr
  NSlots    \* field_length of every object

ASSUME ObjAssumption == IsFiniteSet(Obj)
ASSUME NullAssumption == Null \notin Obj
ASSUME SlotsAssumption == NSlots \in Nat

Slots == 1..NSlots
ObjOrNull == Obj \cup {Null}
Heaps == [Obj -> [Slots -> ObjOrNull]]

\* The objects the fields of o hold.
Children(f, o) == {f[o][i] : i \in Slots} \ {Null}

\* The fields of the objects of S that hold o.
EdgesTo(f, S, o) == {e \in S \X Slots : f[e[1]][e[2]] = o}

\* What is reachable from the objects of S: what is in every closed set
\* around S.
Closed(f, S) == \A o \in S : Children(f, o) \subseteq S
Reachable(f, S) ==
  {o \in Obj : \A C \in SUBSET Obj : (S \subseteq C /\ Closed(f, C)) => o \in C}
=============================================================================
