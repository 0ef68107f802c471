---------------------------- MODULE MCManagedHeap ----------------------------
(* Small instances of ManagedHeap. *)
EXTENDS ManagedHeap, TLC

CONSTANTS m1, m2, o1, o2, leaf

\* Every object may refer to every object but the module object; a leaf, whose
\* type is not cyclic, refers to nothing.
AnyRefers == {e \in Obj \X Obj : e[1] # leaf /\ e[2] # Module}

MCThreads == Mutators \cup {Main, Collector}

Symmetry == Permutations(Mutators) \cup Permutations(CyclicType)
==============================================================================
