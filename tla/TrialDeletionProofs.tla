------------------------- MODULE TrialDeletionProofs -------------------------
(***************************************************************************)
(* The marking passes reach the right verdict on every finite graph, with  *)
(* any number of fields and of external references.                        *)
(***************************************************************************)
EXTENDS TrialDeletion, FiniteSetTheorems, TLAPS

Colors == {"none", "red", "gray", "white", "black"}

\* The values of the variables.
MarkType ==
  /\ field \in Heaps
  /\ count \in [Obj -> Nat]
  /\ phase \in {"red", "gray", "scan", "done"}
  /\ current_object \in Obj
  /\ i \in Nat \ {0}
  /\ check_objects \in [Obj -> Nat]
  /\ color_map \in [Obj -> Colors]
  /\ count_map \in [Obj -> Nat]
  /\ current_object_color \in Colors
  /\ cycle_objects \subseteq Obj
  /\ is_cyclic_root \in BOOLEAN

\* What the root reaches.
Closure == Reachable(field, {root})

\* What the passes are given: every field of the graph is counted, and what
\* the root does not reach has no fields.
GraphInv ==
  /\ \A o \in Obj : Cardinality(EdgesTo(field, Obj, o)) <= count[o]
  /\ \A o \in Obj \ Closure : Children(field, o) = {}

\* The fields, and what a field holds.
Edges == Obj \X Slots
At(e) == field[e[1]][e[2]]

\* The red and the gray pass traverse the graph alike: an object is marked
\* when it is first met and pushed once.
Marked == {o \in Obj : color_map[o] = phase}

\* The fields the running pass has looked at.
Passed ==
  {e \in Edges : \/ e[1] \in Marked /\ e[1] # current_object /\ check_objects[e[1]] = 0
                 \/ e[1] = current_object /\ e[2] < i}

PassedTo(o) == {e \in Passed : At(e) = o}

Traversal ==
  /\ root \in Marked
  /\ current_object \in Marked /\ check_objects[current_object] = 0
  /\ \A o \in Obj : check_objects[o] \in {0, 1} /\ (check_objects[o] # 0 => o \in Marked)
  /\ Marked \subseteq Closure
  /\ \A e \in Passed : At(e) \in Marked \cup {Null}

RedInv ==
  phase = "red" =>
    /\ Traversal
    /\ \A o \in Obj : color_map[o] \in {"none", "red"}
    /\ cycle_objects = {o \in Marked : check_objects[o] = 0}
    /\ is_cyclic_root <=> \E e \in Passed : At(e) = root

\* What has been counted down is the number of fields that were met.
GrayInv ==
  phase = "gray" =>
    /\ Traversal
    /\ \A o \in Obj : color_map[o] \in {"none", "red", "gray"}
    /\ \A o \in Marked : count_map[o] = count[o] - Cardinality(PassedTo(o))

\* The objects in use.
Used == Reachable(field, {o \in cycle_objects : External(o) # 0})

\* A field of a current or finished object.
Scanned(e) == check_objects[e[1]] = 0 /\ (e[1] = current_object => e[2] < i)

\* An object may be scanned as a white one, painted black and scanned again.
ScanInv ==
  phase = "scan" =>
    /\ color_map[root] # "gray"
    /\ current_object \in Closure
    /\ current_object_color = color_map[current_object] /\ current_object_color # "gray"
    /\ \A o \in Obj : check_objects[o] # 0 => o \in Closure
    /\ \A o \in Closure :
         /\ color_map[o] \in {"gray", "white", "black"}
         /\ color_map[o] = "gray" => check_objects[o] = 0
         /\ color_map[o] = "white" => count_map[o] = 0
         /\ color_map[o] = "black" => o \in Used
         /\ External(o) # 0 => count_map[o] # 0
         /\ count_map[o] # 0 => o \in Used
    /\ \A e \in Edges :
         (Scanned(e) /\ At(e) # Null) =>
           /\ color_map[e[1]] \in {"white", "black"} => color_map[At(e)] # "gray"
           /\ color_map[e[1]] = "black" => color_map[At(e)] = "black"

MarkInv ==
  MarkType /\ GraphInv /\ RedInv /\ GrayInv /\ RedComplete /\ ScanInv /\ VerdictCorrect

-----------------------------------------------------------------------------
(***************************************************************************)
(* Reachability.                                                           *)
(***************************************************************************)

\* What one starts from is reached.
LEMMA ReachContains ==
  ASSUME NEW f, NEW S \in SUBSET Obj
  PROVE  S \subseteq Reachable(f, S)
  BY DEF Reachable

\* What a reached object refers to is reached.
LEMMA ReachClosed ==
  ASSUME NEW f \in Heaps, NEW S
  PROVE  Closed(f, Reachable(f, S)) /\ Reachable(f, S) \subseteq Obj
  <1>1. \A o \in Obj : Children(f, o) \subseteq Obj
    BY DEF Heaps, Children, ObjOrNull
  <1> QED
    BY <1>1 DEF Reachable, Closed

\* Nothing else is reached.
LEMMA ReachLeast ==
  ASSUME NEW f, NEW S, NEW C \in SUBSET Obj, S \subseteq C, Closed(f, C)
  PROVE  Reachable(f, S) \subseteq C
  BY DEF Reachable

\* The root is in the closure, which its fields do not leave.
LEMMA ClosureFacts ==
  ASSUME MarkType
  PROVE  /\ root \in Closure /\ Closure \subseteq Obj
         /\ \A o \in Closure, s \in Slots : field[o][s] \in Closure \cup {Null}
         /\ \A o \in Obj, s \in Slots : field[o][s] \in Obj \cup {Null}
  <1>1. field \in Heaps
    BY DEF MarkType
  <1>2. root \in Closure
    BY RootAssumption, ReachContains DEF Closure
  <1>3. Closed(field, Closure) /\ Closure \subseteq Obj
    BY <1>1, ReachClosed DEF Closure
  <1>4. \A o \in Closure, s \in Slots : field[o][s] \in Closure \cup {Null}
    BY <1>3 DEF Closed, Children
  <1> QED
    BY <1>1, <1>2, <1>3, <1>4 DEF Heaps, ObjOrNull

\* There are finitely many fields.
LEMMA EdgesFinite ==
  ASSUME NEW E \in SUBSET Edges
  PROVE  IsFiniteSet(E) /\ Cardinality(E) \in Nat
  <1>1. IsFiniteSet(Slots)
    BY SlotsAssumption, FS_Interval DEF Slots
  <1>2. IsFiniteSet(Edges)
    BY <1>1, ObjAssumption, FS_Product DEF Edges
  <1>3. IsFiniteSet(E)
    BY <1>2, FS_Subset
  <1> QED
    BY <1>3, FS_CardinalityType

-----------------------------------------------------------------------------
(***************************************************************************)
(* The traversal that the red and the gray pass share.                     *)
(***************************************************************************)

\* One field: what is met for the first time is marked and pushed.
LEMMA TraverseField ==
  ASSUME MarkType, MarkType', Traversal, i \in Slots,
         UNCHANGED <<field, phase, current_object>>, i' = i + 1,
         \/ /\ field_object \in Marked \cup {Null}
            /\ UNCHANGED <<color_map, check_objects>>
         \/ /\ field_object \notin Marked \cup {Null}
            /\ Paint(field_object, phase) /\ Push(field_object)
  PROVE  /\ Traversal'
         /\ Marked' = Marked \cup ({field_object} \ {Null})
         /\ Passed' = Passed \cup {<<current_object, i>>}
         /\ <<current_object, i>> \in Edges \ Passed
         /\ \A e \in Edges : At(e)' = At(e)
         /\ \A o \in Marked : check_objects'[o] = check_objects[o]
         /\ field_object \notin Marked \cup {Null} => check_objects'[field_object] = 1
  <1>1. /\ current_object \in Obj /\ i \in Nat /\ check_objects[current_object] = 0
        /\ current_object \in Marked
    BY DEF MarkType, Traversal
  <1>2. <<current_object, i>> \in Edges \ Passed
    BY <1>1 DEF Edges, Passed
  <1>3. \A e \in Edges : At(e)' = At(e)
    BY DEF At
  <1>4. field_object \in Closure \cup {Null} /\ field_object = At(<<current_object, i>>)
    BY <1>1, ClosureFacts DEF Traversal, field_object, At
  <1>5. Closure' = Closure
    BY DEF Closure
  <1>6. CASE field_object \in Marked \cup {Null} /\ UNCHANGED <<color_map, check_objects>>
    <2>1. Marked' = Marked
      BY <1>6 DEF Marked
    <2>2. Passed' = Passed \cup {<<current_object, i>>}
      BY <1>1, <1>6, <2>1 DEF Passed, Edges, MarkType, Slots
    <2>3. \A e \in Passed' : At(e)' \in Marked' \cup {Null}
      BY <1>2, <1>3, <1>4, <1>6, <2>1, <2>2 DEF Traversal, Passed
    <2>4. Traversal'
      BY <1>5, <1>6, <2>1, <2>3 DEF Traversal
    <2> QED
      BY <1>2, <1>3, <1>6, <2>1, <2>2, <2>4
  <1>7. CASE /\ field_object \notin Marked \cup {Null}
             /\ Paint(field_object, phase) /\ Push(field_object)
    <2>1. field_object \in Obj /\ field_object \in Closure /\ field_object # current_object
      BY <1>1, <1>4, <1>7, ClosureFacts
    <2>2. /\ color_map'[field_object] = phase
          /\ \A o \in Obj \ {field_object} : color_map'[o] = color_map[o]
      BY <1>7, <2>1 DEF Paint, MarkType
    <2>3. check_objects[field_object] = 0
      BY <1>7, <2>1 DEF Traversal
    <2>4. /\ check_objects'[field_object] = 1
          /\ \A o \in Obj \ {field_object} : check_objects'[o] = check_objects[o]
      BY <1>7, <2>1, <2>3 DEF Push, MarkType
    <2>5. Marked' = Marked \cup {field_object}
      BY <2>1, <2>2 DEF Marked
    <2>6. Passed' = Passed \cup {<<current_object, i>>}
      <3>1. ASSUME NEW e \in Edges
            PROVE  e \in Passed' <=> e \in Passed \/ e = <<current_object, i>>
        <4>0. e[1] \in Obj /\ e[2] \in Slots /\ e = <<e[1], e[2]>>
          BY DEF Edges
        <4>1. CASE e[1] = field_object
          BY <1>7, <2>1, <2>4, <4>0, <4>1 DEF Passed
        <4>2. CASE e[1] # field_object /\ e[1] # current_object
          BY <2>4, <2>5, <4>0, <4>2 DEF Passed
        <4>3. CASE e[1] = current_object
          BY <1>1, <4>0, <4>3 DEF Passed, Slots
        <4> QED
          BY <4>1, <4>2, <4>3
      <3> QED
        BY <1>2, <3>1 DEF Passed
    <2>7. \A e \in Passed' : At(e)' \in Marked' \cup {Null}
      BY <1>2, <1>3, <1>4, <2>5, <2>6 DEF Traversal, Passed
    <2>8. Traversal'
      BY <1>1, <1>5, <2>1, <2>4, <2>5, <2>7 DEF Traversal
    <2>9. \A o \in Marked : check_objects'[o] = check_objects[o]
      BY <1>7, <2>4 DEF Marked
    <2> QED
      BY <1>2, <1>3, <1>7, <2>4, <2>5, <2>6, <2>8, <2>9
  <1> QED
    BY <1>6, <1>7

\* The next object from the stack: the fields passed stay the same.
LEMMA TraversePop ==
  ASSUME MarkType, Traversal, i \notin Slots, NEW o \in Obj, Pop(o),
         UNCHANGED <<field, phase, color_map>>
  PROVE  /\ Traversal' /\ Marked' = Marked /\ Passed' = Passed
         /\ \A e \in Edges : At(e)' = At(e)
         /\ {p \in Marked' : check_objects'[p] = 0}
              = {p \in Marked : check_objects[p] = 0} \cup {o}
  <1>1. i > NSlots /\ NSlots \in Nat /\ i \in Nat
    BY SlotsAssumption DEF MarkType, Slots
  <1>2. o \in Marked /\ check_objects[o] = 1 /\ o # current_object
    BY DEF Pop, Traversal, MarkType
  <1>3. /\ check_objects'[o] = 0
        /\ \A p \in Obj \ {o} : check_objects'[p] = check_objects[p]
        /\ current_object' = o /\ i' = 1
    BY <1>2 DEF Pop, MarkType
  <1>4. Marked' = Marked
    BY DEF Marked
  <1>5. \A e \in Edges : At(e)' = At(e)
    BY DEF At
  <1>6. Passed' = Passed
    <2>1. ASSUME NEW e \in Edges
          PROVE  e \in Passed' <=> e \in Passed
      <3>0. e[1] \in Obj /\ e[2] \in Slots
        BY DEF Edges
      <3>1. CASE e[1] = o
        BY <1>2, <1>3, <3>0, <3>1 DEF Passed, Slots
      <3>2. CASE e[1] = current_object
        BY <1>1, <1>2, <1>3, <1>4, <3>0, <3>2 DEF Passed, Slots, Traversal
      <3>3. CASE e[1] # o /\ e[1] # current_object
        BY <1>3, <1>4, <3>0, <3>3 DEF Passed
      <3> QED
        BY <3>1, <3>2, <3>3
    <2> QED
      BY <2>1 DEF Passed
  <1>7. \A e \in Passed' : At(e)' \in Marked' \cup {Null}
    BY <1>4, <1>5, <1>6 DEF Traversal, Passed
  <1>8. Closure' = Closure
    BY DEF Closure
  <1>9. Traversal'
    BY <1>2, <1>3, <1>4, <1>7, <1>8 DEF Traversal
  <1>10. {p \in Marked' : check_objects'[p] = 0} = {p \in Marked : check_objects[p] = 0} \cup {o}
    BY <1>2, <1>3, <1>4 DEF Marked
  <1> QED
    BY <1>4, <1>5, <1>6, <1>9, <1>10

\* The stack is empty: everything the root reaches is marked, every field of
\* it has been looked at.
LEMMA TraverseEnd ==
  ASSUME MarkType, Traversal, i \notin Slots, StackEmpty
  PROVE  /\ Marked = Closure
         /\ Passed = {e \in Edges : e[1] \in Closure}
  <1>1. i > NSlots /\ NSlots \in Nat /\ i \in Nat
    BY SlotsAssumption DEF MarkType, Slots
  <1>2. Passed = {e \in Edges : e[1] \in Marked}
    <2>1. ASSUME NEW e \in Edges
          PROVE  e \in Passed <=> e[1] \in Marked
      <3>1. e[1] \in Obj /\ e[2] \in Slots /\ check_objects[e[1]] = 0
        BY DEF Edges, StackEmpty
      <3>2. e[2] < i
        BY <1>1, <3>1 DEF Slots
      <3> QED
        BY <3>1, <3>2 DEF Passed, Traversal
    <2> QED
      BY <2>1 DEF Passed
  <1>3. Closed(field, Marked)
    <2> SUFFICES ASSUME NEW o \in Marked, NEW s \in Slots, field[o][s] # Null
                 PROVE  field[o][s] \in Marked
      BY DEF Closed, Children
    <2>1. <<o, s>> \in Passed
      BY <1>2 DEF Edges, Marked
    <2> QED
      BY <2>1 DEF Traversal, At
  <1>4. Closure \subseteq Marked
    <2>1. Marked \in SUBSET Obj /\ {root} \subseteq Marked
      BY DEF Marked, Traversal
    <2> QED
      BY <1>3, <2>1, ReachLeast DEF Closure
  <1> QED
    BY <1>2, <1>4 DEF Traversal

-----------------------------------------------------------------------------
(***************************************************************************)
(* The red pass.                                                           *)
(***************************************************************************)

\* The root is on a cycle exactly if something it reaches refers to it.
LEMMA CycleFound ==
  ASSUME MarkType
  PROVE  (\E e \in Edges : e[1] \in Closure /\ At(e) = root)
           <=> root \in Reachable(field, Children(field, root))
  <1> DEFINE K == Reachable(field, Children(field, root))
  <1>0. field \in Heaps /\ root \in Obj
    BY RootAssumption DEF MarkType
  <1>1. Children(field, root) \in SUBSET Obj
    BY <1>0 DEF Heaps, Children, ObjOrNull
  <1>2. Children(field, root) \subseteq K /\ Closed(field, K) /\ K \subseteq Obj
    BY <1>0, <1>1, ReachContains, ReachClosed
  <1> HIDE DEF K
  <1>3. ASSUME NEW e \in Edges, e[1] \in Closure, At(e) = root
        PROVE  root \in K
    <2>1. Closed(field, K \cup {root})
      BY <1>2 DEF Closed
    <2>2. Closure \subseteq K \cup {root}
      BY <1>0, <1>2, <2>1, ReachLeast DEF Closure
    <2>3. e[2] \in Slots /\ field[e[1]][e[2]] = root /\ root # Null
      BY <1>0, <1>3, NullAssumption DEF Edges, At
    <2>4. root \in Children(field, e[1])
      BY <2>3 DEF Children
    <2> QED
      BY <1>2, <1>3, <2>2, <2>4 DEF Closed
  <1>4. ASSUME \A e \in Edges : e[1] \in Closure => At(e) # root
        PROVE  root \notin K
    <2>1. \A o \in Closure, s \in Slots : field[o][s] \in (Closure \ {root}) \cup {Null}
      <3> SUFFICES ASSUME NEW o \in Closure, NEW s \in Slots
                   PROVE  field[o][s] \in (Closure \ {root}) \cup {Null}
        OBVIOUS
      <3>1. <<o, s>> \in Edges /\ field[o][s] \in Closure \cup {Null}
        BY ClosureFacts DEF Edges
      <3> QED
        BY <1>4, <3>1 DEF At
    <2>2. Closed(field, Closure \ {root}) /\ Children(field, root) \subseteq Closure \ {root}
      BY <2>1, ClosureFacts DEF Closed, Children
    <2>3. K \subseteq Closure \ {root}
      BY <2>2, ClosureFacts, ReachLeast DEF K
    <2> QED
      BY <2>3
  <1> QED
    BY <1>3, <1>4 DEF K

\* The passes leave the graph alone.
LEMMA GraphKept ==
  ASSUME GraphInv, UNCHANGED heap
  PROVE  GraphInv' /\ Closure' = Closure
  BY DEF GraphInv, Closure, heap

\* What the red pass has found out is not touched again.
LEMMA RedKept ==
  ASSUME RedComplete, phase # "red", UNCHANGED <<field, cycle_objects, is_cyclic_root>>
  PROVE  RedComplete'
  BY DEF RedComplete

\* The root is painted red, nothing has been looked at.
LEMMA InitMarkInv == Init => MarkInv
  <1> SUFFICES ASSUME Init PROVE MarkInv
    OBVIOUS
  <1>0. root \in Obj /\ field \in Heaps /\ phase = "red"
    BY RootAssumption DEF Init
  <1>1. PICK ext \in [Obj -> 0..MaxExternal] :
          count = [o \in Obj |-> Cardinality(EdgesTo(field, Obj, o)) + ext[o]]
    BY DEF Init
  <1>2. \A o \in Obj : Cardinality(EdgesTo(field, Obj, o)) \in Nat
    <2> SUFFICES ASSUME NEW o \in Obj PROVE Cardinality(EdgesTo(field, Obj, o)) \in Nat
      OBVIOUS
    <2>1. EdgesTo(field, Obj, o) \in SUBSET Edges
      BY DEF EdgesTo, Edges
    <2> QED
      BY <2>1, EdgesFinite
  <1>3. count \in [Obj -> Nat] /\ \A o \in Obj : Cardinality(EdgesTo(field, Obj, o)) <= count[o]
    BY <1>1, <1>2, ExternalAssumption
  <1>4. MarkType
    <2>1. is_cyclic_root \in BOOLEAN
      BY DEF Init
    <2> QED
      BY <1>0, <1>3, <2>1 DEF Init, MarkType, Colors
  <1>5. \A o \in Obj \ Closure : Children(field, o) = {}
    BY DEF Init, Closure, Children
  <1>6. GraphInv
    BY <1>3, <1>5 DEF GraphInv
  <1>7. Marked = {root} /\ Passed = {} /\ current_object = root
    <2>1. Marked = {root} /\ current_object = root
      BY <1>0 DEF Init, Marked
    <2> QED
      BY <2>1 DEF Init, Passed, Edges, Slots
  <1>8. Traversal
    BY <1>0, <1>4, <1>7, ClosureFacts DEF Init, Traversal
  <1>9. RedInv
    BY <1>0, <1>7, <1>8 DEF Init, RedInv
  <1> QED
    BY <1>0, <1>4, <1>6, <1>9 DEF MarkInv, GrayInv, ScanInv, RedComplete, VerdictCorrect

\* A field of the red pass.
LEMMA RedFieldInv ==
  ASSUME MarkInv, RedField
  PROVE  MarkInv'
  <1>0. /\ phase = "red" /\ i \in Slots /\ i' = i + 1
        /\ UNCHANGED <<heap, phase, current_object, current_object_color, cycle_objects, count_map>>
        /\ UNCHANGED <<field, count>>
    BY DEF RedField, AtField, NextField, heap
  <1>1. MarkType /\ Traversal /\ \A o \in Obj : color_map[o] \in {"none", "red"}
    BY <1>0 DEF MarkInv, RedInv
  <1>2. current_object \in Obj /\ i \in Nat \ {0} /\ field_object \in Obj \cup {Null}
    BY <1>0, <1>1, ClosureFacts DEF MarkType, field_object
  <1>3. CASE field_object # Null /\ color_map[field_object] = "none"
    <2>1. /\ Paint(field_object, phase) /\ Push(field_object)
          /\ UNCHANGED is_cyclic_root /\ field_object \in Obj
      BY <1>0, <1>2, <1>3 DEF RedField
    <2>2. color_map' \in [Obj -> Colors] /\ check_objects' \in [Obj -> Nat]
          /\ \A o \in Obj : color_map'[o] \in {"none", "red"}
      BY <1>0, <1>1, <2>1 DEF Paint, Push, MarkType, Colors
    <2>3. MarkType'
      BY <1>0, <1>1, <2>1, <2>2 DEF MarkType
    <2>4. field_object \notin Marked \cup {Null}
      BY <1>0, <1>3, <2>1 DEF Marked
    <2>5. /\ Traversal'
          /\ Marked' = Marked \cup {field_object}
          /\ Passed' = Passed \cup {<<current_object, i>>}
          /\ <<current_object, i>> \in Edges
          /\ \A e \in Edges : At(e)' = At(e)
          /\ \A o \in Marked : check_objects'[o] = check_objects[o]
          /\ check_objects'[field_object] = 1
      BY <1>0, <1>1, <2>1, <2>3, <2>4, TraverseField
    <2>6. cycle_objects' = {o \in Marked' : check_objects'[o] = 0}
      BY <1>0, <2>4, <2>5 DEF MarkInv, RedInv
    <2>7. At(<<current_object, i>>) # root
      <3>1. At(<<current_object, i>>) = field_object
        BY DEF At, field_object
      <3> QED
        BY <1>1, <2>4, <3>1 DEF Traversal
    <2>8. is_cyclic_root' <=> \E e \in Passed' : At(e)' = root
      <3>1. is_cyclic_root <=> \E e \in Passed : At(e) = root
        BY <1>0 DEF MarkInv, RedInv
      <3>2. Passed \subseteq Edges
        BY DEF Passed
      <3> QED
        BY <2>1, <2>5, <2>7, <3>1, <3>2
    <2>9. RedInv'
      BY <2>2, <2>5, <2>6, <2>8 DEF RedInv
    <2> QED
      BY <1>0, <2>3, <2>9, GraphKept DEF MarkInv, GrayInv, ScanInv, RedComplete, VerdictCorrect
  <1>4. CASE ~(field_object # Null /\ color_map[field_object] = "none")
    <2>1. /\ UNCHANGED <<color_map, check_objects>>
          /\ is_cyclic_root' = (is_cyclic_root \/ field_object = root)
      BY <1>4 DEF RedField
    <2>2. is_cyclic_root' \in BOOLEAN
      BY <2>1
    <2>3. MarkType'
      BY <1>0, <1>1, <2>1, <2>2 DEF MarkType
    <2>4. field_object \in Marked \cup {Null}
      BY <1>0, <1>1, <1>2, <1>4 DEF Marked
    <2>5. /\ Traversal'
          /\ Marked' = Marked \cup ({field_object} \ {Null})
          /\ Passed' = Passed \cup {<<current_object, i>>}
          /\ <<current_object, i>> \in Edges
          /\ \A e \in Edges : At(e)' = At(e)
      BY <1>0, <1>1, <2>1, <2>3, <2>4, TraverseField
    <2>6. cycle_objects' = {o \in Marked' : check_objects'[o] = 0}
      BY <1>0, <2>1, <2>4, <2>5 DEF MarkInv, RedInv
    <2>7. is_cyclic_root' <=> \E e \in Passed' : At(e)' = root
      <3>1. is_cyclic_root <=> \E e \in Passed : At(e) = root
        BY <1>0 DEF MarkInv, RedInv
      <3>2. Passed \subseteq Edges /\ At(<<current_object, i>>) = field_object
        BY DEF Passed, At, field_object
      <3> QED
        BY <2>1, <2>5, <3>1, <3>2
    <2>8. RedInv'
      BY <1>1, <2>1, <2>5, <2>6, <2>7 DEF RedInv
    <2> QED
      BY <1>0, <2>3, <2>8, GraphKept DEF MarkInv, GrayInv, ScanInv, RedComplete, VerdictCorrect
  <1> QED
    BY <1>3, <1>4

\* The next red object: its lock is taken.
LEMMA RedPopInv ==
  ASSUME MarkInv, RedPop
  PROVE  MarkInv'
  <1>0. /\ phase = "red" /\ i \notin Slots
        /\ UNCHANGED <<heap, phase, color_map, count_map, current_object_color, is_cyclic_root>>
        /\ UNCHANGED <<field, count>>
    BY DEF RedPop, AtEnd, heap
  <1>1. PICK o \in Obj : Pop(o) /\ cycle_objects' = cycle_objects \cup {o}
    BY DEF RedPop
  <1>2. MarkType /\ Traversal /\ \A p \in Obj : color_map[p] \in {"none", "red"}
    BY <1>0 DEF MarkInv, RedInv
  <1>3. check_objects' \in [Obj -> Nat] /\ current_object' \in Obj /\ i' \in Nat \ {0}
    BY <1>1, <1>2 DEF Pop, MarkType
  <1>4. MarkType'
    BY <1>0, <1>1, <1>2, <1>3 DEF MarkType
  <1>5. /\ Traversal' /\ Marked' = Marked /\ Passed' = Passed
        /\ \A e \in Edges : At(e)' = At(e)
        /\ {p \in Marked' : check_objects'[p] = 0}
             = {p \in Marked : check_objects[p] = 0} \cup {o}
    BY <1>0, <1>1, <1>2, TraversePop
  <1>6. Passed \subseteq Edges
    BY DEF Passed
  <1>7. RedInv'
    BY <1>0, <1>1, <1>2, <1>5, <1>6 DEF MarkInv, RedInv
  <1> QED
    BY <1>0, <1>4, <1>7, GraphKept DEF MarkInv, GrayInv, ScanInv, RedComplete, VerdictCorrect

\* The end of the red pass.
LEMMA RedEndInv ==
  ASSUME MarkInv, RedEnd
  PROVE  MarkInv'
  <1>0. /\ phase = "red" /\ i \notin Slots /\ StackEmpty /\ phase' \in {"gray", "done"}
        /\ UNCHANGED <<heap, check_objects, current_object_color, cycle_objects, is_cyclic_root>>
        /\ UNCHANGED <<field, count>>
    BY DEF RedEnd, AtEnd, heap
  <1>1. MarkType /\ Traversal /\ \A o \in Obj : color_map[o] \in {"none", "red"}
    BY <1>0 DEF MarkInv, RedInv
  <1>2. Marked = Closure /\ Passed = {e \in Edges : e[1] \in Closure}
    BY <1>0, <1>1, TraverseEnd
  <1>3. cycle_objects = Closure
    BY <1>0, <1>2 DEF MarkInv, RedInv, StackEmpty, Marked
  <1>4. is_cyclic_root <=> root \in Reachable(field, Children(field, root))
    <2>1. is_cyclic_root <=> \E e \in Edges : e[1] \in Closure /\ At(e) = root
      BY <1>0, <1>2 DEF MarkInv, RedInv
    <2> QED
      BY <1>1, <2>1, CycleFound
  <1>5. RedComplete'
    BY <1>0, <1>3, <1>4 DEF RedComplete, Closure
  <1>6. GraphInv' /\ Closure' = Closure
    BY <1>0, GraphKept DEF MarkInv
  <1>7. CASE is_cyclic_root
    <2>1. /\ phase' = "gray" /\ Paint(root, "gray") /\ current_object' = root /\ i' = 1
          /\ count_map' = [count_map EXCEPT ![root] = count[root]]
      BY <1>7 DEF RedEnd
    <2>2. root \in Obj /\ count[root] \in Nat
      BY <1>1, RootAssumption DEF MarkType
    <2>3. /\ color_map' \in [Obj -> Colors] /\ color_map'[root] = "gray"
          /\ \A o \in Obj \ {root} : color_map'[o] \in {"none", "red"}
      BY <1>1, <2>1, <2>2 DEF Paint, MarkType, Colors
    <2>4. count_map' \in [Obj -> Nat] /\ count_map'[root] = count[root]
      BY <1>1, <2>1, <2>2 DEF MarkType
    <2>5. MarkType'
      BY <1>0, <1>1, <2>1, <2>2, <2>3, <2>4 DEF MarkType
    <2>6. Marked' = {root}
      BY <2>1, <2>2, <2>3 DEF Marked
    <2>7. Passed' = {}
      BY <2>1, <2>6 DEF Passed, Edges, Slots
    <2>8. Traversal'
      BY <1>0, <1>1, <1>6, <2>1, <2>2, <2>6, <2>7, ClosureFacts DEF Traversal, StackEmpty
    <2>9. GrayInv'
      <3>1. PassedTo(root)' = {}
        BY <2>7 DEF PassedTo
      <3>2. Cardinality(PassedTo(root)') = 0
        BY <3>1, FS_EmptySet
      <3>3. \A o \in Marked' : count_map'[o] = count'[o] - Cardinality(PassedTo(o)')
        BY <1>0, <2>2, <2>4, <2>6, <3>2
      <3> QED
        BY <2>3, <2>8, <3>3 DEF GrayInv
    <2> QED
      BY <1>5, <1>6, <2>1, <2>5, <2>9 DEF MarkInv, RedInv, ScanInv, VerdictCorrect
  <1>8. CASE ~is_cyclic_root
    <2>1. phase' = "done" /\ UNCHANGED <<count_map, color_map, current_object, i>>
      BY <1>8 DEF RedEnd
    <2>2. MarkType'
      BY <1>0, <1>1, <2>1 DEF MarkType
    <2> QED
      BY <1>0, <1>5, <1>6, <1>8, <2>1, <2>2 DEF MarkInv, RedInv, GrayInv, ScanInv, VerdictCorrect
  <1> QED
    BY <1>7, <1>8

-----------------------------------------------------------------------------
(***************************************************************************)
(* The gray pass.                                                          *)
(***************************************************************************)

\* The edges to an object are finitely many.
LEMMA EdgesToFinite ==
  ASSUME NEW o
  PROVE  /\ IsFiniteSet(EdgesTo(field, Obj, o)) /\ Cardinality(EdgesTo(field, Obj, o)) \in Nat
         /\ IsFiniteSet(PassedTo(o)) /\ Cardinality(PassedTo(o)) \in Nat
  <1>1. EdgesTo(field, Obj, o) \in SUBSET Edges /\ PassedTo(o) \in SUBSET Edges
    BY DEF EdgesTo, Edges, PassedTo, Passed
  <1> QED
    BY <1>1, EdgesFinite

\* A field the gray pass comes to has not been counted down yet: the object in
\* it has a reference left.
LEMMA GrayMeets ==
  ASSUME MarkInv, AtField("gray"), field_object # Null
  PROVE  /\ field_object \in Obj
         /\ Cardinality(PassedTo(field_object)) + 1 <= count[field_object]
         /\ field_object \notin Marked => PassedTo(field_object) = {}
  <1> DEFINE e == <<current_object, i>>
             f == field_object
             P == PassedTo(f)
             A == EdgesTo(field, Obj, f)
  <1>1. MarkType /\ Traversal /\ i \in Slots
    BY DEF MarkInv, GrayInv, AtField
  <1>2. /\ current_object \in Obj /\ i \in Nat /\ check_objects[current_object] = 0
        /\ current_object \in Marked
    BY <1>1 DEF MarkType, Traversal
  <1>3. f \in Obj /\ At(e) = f /\ count[f] \in Nat
    BY <1>1, <1>2, ClosureFacts DEF field_object, At, MarkType
  <1>4. e \in Edges \ Passed
    BY <1>1, <1>2 DEF Edges, Passed
  <1>5. P \cup {e} \subseteq A
    BY <1>3, <1>4 DEF PassedTo, Passed, EdgesTo, Edges, At
  <1>6. e \notin P
    BY <1>4 DEF PassedTo
  <1>7. /\ IsFiniteSet(A) /\ Cardinality(A) \in Nat /\ Cardinality(A) <= count[f]
        /\ IsFiniteSet(P) /\ Cardinality(P) \in Nat
    BY <1>3, EdgesToFinite DEF MarkInv, GraphInv
  <1>8. f \notin Marked => P = {}
    BY <1>1, <1>3, NullAssumption DEF PassedTo, Traversal
  <1> HIDE DEF P, A, f, e
  <1>9. Cardinality(P \cup {e}) = Cardinality(P) + 1
    BY <1>6, <1>7, FS_AddElement
  <1>10. Cardinality(P \cup {e}) <= Cardinality(A)
    BY <1>5, <1>7, FS_Subset
  <1>11. Cardinality(P) + 1 <= count[f]
    BY <1>3, <1>7, <1>9, <1>10
  <1> QED
    BY <1>3, <1>8, <1>11 DEF f, P

\* A field of the gray pass: one reference less.
LEMMA GrayFieldInv ==
  ASSUME MarkInv, GrayField
  PROVE  MarkInv'
  <1>0. /\ phase = "gray" /\ i \in Slots /\ i' = i + 1 /\ AtField("gray")
        /\ UNCHANGED <<heap, phase, current_object, current_object_color, cycle_objects,
                       is_cyclic_root>>
        /\ UNCHANGED <<field, count>>
    BY DEF GrayField, AtField, NextField, heap
  <1>1. /\ MarkType /\ Traversal /\ \A o \in Obj : color_map[o] \in {"none", "red", "gray"}
        /\ \A o \in Marked : count_map[o] = count[o] - Cardinality(PassedTo(o))
    BY <1>0 DEF MarkInv, GrayInv
  <1>2. current_object \in Obj /\ i \in Nat \ {0} /\ field_object \in Obj \cup {Null}
    BY <1>0, <1>1, ClosureFacts DEF MarkType, field_object
  <1>3. /\ GraphInv' /\ RedComplete'
    BY <1>0, GraphKept, RedKept DEF MarkInv
  <1>4. At(<<current_object, i>>) = field_object /\ Passed \subseteq Edges
    BY DEF At, field_object, Passed
  <1>5. CASE field_object = Null
    <2>1. UNCHANGED <<color_map, count_map, check_objects>>
      BY <1>5 DEF GrayField
    <2>2. MarkType'
      BY <1>0, <1>1, <2>1 DEF MarkType
    <2>3. /\ Traversal'
          /\ Marked' = Marked
          /\ Passed' = Passed \cup {<<current_object, i>>}
          /\ \A e \in Edges : At(e)' = At(e)
      BY <1>0, <1>1, <1>5, <2>1, <2>2, TraverseField
    <2>4. \A o \in Obj : PassedTo(o)' = PassedTo(o)
      <3> SUFFICES ASSUME NEW o \in Obj PROVE PassedTo(o)' = PassedTo(o)
        OBVIOUS
      <3>1. o # Null /\ <<current_object, i>> \in Edges
        BY <1>0, <1>2, NullAssumption DEF Edges
      <3> QED
        BY <1>4, <1>5, <2>3, <3>1 DEF PassedTo
    <2>5. GrayInv'
      BY <1>0, <1>1, <2>1, <2>3, <2>4 DEF GrayInv, Marked
    <2> QED
      BY <1>0, <1>3, <2>2, <2>5 DEF MarkInv, RedInv, ScanInv, VerdictCorrect
  <1>6. CASE field_object # Null
    <2>0. PICK f : f = field_object
      OBVIOUS
    <2> USE <2>0
    <2>1. /\ f \in Obj /\ Cardinality(PassedTo(f)) + 1 <= count[f]
          /\ f \notin Marked => PassedTo(f) = {}
      BY <1>0, <1>6, GrayMeets
    <2>2. Cardinality(PassedTo(f)) \in Nat /\ IsFiniteSet(PassedTo(f)) /\ count[f] \in Nat
      BY <1>1, <2>1, EdgesToFinite DEF MarkType
    <2>3. /\ count_map' = [count_map EXCEPT ![f] = count[f] - Cardinality(PassedTo(f)) - 1]
          /\ \/ f \in Marked /\ UNCHANGED <<color_map, check_objects>>
             \/ f \notin Marked /\ Paint(f, phase) /\ Push(f)
      <3>1. CASE color_map[f] = "gray"
        <4>1. f \in Marked /\ count_map[f] > 0 /\ count_map[f] = count[f] - Cardinality(PassedTo(f))
          BY <1>0, <1>1, <2>1, <2>2, <3>1 DEF Marked
        <4>2. /\ count_map' = [count_map EXCEPT ![f] = count_map[f] - 1]
              /\ UNCHANGED <<color_map, check_objects>>
          BY <1>6, <3>1, <4>1 DEF GrayField
        <4> QED
          BY <4>1, <4>2
      <3>2. CASE color_map[f] # "gray"
        <4>1. f \notin Marked /\ Cardinality(PassedTo(f)) = 0
          BY <1>0, <2>1, <3>2, FS_EmptySet DEF Marked
        <4>2. /\ count_map' = [count_map EXCEPT ![f] = count[f] - 1]
              /\ Paint(f, phase) /\ Push(f)
          BY <1>0, <1>6, <3>2 DEF GrayField
        <4>3. count[f] - 1 = count[f] - Cardinality(PassedTo(f)) - 1
          BY <2>2, <4>1
        <4> QED
          BY <4>1, <4>2, <4>3
      <3> QED
        BY <3>1, <3>2
    <2>4. /\ count_map' \in [Obj -> Nat]
          /\ count_map'[f] = count[f] - Cardinality(PassedTo(f)) - 1
          /\ \A o \in Obj \ {f} : count_map'[o] = count_map[o]
      BY <1>1, <2>1, <2>2, <2>3 DEF MarkType
    <2>5. /\ color_map' \in [Obj -> Colors] /\ check_objects' \in [Obj -> Nat]
          /\ \A o \in Obj : color_map'[o] \in {"none", "red", "gray"}
      <3>1. CASE UNCHANGED <<color_map, check_objects>>
        BY <1>1, <3>1 DEF MarkType
      <3>2. CASE Paint(f, phase) /\ Push(f)
        BY <1>0, <1>1, <2>1, <3>2 DEF Paint, Push, MarkType, Colors
      <3> QED
        BY <2>3, <3>1, <3>2
    <2>6. MarkType'
      BY <1>0, <1>1, <2>4, <2>5 DEF MarkType
    <2>7. /\ Traversal'
          /\ Marked' = Marked \cup {f}
          /\ Passed' = Passed \cup {<<current_object, i>>}
          /\ <<current_object, i>> \in Edges \ Passed
          /\ \A e \in Edges : At(e)' = At(e)
      BY <1>0, <1>1, <1>6, <2>3, <2>6, TraverseField
    <2>8. PassedTo(f)' = PassedTo(f) \cup {<<current_object, i>>}
      BY <1>4, <2>7 DEF PassedTo
    <2>9. \A o \in Obj \ {f} : PassedTo(o)' = PassedTo(o)
      BY <1>4, <2>7 DEF PassedTo
    <2>10. Cardinality(PassedTo(f)') = Cardinality(PassedTo(f)) + 1
      <3>1. <<current_object, i>> \notin PassedTo(f)
        BY <2>7 DEF PassedTo
      <3> QED
        BY <2>2, <2>8, <3>1, FS_AddElement
    <2>11. \A o \in Marked' : count_map'[o] = count'[o] - Cardinality(PassedTo(o)')
      <3> SUFFICES ASSUME NEW o \in Marked'
                   PROVE  count_map'[o] = count[o] - Cardinality(PassedTo(o)')
        BY <1>0
      <3>1. CASE o = f
        BY <2>2, <2>4, <2>10, <3>1
      <3>2. CASE o # f
        BY <1>1, <2>4, <2>7, <2>9, <3>2 DEF Marked
      <3> QED
        BY <3>1, <3>2
    <2>12. GrayInv'
      BY <2>5, <2>7, <2>11 DEF GrayInv
    <2> QED
      BY <1>0, <1>3, <2>6, <2>12 DEF MarkInv, RedInv, ScanInv, VerdictCorrect
  <1> QED
    BY <1>5, <1>6

\* The next gray object.
LEMMA GrayPopInv ==
  ASSUME MarkInv, GrayPop
  PROVE  MarkInv'
  <1>0. /\ phase = "gray" /\ i \notin Slots
        /\ UNCHANGED <<heap, phase, color_map, count_map, current_object_color, cycle_objects,
                       is_cyclic_root>>
        /\ UNCHANGED <<field, count>>
    BY DEF GrayPop, AtEnd, heap
  <1>1. PICK o \in Obj : Pop(o)
    BY DEF GrayPop
  <1>2. /\ MarkType /\ Traversal
        /\ \A p \in Obj : color_map[p] \in {"none", "red", "gray"}
        /\ \A p \in Marked : count_map[p] = count[p] - Cardinality(PassedTo(p))
    BY <1>0 DEF MarkInv, GrayInv
  <1>3. check_objects' \in [Obj -> Nat] /\ current_object' \in Obj /\ i' \in Nat \ {0}
    BY <1>1, <1>2 DEF Pop, MarkType
  <1>4. MarkType'
    BY <1>0, <1>2, <1>3 DEF MarkType
  <1>5. /\ Traversal' /\ Marked' = Marked /\ Passed' = Passed
        /\ \A e \in Edges : At(e)' = At(e)
    BY <1>0, <1>1, <1>2, TraversePop
  <1>6. \A p \in Obj : PassedTo(p)' = PassedTo(p)
    BY <1>5 DEF PassedTo, Passed
  <1>7. GrayInv'
    BY <1>0, <1>2, <1>5, <1>6 DEF GrayInv, Marked
  <1> QED
    BY <1>0, <1>4, <1>7, GraphKept, RedKept DEF MarkInv, RedInv, ScanInv, VerdictCorrect

\* The end of the gray pass: what is left of a count are the references from
\* outside.
LEMMA GrayEndInv ==
  ASSUME MarkInv, GrayEnd
  PROVE  MarkInv'
  <1>0. /\ phase = "gray" /\ i \notin Slots /\ StackEmpty /\ phase' = "scan"
        /\ current_object' = root /\ i' = 1
        /\ UNCHANGED <<heap, check_objects, count_map, cycle_objects, is_cyclic_root>>
        /\ UNCHANGED <<field, count>>
    BY DEF GrayEnd, AtEnd, heap
  <1>1. /\ MarkType /\ Traversal /\ \A o \in Obj : color_map[o] \in {"none", "red", "gray"}
        /\ \A o \in Marked : count_map[o] = count[o] - Cardinality(PassedTo(o))
    BY <1>0 DEF MarkInv, GrayInv
  <1>2. Marked = Closure /\ Passed = {e \in Edges : e[1] \in Closure}
    BY <1>0, <1>1, TraverseEnd
  <1>3. GraphInv' /\ Closure' = Closure /\ RedComplete'
    BY <1>0, GraphKept, RedKept DEF MarkInv
  <1>4. cycle_objects = Closure
    BY <1>0 DEF MarkInv, RedComplete, Closure
  <1>5. \A o \in Closure : count_map[o] = External(o)
    <2> SUFFICES ASSUME NEW o \in Closure PROVE count_map[o] = External(o)
      OBVIOUS
    <2>1. o \in Obj /\ o # Null
      BY <1>1, ClosureFacts, NullAssumption
    <2>2. PassedTo(o) = EdgesTo(field, Obj, o)
      <3>1. ASSUME NEW e \in Edges, At(e) = o PROVE e[1] \in Closure
        <4>1. e[1] \in Obj /\ e[2] \in Slots /\ field[e[1]][e[2]] = o
          BY <3>1 DEF Edges, At
        <4>2. o \in Children(field, e[1])
          BY <2>1, <4>1 DEF Children
        <4> QED
          BY <4>1, <4>2 DEF MarkInv, GraphInv
      <3> QED
        BY <1>2, <3>1 DEF PassedTo, EdgesTo, Edges, At
    <2> QED
      BY <1>1, <1>2, <2>2 DEF External
  <1> DEFINE c == IF count_map[root] = 0 THEN "white" ELSE "black"
  <1>6. color_map' = [color_map EXCEPT ![root] = c] /\ current_object_color' = c
    BY DEF GrayEnd, Paint
  <1>7. c \in {"white", "black"} /\ (c = "white" <=> count_map[root] = 0)
    OBVIOUS
  <1> HIDE DEF c
  <1>8. root \in Obj /\ root \in Closure /\ Closure \subseteq Obj
    BY <1>1, RootAssumption, ClosureFacts
  <1>9. /\ color_map' \in [Obj -> Colors] /\ color_map'[root] = c
        /\ \A o \in Obj \ {root} : color_map'[o] = color_map[o]
    BY <1>1, <1>6, <1>7, <1>8 DEF MarkType, Colors
  <1>10. MarkType'
    BY <1>0, <1>1, <1>6, <1>7, <1>8, <1>9 DEF MarkType, Colors
  <1>11. /\ Used' = Used /\ \A o \in Obj : External(o)' = External(o)
    BY <1>0 DEF Used, External
  <1>12. \A o \in Closure : External(o) # 0 => o \in Used
    <2>1. {o \in cycle_objects : External(o) # 0} \in SUBSET Obj
      BY <1>4, <1>8
    <2> QED
      BY <1>4, <2>1, ReachContains DEF Used
  <1>13. \A o \in Closure \ {root} : color_map'[o] = "gray"
    BY <1>0, <1>2, <1>8, <1>9 DEF Marked
  <1>14. \A o \in Closure' :
           /\ color_map'[o] \in {"gray", "white", "black"}
           /\ color_map'[o] = "gray" => check_objects'[o] = 0
           /\ color_map'[o] = "white" => count_map'[o] = 0
           /\ color_map'[o] = "black" => o \in Used'
           /\ External(o)' # 0 => count_map'[o] # 0
           /\ count_map'[o] # 0 => o \in Used'
    BY <1>0, <1>3, <1>5, <1>7, <1>8, <1>9, <1>11, <1>12, <1>13 DEF StackEmpty
  <1>15. ASSUME NEW e \in Edges, Scanned(e)'
         PROVE  color_map'[e[1]] \notin {"white", "black"}
    <2>1. e[1] \in Obj /\ e[2] \in Slots /\ e[1] # root
      BY <1>0, <1>15 DEF Edges, Scanned, Slots
    <2> QED
      BY <1>1, <1>9, <2>1
  <1>16. ScanInv'
    BY <1>0, <1>3, <1>6, <1>7, <1>8, <1>9, <1>14, <1>15 DEF ScanInv, StackEmpty
  <1> QED
    BY <1>0, <1>3, <1>10, <1>16 DEF MarkInv, RedInv, GrayInv, VerdictCorrect

-----------------------------------------------------------------------------
(***************************************************************************)
(* The scan.                                                               *)
(***************************************************************************)

\* What the scan says about one object and about one field.
ObjectScan(o) ==
  /\ color_map[o] \in {"gray", "white", "black"}
  /\ color_map[o] = "gray" => check_objects[o] = 0
  /\ color_map[o] = "white" => count_map[o] = 0
  /\ color_map[o] = "black" => o \in Used
  /\ External(o) # 0 => count_map[o] # 0
  /\ count_map[o] # 0 => o \in Used

EdgeScan(e) ==
  /\ color_map[e[1]] \in {"white", "black"} => color_map[At(e)] # "gray"
  /\ color_map[e[1]] = "black" => color_map[At(e)] = "black"

\* What an object in use refers to is in use.
LEMMA UsedClosed ==
  ASSUME MarkType, NEW o \in Used, NEW s \in Slots, field[o][s] # Null
  PROVE  field[o][s] \in Used
  <1>1. field \in Heaps
    BY DEF MarkType
  <1>2. Closed(field, Used)
    BY <1>1, ReachClosed DEF Used
  <1> QED
    BY <1>2 DEF Closed, Children

\* What the scan does not change.
LEMMA ScanKept ==
  ASSUME MarkInv, phase = "scan", UNCHANGED <<heap, cycle_objects, is_cyclic_root>>
  PROVE  /\ GraphInv' /\ RedComplete' /\ Closure' = Closure /\ Used' = Used
         /\ \A o \in Obj : External(o)' = External(o)
         /\ \A e \in Edges : At(e)' = At(e)
  <1>1. UNCHANGED <<field, count>>
    BY DEF heap
  <1>2. GraphInv' /\ RedComplete' /\ Closure' = Closure
    BY <1>1, GraphKept, RedKept DEF MarkInv
  <1>3. Used' = Used /\ \A o \in Obj : External(o)' = External(o)
    BY <1>1 DEF Used, External
  <1> QED
    BY <1>1, <1>2, <1>3 DEF At

\* A field of the scan.
LEMMA ScanFieldInv ==
  ASSUME MarkInv, ScanField
  PROVE  MarkInv'
  <1>0. /\ phase = "scan" /\ i \in Slots /\ i' = i + 1 /\ phase' = "scan"
        /\ UNCHANGED <<heap, cycle_objects, is_cyclic_root>>
        /\ UNCHANGED <<field, count, current_object, current_object_color>>
    BY DEF ScanField, AtField, NextField, heap
  <1>1. /\ MarkType /\ color_map[root] # "gray"
        /\ current_object \in Closure
        /\ current_object_color = color_map[current_object] /\ current_object_color # "gray"
        /\ \A o \in Obj : check_objects[o] # 0 => o \in Closure
        /\ \A o \in Closure : ObjectScan(o)
        /\ \A e \in Edges : (Scanned(e) /\ At(e) # Null) => EdgeScan(e)
    BY <1>0 DEF MarkInv, ScanInv, ObjectScan, EdgeScan
  <1>2. /\ GraphInv' /\ RedComplete' /\ Closure' = Closure /\ Used' = Used
        /\ \A o \in Obj : External(o)' = External(o)
        /\ \A e \in Edges : At(e)' = At(e)
    BY <1>0, ScanKept
  <1>3. PICK f : f = field_object
    OBVIOUS
  <1>4. /\ root \in Closure /\ Closure \subseteq Obj /\ current_object \in Obj
        /\ f \in Closure \cup {Null} /\ i \in Nat \ {0}
        /\ At(<<current_object, i>>) = f
    BY <1>0, <1>1, <1>3, ClosureFacts DEF MarkType, field_object, At
  <1>5. SUFFICES /\ MarkType' /\ color_map'[root] # "gray"
                 /\ color_map'[current_object] = color_map[current_object]
                 /\ \A o \in Obj : check_objects'[o] # 0 => o \in Closure
                 /\ \A o \in Closure : ObjectScan(o)'
                 /\ \A e \in Edges : (Scanned(e)' /\ At(e) # Null) => EdgeScan(e)'
    <2>1. ScanInv'
      BY <1>0, <1>1, <1>2, <1>5 DEF ScanInv, ObjectScan, EdgeScan
    <2> QED
      BY <1>0, <1>2, <1>5, <2>1 DEF MarkInv, RedInv, GrayInv, VerdictCorrect
  <1>6. ASSUME NEW e \in Edges, Scanned(e)', UNCHANGED check_objects \/ (f \in Obj /\ Push(f))
        PROVE  /\ Scanned(e) \/ e = <<current_object, i>>
               /\ (f \in Obj /\ Push(f)) => e[1] # f
    <2>1. e[1] \in Obj /\ e[2] \in Slots /\ e[2] \in Nat /\ e = <<e[1], e[2]>>
      BY DEF Edges, Slots
    <2>2. check_objects'[e[1]] = 0 /\ (e[1] = current_object => e[2] < i + 1)
      BY <1>0, <1>6 DEF Scanned
    <2>3. CASE UNCHANGED check_objects /\ ~(f \in Obj /\ Push(f))
      BY <1>4, <2>1, <2>2, <2>3 DEF Scanned
    <2>4. CASE f \in Obj /\ Push(f)
      <3>1. f \in Obj /\ check_objects \in [Obj -> Nat]
        BY <1>1, <1>6, <2>4 DEF MarkType
      <3>2. /\ check_objects'[f] = check_objects[f] + 1 /\ check_objects[f] \in Nat
            /\ \A o \in Obj \ {f} : check_objects'[o] = check_objects[o]
        BY <2>4, <3>1 DEF Push
      <3>3. e[1] # f
        BY <2>2, <3>2
      <3> QED
        BY <1>4, <2>1, <2>2, <3>2, <3>3 DEF Scanned
    <2> QED
      BY <1>6, <2>3, <2>4
  <1>7. CASE f = Null
    <2>1. UNCHANGED <<color_map, count_map, check_objects>>
      BY <1>3, <1>7, <1>1, NullAssumption DEF ScanField
    <2>2. MarkType'
      BY <1>0, <1>1, <2>1 DEF MarkType
    <2>3. \A o \in Closure : ObjectScan(o)'
      BY <1>1, <1>2, <1>4, <2>1 DEF ObjectScan
    <2>4. \A e \in Edges : (Scanned(e)' /\ At(e) # Null) => EdgeScan(e)'
      BY <1>1, <1>2, <1>4, <1>6, <1>7, <2>1 DEF EdgeScan
    <2> QED
      BY <1>1, <2>1, <2>2, <2>3, <2>4
  <1>8. CASE f # Null
    <2>1. f \in Closure /\ f \in Obj /\ ObjectScan(f) /\ f = field[current_object][i]
      BY <1>1, <1>3, <1>4, <1>8 DEF field_object
    <2>2. ScanFromWhite \/ ScanFromBlack
      BY <1>3, <1>8 DEF ScanField
    <2>3. CASE UNCHANGED <<color_map, count_map, check_objects>> /\ ScanFromWhite
      <3>1. color_map[f] # "gray" /\ color_map[current_object] = "white"
        BY <1>1, <1>3, <2>1, <2>3, <1>4 DEF ScanFromWhite, ObjectScan, Push, Paint, MarkType
      <3>2. MarkType'
        BY <1>0, <1>1, <2>3 DEF MarkType
      <3>3. \A o \in Closure : ObjectScan(o)'
        BY <1>1, <1>2, <1>4, <2>3 DEF ObjectScan
      <3>4. \A e \in Edges : (Scanned(e)' /\ At(e) # Null) => EdgeScan(e)'
        BY <1>1, <1>2, <1>4, <1>6, <2>1, <2>3, <3>1 DEF EdgeScan
      <3> QED
        BY <1>1, <2>3, <3>2, <3>3, <3>4
    <2>4. ASSUME NEW c \in {"white", "black"}, Paint(f, c), Push(f), color_map[f] # "black",
                 c = "white" => /\ color_map[f] = "gray" /\ count_map'[f] = 0
                                /\ color_map[current_object] = "white",
                 c = "black" => f \in Used /\ current_object # f,
                 count_map' \in [Obj -> Nat],
                 \A o \in Obj \ {f} : count_map'[o] = count_map[o],
                 count_map[f] # 0 => count_map'[f] # 0,
                 count_map'[f] # 0 => f \in Used
          PROVE  /\ MarkType' /\ color_map'[root] # "gray"
                 /\ color_map'[current_object] = color_map[current_object]
                 /\ \A o \in Obj : check_objects'[o] # 0 => o \in Closure
                 /\ \A o \in Closure : ObjectScan(o)'
                 /\ \A e \in Edges : (Scanned(e)' /\ At(e) # Null) => EdgeScan(e)'
      <3>1. /\ color_map' \in [Obj -> Colors] /\ color_map'[f] = c
            /\ \A o \in Obj \ {f} : color_map'[o] = color_map[o]
        BY <1>1, <2>1, <2>4 DEF Paint, MarkType, Colors
      <3>2. /\ check_objects' \in [Obj -> Nat] /\ check_objects'[f] # 0
            /\ \A o \in Obj \ {f} : check_objects'[o] = check_objects[o]
        BY <1>1, <2>1, <2>4 DEF Push, MarkType
      <3>3. MarkType'
        BY <1>0, <1>1, <2>4, <3>1, <3>2 DEF MarkType
      <3>4. current_object # f
        BY <1>1, <2>4
      <3>5. \A o \in Closure : ObjectScan(o)'
        <4> SUFFICES ASSUME NEW o \in Closure PROVE ObjectScan(o)'
          OBVIOUS
        <4>1. o \in Obj /\ ObjectScan(o)
          BY <1>1, <1>4
        <4>2. CASE o = f
          BY <1>2, <2>1, <2>4, <3>1, <3>2, <4>1, <4>2 DEF ObjectScan
        <4>3. CASE o # f
          BY <1>2, <2>4, <3>1, <3>2, <4>1, <4>3 DEF ObjectScan
        <4> QED
          BY <4>2, <4>3
      <3>6. ASSUME NEW e \in Edges, Scanned(e)', At(e) # Null
            PROVE  EdgeScan(e)'
        <4>1. /\ Scanned(e) \/ e = <<current_object, i>>
              /\ e[1] # f
          BY <1>6, <2>1, <2>4, <3>6
        <4>2. e[1] \in Obj /\ color_map'[e[1]] = color_map[e[1]]
          BY <3>1, <4>1 DEF Edges
        <4>3. At(e) \in Obj
          BY <1>1, <3>6, ClosureFacts DEF Edges, At
        <4>4. CASE e = <<current_object, i>>
          <5>1. At(e) = f /\ e[1] = current_object
            BY <1>4, <4>4
          <5> QED
            BY <1>2, <2>4, <3>1, <4>2, <5>1 DEF EdgeScan
        <4>5. CASE Scanned(e) /\ At(e) = f
          <5>1. EdgeScan(e)
            BY <1>1, <3>6, <4>5
          <5> QED
            BY <1>2, <2>4, <3>1, <4>2, <4>5, <5>1 DEF EdgeScan
        <4>6. CASE Scanned(e) /\ At(e) # f
          <5>1. EdgeScan(e)
            BY <1>1, <3>6, <4>6
          <5> QED
            BY <1>2, <3>1, <4>2, <4>3, <4>6, <5>1 DEF EdgeScan
        <4> QED
          BY <4>1, <4>4, <4>5, <4>6
      <3> QED
        BY <1>1, <1>4, <2>1, <2>4, <3>1, <3>2, <3>3, <3>4, <3>5, <3>6
    <2>5. CASE ScanFromWhite
      <3>1. color_map[current_object] = "white" /\ count_map' = count_map
            /\ count_map \in [Obj -> Nat] /\ count_map[current_object] = 0
        BY <1>1, <2>5 DEF ScanFromWhite, MarkType, ObjectScan
      <3>2. CASE count_map[f] = 0 /\ color_map[f] = "gray"
        <4>1. Paint(f, "white") /\ Push(f)
          BY <1>3, <2>5, <3>2 DEF ScanFromWhite
        <4> QED
          BY <2>4, <3>1, <3>2, <4>1
      <3>3. CASE count_map[f] # 0 /\ color_map[f] # "black"
        <4>1. Paint(f, "black") /\ Push(f) /\ f \in Used /\ current_object # f
          BY <1>3, <2>1, <2>5, <3>1, <3>3 DEF ScanFromWhite, ObjectScan
        <4> QED
          BY <2>4, <3>1, <3>3, <4>1
      <3>4. CASE \/ count_map[f] = 0 /\ color_map[f] # "gray"
                 \/ count_map[f] # 0 /\ color_map[f] = "black"
        BY <1>3, <2>3, <2>5, <3>4 DEF ScanFromWhite
      <3> QED
        BY <3>2, <3>3, <3>4
    <2>6. CASE ScanFromBlack
      <3>1. color_map[current_object] = "black" /\ current_object \in Used
        BY <1>1, <2>6 DEF ScanFromBlack, ObjectScan
      <3>2. f \in Used
        BY <1>0, <1>1, <1>8, <2>1, <3>1, UsedClosed
      <3>3. /\ count_map' \in [Obj -> Nat] /\ count_map'[f] # 0
            /\ \A o \in Obj \ {f} : count_map'[o] = count_map[o]
        <4>1. count_map' = [count_map EXCEPT ![f] = count_map[f] + 1]
          BY <1>3, <2>6 DEF ScanFromBlack
        <4>2. count_map \in [Obj -> Nat] /\ count_map[f] + 1 \in Nat \ {0}
          BY <1>1, <2>1 DEF MarkType
        <4> QED
          BY <2>1, <4>1, <4>2
      <3>4. CASE color_map[f] # "black"
        <4>1. Paint(f, "black") /\ Push(f) /\ current_object # f
          BY <1>3, <2>6, <3>1, <3>4 DEF ScanFromBlack
        <4> QED
          BY <2>4, <3>2, <3>3, <3>4, <4>1
      <3>5. CASE color_map[f] = "black"
        <4>1. UNCHANGED <<color_map, check_objects>>
          BY <1>3, <2>6, <3>5 DEF ScanFromBlack
        <4>2. MarkType'
          BY <1>0, <1>1, <3>3, <4>1 DEF MarkType
        <4>3. \A o \in Closure : ObjectScan(o)'
          <5> SUFFICES ASSUME NEW o \in Closure PROVE ObjectScan(o)'
            OBVIOUS
          <5>1. o \in Obj /\ ObjectScan(o)
            BY <1>1, <1>4
          <5>2. CASE o = f
            BY <1>2, <3>2, <3>3, <3>5, <4>1, <5>1, <5>2 DEF ObjectScan
          <5>3. CASE o # f
            BY <1>2, <3>3, <4>1, <5>1, <5>3 DEF ObjectScan
          <5> QED
            BY <5>2, <5>3
        <4>4. \A e \in Edges : (Scanned(e)' /\ At(e) # Null) => EdgeScan(e)'
          BY <1>1, <1>2, <1>4, <1>6, <2>1, <3>5, <4>1 DEF EdgeScan
        <4> QED
          BY <1>1, <4>1, <4>2, <4>3, <4>4
      <3> QED
        BY <3>4, <3>5
    <2> QED
      BY <2>2, <2>5, <2>6
  <1> QED
    BY <1>7, <1>8

\* The next object of the scan, with the color it has by now.
LEMMA ScanPopInv ==
  ASSUME MarkInv, ScanPop
  PROVE  MarkInv'
  <1>0. /\ phase = "scan" /\ i \notin Slots /\ phase' = "scan"
        /\ UNCHANGED <<heap, cycle_objects, is_cyclic_root>>
        /\ UNCHANGED <<field, count, color_map, count_map>>
    BY DEF ScanPop, AtEnd, heap
  <1>1. PICK o \in Obj : Pop(o) /\ current_object_color' = color_map[o]
    BY DEF ScanPop
  <1>2. /\ MarkType /\ color_map[root] # "gray"
        /\ \A p \in Obj : check_objects[p] # 0 => p \in Closure
        /\ \A p \in Closure : ObjectScan(p)
        /\ \A e \in Edges : (Scanned(e) /\ At(e) # Null) => EdgeScan(e)
    BY <1>0 DEF MarkInv, ScanInv, ObjectScan, EdgeScan
  <1>3. /\ GraphInv' /\ RedComplete' /\ Closure' = Closure /\ Used' = Used
        /\ \A p \in Obj : External(p)' = External(p)
        /\ \A e \in Edges : At(e)' = At(e)
    BY <1>0, ScanKept
  <1>4. /\ check_objects' \in [Obj -> Nat] /\ current_object' = o /\ i' = 1
        /\ check_objects[o] # 0 /\ check_objects'[o] = check_objects[o] - 1
        /\ \A p \in Obj \ {o} : check_objects'[p] = check_objects[p]
    BY <1>1, <1>2 DEF Pop, MarkType
  <1>5. o \in Closure /\ Closure \subseteq Obj /\ color_map[o] \in Colors \ {"gray"}
    BY <1>2, <1>4, ClosureFacts DEF ObjectScan, Colors
  <1>6. MarkType'
    BY <1>0, <1>1, <1>2, <1>4, <1>5 DEF MarkType
  <1>7. \A p \in Closure : ObjectScan(p)'
    <2> SUFFICES ASSUME NEW p \in Closure PROVE ObjectScan(p)'
      OBVIOUS
    <2>1. p \in Obj /\ ObjectScan(p)
      BY <1>2, <1>5
    <2>2. color_map[p] = "gray" => check_objects'[p] = 0
      BY <1>4, <1>5, <2>1 DEF ObjectScan
    <2> QED
      BY <1>0, <1>3, <2>1, <2>2 DEF ObjectScan
  <1>8. \A p \in Obj : check_objects'[p] # 0 => p \in Closure
    BY <1>2, <1>4, <1>5
  <1>9. ASSUME NEW e \in Edges, Scanned(e)', At(e) # Null
        PROVE  EdgeScan(e)'
    <2>1. e[1] \in Obj /\ e[2] \in 1..NSlots
      BY DEF Edges, Slots
    <2>2. e[1] # o /\ check_objects[e[1]] = 0
      BY <1>4, <1>9, <2>1 DEF Scanned
    <2>3. e[2] < i
      BY <1>0, <1>2, <2>1, SlotsAssumption DEF MarkType, Slots
    <2>4. EdgeScan(e)
      BY <1>2, <1>9, <2>2, <2>3 DEF Scanned
    <2> QED
      BY <1>0, <1>3, <2>4 DEF EdgeScan
  <1>10. ScanInv'
    BY <1>0, <1>1, <1>2, <1>3, <1>4, <1>5, <1>7, <1>8, <1>9 DEF ScanInv, ObjectScan, EdgeScan
  <1> QED
    BY <1>0, <1>3, <1>6, <1>10 DEF MarkInv, RedInv, GrayInv, VerdictCorrect

\* The stack is empty: black is what the objects in use lead to, and the rest
\* of what the root reaches is white.
LEMMA ScanEndInv ==
  ASSUME MarkInv, ScanEnd
  PROVE  MarkInv'
  <1>0. /\ phase = "scan" /\ i \notin Slots /\ phase' = "done" /\ StackEmpty
        /\ UNCHANGED <<heap, cycle_objects, is_cyclic_root>>
        /\ UNCHANGED <<field, count, current_object, i, check_objects, color_map, count_map,
                       current_object_color>>
    BY DEF ScanEnd, AtEnd, heap
  <1>1. /\ MarkType /\ color_map[root] # "gray"
        /\ \A o \in Closure : ObjectScan(o)
        /\ \A e \in Edges : (Scanned(e) /\ At(e) # Null) => EdgeScan(e)
    BY <1>0 DEF MarkInv, ScanInv, ObjectScan, EdgeScan
  <1>2. /\ GraphInv' /\ RedComplete' /\ Closure' = Closure /\ Used' = Used
        /\ \A o \in Obj : External(o)' = External(o)
    BY <1>0, ScanKept
  <1>3. MarkType'
    BY <1>0, <1>1 DEF MarkType
  <1>4. cycle_objects = Closure /\ Closure \subseteq Obj /\ root \in Closure
    BY <1>0, <1>1, ClosureFacts DEF MarkInv, RedComplete, Closure
  <1>5. ASSUME NEW o \in Closure, NEW s \in Slots, field[o][s] # Null
        PROVE  /\ field[o][s] \in Closure
               /\ color_map[o] # "gray" => color_map[field[o][s]] # "gray"
               /\ color_map[o] = "black" => color_map[field[o][s]] = "black"
    <2>1. <<o, s>> \in Edges /\ At(<<o, s>>) = field[o][s]
      BY <1>4 DEF Edges, At
    <2>2. s < i
      BY <1>0, <1>1, SlotsAssumption DEF MarkType, Slots
    <2>3. Scanned(<<o, s>>)
      BY <1>0, <1>4, <2>2 DEF Scanned, StackEmpty
    <2>4. EdgeScan(<<o, s>>) /\ ObjectScan(o)
      BY <1>1, <1>5, <2>1, <2>3
    <2> QED
      BY <1>1, <1>5, <2>1, <2>4, ClosureFacts DEF EdgeScan, ObjectScan
  <1> DEFINE Visited == {o \in Closure : color_map[o] # "gray"}
             Black == {o \in Closure : color_map[o] = "black"}
             X == {o \in cycle_objects : External(o) # 0}
  <1>6. Closure \subseteq Visited
    <2>1. Closed(field, Visited) /\ Visited \in SUBSET Obj /\ {root} \subseteq Visited
      BY <1>1, <1>4, <1>5 DEF Closed, Children
    <2> HIDE DEF Visited
    <2> QED
      BY <2>1, ReachLeast DEF Closure
  <1>7. X \subseteq Black
    BY <1>1, <1>4, <1>6 DEF ObjectScan
  <1>8. Used \subseteq Black
    <2>1. Closed(field, Black) /\ Black \in SUBSET Obj
      BY <1>4, <1>5 DEF Closed, Children
    <2> HIDE DEF Black
    <2> QED
      BY <1>7, <2>1, ReachLeast DEF Used
  <1>9. Black \subseteq Used
    BY <1>1 DEF ObjectScan
  <1>10. WhiteObjects = cycle_objects \ Used
    BY <1>1, <1>4, <1>6, <1>8, <1>9 DEF WhiteObjects, ObjectScan
  <1>11. WhiteObjects' = WhiteObjects
    BY <1>0 DEF WhiteObjects
  <1>12. VerdictCorrect'
    BY <1>0, <1>2, <1>10, <1>11 DEF VerdictCorrect, Used
  <1> QED
    BY <1>0, <1>2, <1>3, <1>12 DEF MarkInv, RedInv, GrayInv, ScanInv

\* Every step keeps the invariant.
LEMMA NextMarkInv == MarkInv /\ [Next]_vars => MarkInv'
  <1> SUFFICES ASSUME MarkInv, [Next]_vars PROVE MarkInv'
    OBVIOUS
  <1>1. CASE Next
    BY <1>1, RedFieldInv, RedPopInv, RedEndInv, GrayFieldInv, GrayPopInv, GrayEndInv,
       ScanFieldInv, ScanPopInv, ScanEndInv DEF Next
  <1>2. CASE UNCHANGED vars
    <2>1. UNCHANGED <<field, count, phase, current_object, i, check_objects, color_map,
                      count_map, current_object_color, cycle_objects, is_cyclic_root>>
      BY <1>2 DEF vars, heap
    <2>2. MarkType'
      BY <2>1 DEF MarkInv, MarkType
    <2>3. Closure' = Closure /\ Marked' = Marked /\ WhiteObjects' = WhiteObjects
      BY <2>1 DEF Closure, Marked, WhiteObjects
    <2>4. \A o : External(o)' = External(o)
      BY <2>1 DEF External
    <2>5. Used' = Used
      BY <2>1 DEF Used, External
    <2>6. \A e : At(e)' = At(e) /\ (Scanned(e)' <=> Scanned(e))
      BY <2>1 DEF At, Scanned
    <2>7. Passed' = Passed
      BY <2>1, <2>3 DEF Passed
    <2>8. \A o : PassedTo(o)' = PassedTo(o)
      BY <2>6, <2>7 DEF PassedTo
    <2>9. Traversal' <=> Traversal
      BY <2>1, <2>3, <2>6, <2>7 DEF Traversal
    <2>10. GraphInv'
      BY <2>1, <2>3 DEF MarkInv, GraphInv
    <2>11. RedInv'
      BY <2>1, <2>3, <2>6, <2>7, <2>9 DEF MarkInv, RedInv
    <2>12. GrayInv'
      BY <2>1, <2>3, <2>8, <2>9 DEF MarkInv, GrayInv
    <2>13. RedComplete'
      BY <2>1 DEF MarkInv, RedComplete
    <2>14. ScanInv'
      BY <2>1, <2>3, <2>4, <2>5, <2>6 DEF MarkInv, ScanInv
    <2>15. VerdictCorrect'
      BY <2>1, <2>3, <2>5 DEF MarkInv, VerdictCorrect, Used
    <2> QED
      BY <2>2, <2>10, <2>11, <2>12, <2>13, <2>14, <2>15 DEF MarkInv
  <1> QED
    BY <1>1, <1>2

\* The invariant holds throughout.
LEMMA MarkInvAlways == Spec => []MarkInv
  BY InitMarkInv, NextMarkInv, PTL DEF Spec

-----------------------------------------------------------------------------
\* "Mark red" locks exactly what the root reaches, and is_cyclic_root is right.
THEOREM RedPassComplete == Spec => []RedComplete
  <1>1. MarkInv => RedComplete
    BY DEF MarkInv
  <1> QED
    BY <1>1, MarkInvAlways, PTL

\* "Collect white" condemns what nothing in use leads to, and all of it, in
\* every graph.
THEOREM TrialDeletionCorrect == Spec => []VerdictCorrect
  <1>1. MarkInv => VerdictCorrect
    BY DEF MarkInv
  <1> QED
    BY <1>1, MarkInvAlways, PTL

\* "Mark gray" counts no reference twice: its diagnostics are never printed.
THEOREM NoCountBelowZero == Spec => []NoDiagnostic
  <1>1. MarkInv => NoDiagnostic
    <2> SUFFICES ASSUME MarkInv, AtField("gray"), field_object # Null
                 PROVE  IF color_map[field_object] = "gray" THEN count_map[field_object] > 0
                                                            ELSE count[field_object] > 0
      BY DEF NoDiagnostic
    <2>1. /\ field_object \in Obj
          /\ Cardinality(PassedTo(field_object)) + 1 <= count[field_object]
      BY GrayMeets
    <2>2. Cardinality(PassedTo(field_object)) \in Nat /\ count[field_object] \in Nat
      BY <2>1, EdgesToFinite DEF MarkInv, MarkType
    <2>3. field_object \in Marked =>
            count_map[field_object] = count[field_object] - Cardinality(PassedTo(field_object))
      BY DEF MarkInv, GrayInv, AtField
    <2>4. color_map[field_object] = "gray" => field_object \in Marked
      BY <2>1 DEF Marked, AtField
    <2> QED
      BY <2>1, <2>2, <2>3, <2>4
  <1> QED
    BY <1>1, MarkInvAlways, PTL
=============================================================================
