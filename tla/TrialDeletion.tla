---------------------------- MODULE TrialDeletion ----------------------------
(***************************************************************************)
(* The marking passes of CycleCollector::gc_collect for one suspected root *)
(* (gc/GC.cpp, "Mark red" to "Collect white"), field by field.  Module     *)
(* CycleCollector takes their verdict in one step, since the collector     *)
(* holds the locks of everything they read; here is why that verdict is    *)
(* the one it takes.                                                       *)
(*                                                                         *)
(* The graph and the counts are arbitrary and do not change.               *)
(* check_objects is a multiset, popped in any order: the scan may push an  *)
(* object twice.                                                           *)
(***************************************************************************)
EXTENDS ObjectGraph

CONSTANTS
  root,          \* the suspected object marking starts from
  MaxExternal    \* bound: references to one object from outside the graph

ASSUME RootAssumption == root \in Obj
ASSUME ExternalAssumption == MaxExternal \in Nat

VARIABLES
  field, count,                   \* the heap, not changed by marking
  phase,                          \* the loop that is running
  current_object, i,
  check_objects,                  \* check_objects[o]: how often o is on the stack
  color_map, count_map,
  current_object_color,           \* read once per object by the scan
  cycle_objects, is_cyclic_root

heap == <<field, count>>
vars == <<heap, phase, current_object, i, check_objects, color_map, count_map,
          current_object_color, cycle_objects, is_cyclic_root>>

\* References to o from locals and from objects the root does not reach.
External(o) == count[o] - Cardinality(EdgesTo(field, Obj, o))

\* Every graph whose objects the root reaches, with every number of external
\* references; the cells the root does not reach are empty.
Init ==
  /\ field \in Heaps
  /\ \E ext \in [Obj -> 0..MaxExternal] :
       count = [o \in Obj |-> Cardinality(EdgesTo(field, Obj, o)) + ext[o]]
  /\ \A o \in Obj \ Reachable(field, {root}) :
       count[o] = 0 /\ field[o] = [s \in Slots |-> Null]
  /\ phase = "red"
  /\ current_object = root /\ i = 1
  /\ check_objects = [o \in Obj |-> 0]
  /\ color_map = [o \in Obj |-> IF o = root THEN "red" ELSE "none"]
  /\ count_map = [o \in Obj |-> 0]
  /\ current_object_color = "none"
  /\ cycle_objects = {root}
  /\ is_cyclic_root = FALSE

-----------------------------------------------------------------------------
AtField(p) == phase = p /\ i \in Slots
AtEnd(p)   == phase = p /\ i \notin Slots

field_object == field[current_object][i]

Push(o) == check_objects' = [check_objects EXCEPT ![o] = @ + 1]
Paint(o, c) == color_map' = [color_map EXCEPT ![o] = c]
StackEmpty == \A o \in Obj : check_objects[o] = 0

\* Fault: the top of the stack is read and not popped.
Peek(o) ==
  /\ check_objects[o] > 0
  /\ current_object' = o
  /\ i' = 1
  /\ UNCHANGED check_objects

\* Update current object.
Pop(o) ==
  /\ check_objects[o] > 0
  /\ check_objects' = [check_objects EXCEPT ![o] = @ - 1]
  /\ current_object' = o
  /\ i' = 1

NextField ==
  /\ i' = i + 1
  /\ UNCHANGED <<heap, phase, current_object, current_object_color, cycle_objects>>

(***************************************************************************)
(* Mark red.                                                               *)
(***************************************************************************)

\* Fault: a later field takes back that the root is on a cycle.
RedFieldForgets ==
  /\ AtField("red")
  /\ IF field_object # Null /\ color_map[field_object] = "none"
     THEN Paint(field_object, "red") /\ Push(field_object) /\ UNCHANGED is_cyclic_root
     ELSE is_cyclic_root' = (field_object = root) /\ UNCHANGED <<color_map, check_objects>>
  /\ NextField
  /\ UNCHANGED count_map

RedField ==
  /\ AtField("red")
  /\ IF field_object # Null /\ color_map[field_object] = "none"
     THEN Paint(field_object, "red") /\ Push(field_object) /\ UNCHANGED is_cyclic_root
     ELSE /\ is_cyclic_root' = (is_cyclic_root \/ field_object = root)
          /\ UNCHANGED <<color_map, check_objects>>
  /\ NextField
  /\ UNCHANGED count_map

RedPop ==
  /\ AtEnd("red")
  /\ \E o \in Obj : Pop(o) /\ cycle_objects' = cycle_objects \cup {o}
  /\ UNCHANGED <<heap, phase, color_map, count_map, current_object_color, is_cyclic_root>>

RedEnd ==
  /\ AtEnd("red") /\ StackEmpty
  /\ \/ /\ is_cyclic_root
        /\ phase' = "gray"
        /\ count_map' = [count_map EXCEPT ![root] = count[root]]
        /\ Paint(root, "gray")
        /\ current_object' = root /\ i' = 1
     \/ /\ ~is_cyclic_root
        /\ phase' = "done"
        /\ UNCHANGED <<count_map, color_map, current_object, i>>
  /\ UNCHANGED <<heap, check_objects, current_object_color, cycle_objects, is_cyclic_root>>

(***************************************************************************)
(* Mark gray: one reference less for every edge met.                       *)
(***************************************************************************)

\* Fault: an object is visited again whenever it is met.
GrayFieldRevisits ==
  /\ AtField("gray")
  /\ \/ field_object = Null /\ UNCHANGED <<color_map, count_map, check_objects>>
     \/ /\ field_object # Null
        /\ Paint(field_object, "gray")
        /\ Push(field_object)
        /\ count_map' = [count_map EXCEPT ![field_object] =
             IF color_map[field_object] # "gray" THEN count[field_object] - 1
             ELSE IF @ > 0 THEN @ - 1 ELSE @]
  /\ NextField
  /\ UNCHANGED is_cyclic_root

GrayField ==
  /\ AtField("gray")
  /\ \/ /\ field_object = Null
        /\ UNCHANGED <<color_map, count_map, check_objects>>
     \/ /\ field_object # Null /\ color_map[field_object] = "gray"
        /\ count_map' = [count_map EXCEPT ![field_object] = IF @ > 0 THEN @ - 1 ELSE @]
        /\ UNCHANGED <<color_map, check_objects>>
     \/ /\ field_object # Null /\ color_map[field_object] # "gray"
        /\ Paint(field_object, "gray")
        /\ Push(field_object)
        /\ count_map' = [count_map EXCEPT ![field_object] = count[field_object] - 1]
  /\ NextField
  /\ UNCHANGED is_cyclic_root

GrayPop ==
  /\ AtEnd("gray")
  /\ \E o \in Obj : Pop(o)
  /\ UNCHANGED <<heap, phase, color_map, count_map, current_object_color, cycle_objects,
                 is_cyclic_root>>

GrayEnd ==
  /\ AtEnd("gray") /\ StackEmpty
  /\ phase' = "scan"
  /\ current_object' = root /\ i' = 1
  /\ LET c == IF count_map[root] = 0 THEN "white" ELSE "black" IN
       Paint(root, c) /\ current_object_color' = c
  /\ UNCHANGED <<heap, check_objects, count_map, cycle_objects, is_cyclic_root>>

(***************************************************************************)
(* Mark white or black.                                                    *)
(***************************************************************************)
ScanFromWhite ==
  /\ current_object_color = "white"
  /\ \/ /\ count_map[field_object] = 0 /\ color_map[field_object] = "gray"
        /\ Paint(field_object, "white")
        /\ Push(field_object)
     \/ /\ count_map[field_object] = 0 /\ color_map[field_object] # "gray"
        /\ UNCHANGED <<color_map, check_objects>>
     \/ /\ count_map[field_object] # 0 /\ color_map[field_object] # "black"
        /\ Paint(field_object, "black")
        /\ Push(field_object)
     \/ /\ count_map[field_object] # 0 /\ color_map[field_object] = "black"
        /\ UNCHANGED <<color_map, check_objects>>
  /\ UNCHANGED count_map

\* Fault: what a black object refers to is spared, what lies below it is not.
ScanFromBlackOnce ==
  /\ current_object_color = "black"
  /\ count_map' = [count_map EXCEPT ![field_object] = @ + 1]
  /\ Paint(field_object, "black")
  /\ UNCHANGED check_objects

ScanFromBlack ==
  /\ current_object_color = "black"
  /\ count_map' = [count_map EXCEPT ![field_object] = @ + 1]
  /\ IF color_map[field_object] # "black"
     THEN Paint(field_object, "black") /\ Push(field_object)
     ELSE UNCHANGED <<color_map, check_objects>>

ScanField ==
  /\ AtField("scan")
  /\ \/ field_object = Null /\ UNCHANGED <<color_map, count_map, check_objects>>
     \/ field_object # Null /\ (ScanFromWhite \/ ScanFromBlack)
  /\ NextField
  /\ UNCHANGED is_cyclic_root

ScanPop ==
  /\ AtEnd("scan")
  /\ \E o \in Obj : Pop(o) /\ current_object_color' = color_map[o]
  /\ UNCHANGED <<heap, phase, color_map, count_map, cycle_objects, is_cyclic_root>>

\* Collect white: the verdict is read off color_map.
ScanEnd ==
  /\ AtEnd("scan") /\ StackEmpty
  /\ phase' = "done"
  /\ UNCHANGED <<heap, current_object, i, check_objects, color_map, count_map,
                 current_object_color, cycle_objects, is_cyclic_root>>

Next ==
  \/ RedField \/ RedPop \/ RedEnd
  \/ GrayField \/ GrayPop \/ GrayEnd
  \/ ScanField \/ ScanPop \/ ScanEnd

Spec == Init /\ [][Next]_vars

\* The passes run in one thread, which keeps running.
FairSpec == Spec /\ WF_vars(Next)

-----------------------------------------------------------------------------
WhiteObjects == {o \in cycle_objects : color_map[o] = "white"}

\* The red pass locks exactly what the root reaches, and finds out whether
\* the root is on a cycle.
RedComplete ==
  phase # "red" =>
    /\ cycle_objects = Reachable(field, {root})
    /\ is_cyclic_root <=> root \in Reachable(field, Children(field, root))

\* When marking ends, the white objects are those that no object with an
\* external reference leads to: nothing in use is condemned, and no garbage
\* the root reaches is spared.
VerdictCorrect ==
  (phase = "done" /\ is_cyclic_root) =>
    WhiteObjects =
      cycle_objects \ Reachable(field, {o \in cycle_objects : External(o) # 0})

\* The gray pass never takes a reference from an object that has none left:
\* the diagnostics "1 ... ?????" and "2 ... ?????" are never printed.
NoDiagnostic ==
  (AtField("gray") /\ field_object # Null) =>
     IF color_map[field_object] = "gray" THEN count_map[field_object] > 0
                                         ELSE count[field_object] > 0

\* Marking ends, whatever the graph.
MarkingEnds == <>(phase = "done")
=============================================================================
