--------------------------- MODULE CycleCollector ---------------------------
(***************************************************************************)
(* CycleCollector::gc_collect of gc/GC.cpp, run again and again by the     *)
(* collector thread (func2 of CatLa.cpp).  collector_lock admits one       *)
(* collection at a time, so one Collector thread stands for its holder.    *)
(*                                                                         *)
(* For every suspected root: lock everything reachable from it (red); if   *)
(* the root is on a cycle load the reference counts (gray), keep what is   *)
(* referenced from outside (black) and condemn the rest (white); if it is  *)
(* not, condemn it when mutators have already given it up.  Then give up   *)
(* the references the condemned objects hold and return their cells.       *)
(*                                                                         *)
(* The marking passes between the loads of the counts and the unlocking    *)
(* read only fields of objects the collector has locked: they are one step *)
(* here (MarkWhite) and are modelled loop by loop in module TrialDeletion. *)
(***************************************************************************)
EXTENDS RefCount

CONSTANT Collector

ASSUME CollectorAssumption == Collector \in Threads

VARIABLES
  roots,             \* the list taken from suspected_object_list
  pending,           \* roots the outer loop has still to visit
  root,              \* the root it is visiting
  todo,              \* check_objects
  current, idx,      \* current_object and the field index
  seen,              \* the keys of color_map
  is_cyclic_root,
  cycle_objects,     \* the objects locked for this root
  counted, count_map,  \* the keys of count_map and what was loaded
  non_cycle_objects,
  release_objects, releasing

rootVars == <<root, todo, current, idx, seen, is_cyclic_root, cycle_objects,
              counted, count_map, non_cycle_objects>>
collectorVars == <<roots, pending, rootVars, release_objects, releasing>>

-----------------------------------------------------------------------------
\* The references to o that the traversal did not meet.
ExternalCount(o) == count_map[o] - Cardinality(EdgesTo(field, cycle_objects, o))

\* Fault: what an object in use leads to is not spared.
WhiteUnspared == {o \in cycle_objects : ExternalCount(o) = 0}

\* The verdict of the marking passes: white is what no object with an
\* external reference leads to.
White == cycle_objects \ Reachable(field, {o \in cycle_objects : ExternalCount(o) # 0})

CollectorAt(label) == pc[Collector] = label
CollectorGoto(label) == Goto(Collector, label) /\ UNCHANGED <<ret, tgt, loopVars, waitVars>>

ForgetRoot ==
  /\ root' = Null /\ current' = Null /\ idx' = 1 /\ todo' = {} /\ seen' = {}
  /\ is_cyclic_root' = FALSE /\ cycle_objects' = {} /\ counted' = {}
  /\ count_map' = [o \in Obj |-> 0] /\ non_cycle_objects' = {}

-----------------------------------------------------------------------------
(***************************************************************************)
(* Take the list, visit the roots.                                         *)
(***************************************************************************)
MoveList ==
  /\ CollectorAt("idle")
  /\ roots' = suspected_object_list
  /\ pending' = suspected_object_list
  /\ suspected_object_list' = {}
  /\ CollectorGoto("next_root")
  /\ UNCHANGED <<heapVars, rootVars, release_objects, releasing>>

BeginRoot ==
  /\ CollectorAt("next_root")
  /\ \E r \in pending :
       /\ pending' = pending \ {r}
       /\ root' = r
       /\ current' = r
       /\ seen' = {r}
  /\ CollectorGoto("red")
  /\ UNCHANGED <<heapVars, suspected_object_list, roots, todo, idx, is_cyclic_root,
                 cycle_objects, counted, count_map, non_cycle_objects,
                 release_objects, releasing>>

\* Fault: the collector does not wait for the lock.
RedLockAtOnce ==
  /\ CollectorAt("red")
  /\ lock_flag' = [lock_flag EXCEPT ![current] = TRUE]
  /\ cycle_objects' = cycle_objects \cup {current}
  /\ CollectorGoto("red_read")
  /\ UNCHANGED <<state, count, async_release, field, suspected_object_list, roots,
                 pending, root, todo, current, idx, seen, is_cyclic_root, counted,
                 count_map, non_cycle_objects, release_objects, releasing>>

\* object_lock(current_object)
RedLock ==
  /\ CollectorAt("red")
  /\ ~lock_flag[current]
  /\ lock_flag' = [lock_flag EXCEPT ![current] = TRUE]
  /\ cycle_objects' = cycle_objects \cup {current}
  /\ CollectorGoto("red_read")
  /\ UNCHANGED <<state, count, async_release, field, suspected_object_list, roots,
                 pending, root, todo, current, idx, seen, is_cyclic_root, counted,
                 count_map, non_cycle_objects, release_objects, releasing>>

RedRead ==
  LET f == field[current][idx] IN
  /\ CollectorAt("red_read") /\ idx \in Slots
  /\ idx' = idx + 1
  /\ IF f # Null /\ f \notin seen
     THEN seen' = seen \cup {f} /\ todo' = todo \cup {f} /\ UNCHANGED is_cyclic_root
     ELSE is_cyclic_root' = (is_cyclic_root \/ f = root) /\ UNCHANGED <<seen, todo>>
  /\ UNCHANGED <<heapVars, suspected_object_list, callVars, roots, pending, root,
                 current, cycle_objects, counted, count_map, non_cycle_objects,
                 release_objects, releasing>>

RedNext ==
  /\ CollectorAt("red_read") /\ idx \notin Slots
  /\ idx' = 1
  /\ \/ \E o \in todo :
          /\ current' = o
          /\ todo' = todo \ {o}
          /\ CollectorGoto("red")
     \/ /\ todo = {}
        /\ current' = Null
        /\ CollectorGoto(IF is_cyclic_root THEN "gray" ELSE "red_unlock")
        /\ UNCHANGED todo
  /\ UNCHANGED <<heapVars, suspected_object_list, roots, pending, root, seen,
                 is_cyclic_root, cycle_objects, counted, count_map,
                 non_cycle_objects, release_objects, releasing>>

-----------------------------------------------------------------------------
(***************************************************************************)
(* A root on a cycle.                                                      *)
(***************************************************************************)
GrayLoad ==
  /\ CollectorAt("gray")
  /\ \E o \in cycle_objects \ counted :
       /\ counted' = counted \cup {o}
       /\ count_map' = [count_map EXCEPT ![o] = count[o]]
  /\ UNCHANGED <<heapVars, suspected_object_list, callVars, roots, pending, root, todo,
                 current, idx, seen, is_cyclic_root, cycle_objects, non_cycle_objects,
                 release_objects, releasing>>

MarkWhite ==
  /\ CollectorAt("gray") /\ counted = cycle_objects
  /\ state' = [o \in Obj |-> IF o \in White THEN "waiting_for_gc" ELSE state[o]]
  /\ release_objects' = release_objects \cup White
  /\ CollectorGoto("red_unlock")
  /\ UNCHANGED <<count, async_release, lock_flag, field, suspected_object_list, roots,
                 pending, rootVars, releasing>>

\* object_unlock for every object of cycle_objects
UnlockAll ==
  /\ CollectorAt("red_unlock")
  /\ lock_flag' = [o \in Obj |-> lock_flag[o] /\ o \notin cycle_objects]
  /\ \/ /\ is_cyclic_root
        /\ CollectorGoto("next_root")
        /\ ForgetRoot
     \/ /\ ~is_cyclic_root
        /\ CollectorGoto("check")
        /\ todo' = {root}
        /\ cycle_objects' = {}
        /\ UNCHANGED <<root, current, idx, seen, is_cyclic_root, counted, count_map,
                       non_cycle_objects>>
  /\ UNCHANGED <<state, count, async_release, field, suspected_object_list, roots,
                 pending, release_objects, releasing>>

(***************************************************************************)
(* A root on no cycle is condemned, with everything below it, once all of  *)
(* it is in state waiting_for_gc.                                          *)
(***************************************************************************)
CheckWaiting ==
  /\ CollectorAt("check")
  /\ \E o \in todo :
       LET found == non_cycle_objects \cup {o}
           rest  == (todo \ {o}) \cup (Children(field, o) \ found) IN
       \/ /\ state[o] # "waiting_for_gc"
          /\ CollectorGoto("next_root")
          /\ ForgetRoot
          /\ UNCHANGED release_objects
       \/ /\ state[o] = "waiting_for_gc" /\ rest = {}
          /\ release_objects' = release_objects \cup found
          /\ CollectorGoto("next_root")
          /\ ForgetRoot
       \/ /\ state[o] = "waiting_for_gc" /\ rest # {}
          /\ non_cycle_objects' = found
          /\ todo' = rest
          /\ UNCHANGED <<callVars, root, current, idx, seen, is_cyclic_root,
                         cycle_objects, counted, count_map, release_objects>>
  /\ UNCHANGED <<heapVars, suspected_object_list, roots, pending, releasing>>

-----------------------------------------------------------------------------
(***************************************************************************)
(* Release the condemned objects.                                          *)
(***************************************************************************)
EndRoots ==
  /\ CollectorAt("next_root") /\ pending = {}
  /\ releasing' = release_objects
  /\ CollectorGoto("release")
  /\ UNCHANGED <<heapVars, suspected_object_list, roots, pending, rootVars, release_objects>>

EraseReleased ==
  /\ CollectorAt("release")
  /\ \E o \in releasing :
       /\ releasing' = releasing \ {o}
       /\ current' = o
       /\ roots' = roots \ {o}
       /\ suspected_object_list' =
            IF Suspected(o) THEN suspected_object_list \ {o} ELSE suspected_object_list
  /\ CollectorGoto("release_field")
  /\ UNCHANGED <<heapVars, pending, root, todo, idx, seen, is_cyclic_root,
                 cycle_objects, counted, count_map, non_cycle_objects, release_objects>>

\* Fault: the objects that are being released are given up like live ones.
ReleaseFieldAny ==
  LET f == field[current][idx] IN
  /\ CollectorAt("release_field") /\ idx \in Slots
  /\ idx' = idx + 1
  /\ IF f # Null
     THEN CallDecrement(Collector, f, "release_field") /\ UNCHANGED <<loopVars, waitVars>>
     ELSE UNCHANGED callVars
  /\ UNCHANGED <<heapVars, suspected_object_list, roots, pending, root, todo, current,
                 seen, is_cyclic_root, cycle_objects, counted, count_map,
                 non_cycle_objects, release_objects, releasing>>

ReleaseField ==
  LET f == field[current][idx] IN
  /\ CollectorAt("release_field") /\ idx \in Slots
  /\ idx' = idx + 1
  /\ IF f # Null /\ state[f] = "live"
     THEN CallDecrement(Collector, f, "release_field") /\ UNCHANGED <<loopVars, waitVars>>
     ELSE UNCHANGED callVars
  /\ UNCHANGED <<heapVars, suspected_object_list, roots, pending, root, todo, current,
                 seen, is_cyclic_root, cycle_objects, counted, count_map,
                 non_cycle_objects, release_objects, releasing>>

ReleaseNext ==
  /\ CollectorAt("release_field") /\ idx \notin Slots
  /\ idx' = 1 /\ current' = Null
  /\ CollectorGoto("release")
  /\ UNCHANGED <<heapVars, suspected_object_list, roots, pending, root, todo, seen,
                 is_cyclic_root, cycle_objects, counted, count_map,
                 non_cycle_objects, release_objects, releasing>>

EndRelease ==
  /\ CollectorAt("release") /\ releasing = {}
  /\ CollectorGoto("kill")
  /\ UNCHANGED <<heapVars, suspected_object_list, collectorVars>>

\* state.store(dead), one object after the other
Kill ==
  /\ CollectorAt("kill")
  /\ \E o \in release_objects :
       /\ state' = [state EXCEPT ![o] = "dead"]
       /\ release_objects' = release_objects \ {o}
  /\ UNCHANGED <<count, async_release, lock_flag, field, suspected_object_list, callVars,
                 roots, pending, rootVars, releasing>>

\* Fault: the surviving roots are forgotten.
ReinsertNothing ==
  /\ CollectorAt("kill") /\ release_objects = {}
  /\ roots' = {}
  /\ CollectorGoto("idle")
  /\ UNCHANGED <<heapVars, suspected_object_list, pending, rootVars, release_objects, releasing>>

\* The surviving roots stay suspected; collector_lock is released.
Reinsert ==
  /\ CollectorAt("kill") /\ release_objects = {}
  /\ suspected_object_list' = suspected_object_list \cup roots
  /\ roots' = {}
  /\ CollectorGoto("idle")
  /\ UNCHANGED <<heapVars, pending, rootVars, release_objects, releasing>>

CollectorStep ==
  \/ MoveList \/ BeginRoot \/ RedLock \/ RedRead \/ RedNext
  \/ GrayLoad \/ MarkWhite \/ UnlockAll \/ CheckWaiting
  \/ EndRoots \/ EraseReleased \/ ReleaseField \/ ReleaseNext \/ EndRelease
  \/ Kill \/ Reinsert

CollectorTypeOK ==
  /\ roots \subseteq Obj /\ pending \subseteq Obj /\ todo \subseteq Obj
  /\ seen \subseteq Obj /\ cycle_objects \subseteq Obj /\ counted \subseteq Obj
  /\ non_cycle_objects \subseteq Obj /\ release_objects \subseteq Obj
  /\ releasing \subseteq Obj
  /\ root \in ObjOrNull /\ current \in ObjOrNull /\ idx \in Nat
  /\ is_cyclic_root \in BOOLEAN
  /\ count_map \in [Obj -> 0..SizeMax]
=============================================================================
