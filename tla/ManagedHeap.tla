----------------------------- MODULE ManagedHeap -----------------------------
(***************************************************************************)
(* The managed heap: mutator threads that use objects through the field    *)
(* accessors of CatLa.cpp, the collector thread, which collects again and  *)
(* again, and the main thread that gives up the module object at the end.  *)
(* Harness restricts this to how the program ends.                         *)
(*                                                                         *)
(* A mutator is any client that obeys the ownership rules the harness      *)
(* func1 obeys: it calls an accessor only on the module object or on an    *)
(* object it holds a counted reference to, hands over a reference it owns  *)
(* and drops every reference once.  Which calls it makes is free.          *)
(*                                                                         *)
(* An accessor's critical section (object_lock, one field access,          *)
(* object_unlock) is one step, enabled while the lock is free, except in   *)
(* get_clone_object_field, which increments inside the critical section.   *)
(***************************************************************************)
EXTENDS CycleCollector

CONSTANTS
  Mutators,   \* the threads that run func1
  Main,       \* the thread that runs main
  Module,     \* module_object
  Refers,     \* <<p, q>>: the declared types allow a field of p to hold q
  MaxHeld     \* bound: references the mutators hold at a time, together

ASSUME ThreadsAssumption ==
  /\ Threads = Mutators \cup {Main, Collector}
  /\ Main \notin Mutators /\ Collector \notin Mutators /\ Main # Collector
ASSUME ModuleAssumption == Module \in Obj \ CyclicType
ASSUME RefersAssumption == Refers \subseteq Obj \X Obj
ASSUME HeldAssumption == MaxHeld \in Nat \ {0}

\* A size_t counts every field, local and argument that can hold a reference.
ASSUME SizeSuffices ==
  /\ IsFiniteSet(Threads)
  /\ Cardinality(Obj \X Slots) + Cardinality((Mutators \cup {Main}) \X (1..MaxHeld))
       + Cardinality(Threads) < SizeMax

\* What is_cycling_type means: an object of another type is on no cycle.
ASSUME AcyclicTypes ==
  \A o \in Obj \ CyclicType : \E C \in SUBSET (Obj \ {o}) :
     \A e \in Refers : (e[1] = o \/ e[1] \in C) => e[2] \in C

VARIABLES
  held,       \* held[m][o]: counted references to o in the locals of m
  par, slot   \* the field a running accessor works on

mutatorVars == <<held, par, slot>>
vars == <<heapVars, suspected_object_list, callVars, collectorVars, mutatorVars>>

Owners == Mutators \cup {Main}

\* main has allocated the module object.  It fills the fields with objects
\* before it starts the threads; here mutators do, by Malloc and SetMove.
Init ==
  /\ state = [o \in Obj |-> IF o = Module THEN "live" ELSE "dead"]
  /\ count = [o \in Obj |-> IF o = Module THEN 1 ELSE 0]
  /\ async_release = [o \in Obj |-> FALSE]
  /\ lock_flag = [o \in Obj |-> FALSE]
  /\ field = [o \in Obj |-> [i \in Slots |-> Null]]
  /\ suspected_object_list = {}
  /\ pc = [t \in Threads |-> "idle"] /\ ret = [t \in Threads |-> "idle"]
  /\ tgt = [t \in Threads |-> Null]
  /\ dr_object = [t \in Threads |-> Null] /\ wg_object = [t \in Threads |-> Null]
  /\ dr_index = [t \in Threads |-> 1] /\ wg_index = [t \in Threads |-> 1]
  /\ dr_check = [t \in Threads |-> {}] /\ wg_check = [t \in Threads |-> {}]
  /\ wg_release = [t \in Threads |-> {}] /\ wg_roots = [t \in Threads |-> {}]
  /\ roots = {} /\ pending = {} /\ release_objects = {} /\ releasing = {}
  /\ root = Null /\ current = Null /\ idx = 1 /\ todo = {} /\ seen = {}
  /\ is_cyclic_root = FALSE /\ cycle_objects = {} /\ counted = {}
  /\ count_map = [o \in Obj |-> 0] /\ non_cycle_objects = {}
  /\ held = [m \in Owners |-> [o \in Obj |-> IF m = Main /\ o = Module THEN 1 ELSE 0]]
  /\ par = [m \in Mutators |-> Null]
  /\ slot = [m \in Mutators |-> 1]

-----------------------------------------------------------------------------
(***************************************************************************)
(* The mutators.                                                           *)
(***************************************************************************)
CanUse(m, p) == p = Module \/ held[m][p] > 0
\* How many references the mutators hold, counted one by one.
Holding == Cardinality({e \in Mutators \X Obj \X (1..MaxHeld) : e[3] <= held[e[1]][e[2]]})
Gain(m, o) == held' = [held EXCEPT ![m][o] = @ + 1]
Lose(m, o) == held' = [held EXCEPT ![m][o] = @ - 1]

\* The end of HeapChunk::malloc: any dead cell may be handed out.  lock_flag
\* is left as it is.
Malloc(m, o) ==
  /\ pc[m] = "idle"
  /\ state[o] = "dead" /\ o # Module
  /\ Holding < MaxHeld
  /\ field' = [field EXCEPT ![o] = [i \in Slots |-> Null]]
  /\ async_release' = [async_release EXCEPT ![o] = FALSE]
  /\ state' = [state EXCEPT ![o] = "live"]
  /\ count' = [count EXCEPT ![o] = 1]
  /\ Gain(m, o)
  /\ UNCHANGED <<lock_flag, suspected_object_list, callVars, collectorVars, par, slot>>

\* get_clone_object_field on a field that holds an object; on an empty field
\* it returns nullptr and changes nothing.
GetClone(m, p, i) ==
  LET f == field[p][i] IN
  /\ pc[m] = "idle"
  /\ CanUse(m, p)
  /\ ~lock_flag[p]
  /\ f # Null
  /\ Holding < MaxHeld
  /\ lock_flag' = [lock_flag EXCEPT ![p] = TRUE]
  /\ par' = [par EXCEPT ![m] = p]
  /\ IncrementReferenceCount(m, f, "unlock")
  /\ UNCHANGED <<state, async_release, field, suspected_object_list, collectorVars, held, slot>>

GetCloneUnlock(m) ==
  /\ pc[m] = "unlock"
  /\ lock_flag' = [lock_flag EXCEPT ![par[m]] = FALSE]
  /\ Gain(m, tgt[m])
  /\ par' = [par EXCEPT ![m] = Null]
  /\ tgt' = [tgt EXCEPT ![m] = Null]
  /\ Goto(m, "idle")
  /\ UNCHANGED <<state, count, async_release, field, suspected_object_list, ret, loopVars, waitVars,
                 collectorVars, slot>>

\* Fault: nullptr is given up like an object.
GiveUpOldUnchecked(m, old) == CallDecrement(m, old, "idle")

\* After a field was overwritten: decrement_reference_count(old_field_object).
GiveUpOld(m, old) ==
  IF old # Null
  THEN CallDecrement(m, old, "idle")
  ELSE Goto(m, "idle") /\ tgt' = [tgt EXCEPT ![m] = Null] /\ UNCHANGED ret

\* set_clone_object_field: the increment before the critical section ...
SetClone(m, p, i, o) ==
  /\ pc[m] = "idle"
  /\ CanUse(m, p) /\ held[m][o] > 0 /\ <<p, o>> \in Refers
  /\ par' = [par EXCEPT ![m] = p]
  /\ slot' = [slot EXCEPT ![m] = i]
  /\ IncrementReferenceCount(m, o, "swap")
  /\ UNCHANGED <<state, async_release, lock_flag, field, suspected_object_list,
                 collectorVars, held>>

\* ... and the critical section.
SetCloneSwap(m) ==
  LET p == par[m]
      old == field[p][slot[m]] IN
  /\ pc[m] = "swap"
  /\ ~lock_flag[p]
  /\ field' = [field EXCEPT ![p][slot[m]] = tgt[m]]
  /\ par' = [par EXCEPT ![m] = Null]
  /\ slot' = [slot EXCEPT ![m] = 1]
  /\ GiveUpOld(m, old)
  /\ UNCHANGED <<state, count, async_release, lock_flag, suspected_object_list, loopVars, waitVars,
                 collectorVars, held>>

\* Fault: the field is exchanged without its object's lock.
SetMoveUnlocked(m, p, i, o) ==
  /\ pc[m] = "idle"
  /\ CanUse(m, p) /\ held[m][o] > (IF p = o THEN 1 ELSE 0) /\ <<p, o>> \in Refers
  /\ field' = [field EXCEPT ![p][i] = o]
  /\ Lose(m, o)
  /\ GiveUpOld(m, field[p][i])
  /\ UNCHANGED <<state, count, async_release, lock_flag, suspected_object_list, loopVars, waitVars,
                 collectorVars, par, slot>>

\* set_move_object_field: the caller's reference becomes the field's.
SetMove(m, p, i, o) ==
  /\ pc[m] = "idle"
  /\ CanUse(m, p) /\ held[m][o] > (IF p = o THEN 1 ELSE 0) /\ <<p, o>> \in Refers
  /\ ~lock_flag[p]
  /\ field' = [field EXCEPT ![p][i] = o]
  /\ Lose(m, o)
  /\ GiveUpOld(m, field[p][i])
  /\ UNCHANGED <<state, count, async_release, lock_flag, suspected_object_list, loopVars, waitVars,
                 collectorVars, par, slot>>

\* Fault: the field keeps the reference it hands over.
GetMoveKeepsField(m, p, i) ==
  LET f == field[p][i] IN
  /\ pc[m] = "idle"
  /\ CanUse(m, p)
  /\ ~lock_flag[p]
  /\ f # Null
  /\ Holding < MaxHeld
  /\ Gain(m, f)
  /\ UNCHANGED <<heapVars, suspected_object_list, callVars, collectorVars, par, slot>>

\* get_move_object_field: the field's reference becomes the caller's.
GetMove(m, p, i) ==
  LET f == field[p][i] IN
  /\ pc[m] = "idle"
  /\ CanUse(m, p)
  /\ ~lock_flag[p]
  /\ f # Null
  /\ Holding < MaxHeld
  /\ field' = [field EXCEPT ![p][i] = Null]
  /\ Gain(m, f)
  /\ UNCHANGED <<state, count, async_release, lock_flag, suspected_object_list, callVars,
                 collectorVars, par, slot>>

\* decrement_reference_count on a reference in a local variable
Drop(m, o) ==
  /\ pc[m] = "idle"
  /\ held[m][o] > 0
  /\ m = Main => \A n \in Mutators : pc[n] = "done"   \* pthread_join
  /\ Lose(m, o)
  /\ CallDecrement(m, o, "idle")
  /\ UNCHANGED <<heapVars, suspected_object_list, loopVars, waitVars, collectorVars, par, slot>>

\* The thread returns, holding nothing.
Finish(m) ==
  /\ pc[m] = "idle"
  /\ \A o \in Obj : held[m][o] = 0
  /\ Goto(m, "done")
  /\ UNCHANGED <<heapVars, suspected_object_list, ret, tgt, loopVars, waitVars, collectorVars, mutatorVars>>

MutatorStep(m) ==
  \/ \E o \in Obj : Malloc(m, o)
  \/ \E p \in Obj, i \in Slots : GetClone(m, p, i) \/ GetMove(m, p, i)
  \/ \E p \in Obj, i \in Slots, o \in Obj : SetClone(m, p, i, o) \/ SetMove(m, p, i, o)
  \/ GetCloneUnlock(m) \/ SetCloneSwap(m)

Next ==
  \/ \E m \in Mutators : MutatorStep(m)
  \/ \E m \in Owners : Finish(m) \/ \E o \in Obj : Drop(m, o)
  \/ \E t \in Threads : RefCountStep(t) /\ UNCHANGED <<collectorVars, mutatorVars>>
  \/ CollectorStep /\ UNCHANGED mutatorVars

Spec == Init /\ [][Next]_vars

-----------------------------------------------------------------------------
(***************************************************************************)
(* Properties.                                                             *)
(***************************************************************************)
VariablesTyped ==
  /\ RefCountTypeOK
  /\ CollectorTypeOK
  /\ held \in [Owners -> [Obj -> Nat]]
  /\ par \in [Mutators -> ObjOrNull]
  /\ slot \in [Mutators -> Nat]

\* The pointers each place of a procedure goes through.
PointersOK ==
  /\ \A t \in Threads :
       /\ pc[t] \in {"cas", "insert", "unlock", "swap", "dec"} => tgt[t] \in Obj
       /\ pc[t] = "nrm" => dr_object[t] \in Obj
       /\ pc[t] \in {"wtg_mark", "wtg", "wtg_null"} => wg_object[t] \in Obj
       /\ pc[t] = "wtg_null" => wg_index[t] \in Slots
  /\ \A m \in Mutators :
       /\ pc[m] \in {"unlock", "swap"} \/ ret[m] \in {"unlock", "swap"} => par[m] \in Obj
       /\ pc[m] = "swap" \/ ret[m] = "swap" => slot[m] \in Slots
  /\ pc[Collector] \in {"red", "red_read", "release_field"} => current \in Obj
  /\ pc[Collector] \in {"red", "red_read", "gray", "red_unlock"} => root \in Obj

\* The heap, the locals of every procedure and the references threads hold
\* have their types, and no procedure goes through a null pointer: where an
\* accessor, reference counting or the collector dereferences a local
\* variable, the variable holds an object, and a field it writes is a field.
TypeOK == VariablesTyped /\ PointersOK

Operating(t) == pc[t] \in {"cas", "insert", "unlock", "swap"}

\* The objects a mutator can still name.
InUse == Reachable( field,
                    {o \in Obj : \E m \in Owners : held[m][o] > 0}
                    \cup {tgt[m] : m \in {t \in Owners : Operating(t)}}
                    \cup {par[m] : m \in {t \in Mutators : Operating(t)}} )

\* No object a mutator can reach has been condemned or returned to the
\* allocator, by whichever thread.
NoPrematureRelease ==
  InUse \subseteq {o \in Obj : state[o] = "live"}

\* References to o in locals, counted one by one, in the fields of objects
\* that are alive, and in the hands of a running procedure.
Locals(o) == {e \in Owners \X (1..MaxHeld) : e[2] <= held[e[1]][o]}
Calls(o) == {t \in Threads : tgt[t] = o /\ (Operating(t) \/ pc[t] = "dec")}
References(o) ==
  Cardinality(Locals(o))
  + Cardinality(EdgesTo(field, {p \in Obj : state[p] = "live" /\ count[p] > 0}, o))
  + Cardinality(Calls(o))

\* A reference count is never below the number of references there are.
CountCovers == \A o \in Obj : count[o] >= References(o)

\* The diagnostics "ZERO!", "ZERO FIELD!" and "?????" of GC.h and GC.cpp are
\* never printed: nobody gives up a reference to an object whose count is
\* already zero, a root that is met again on a cycle has references, and the
\* traversal never finds more references to an object than it counts.
NoZeroDiagnostic ==
  /\ \A t \in Threads :
       /\ pc[t] = "dec" => count[tgt[t]] > 0
       /\ (pc[t] = "nrm" /\ dr_index[t] \in Slots) =>
            LET f == field[dr_object[t]][dr_index[t]] IN f # Null => count[f] > 0
       /\ (pc[t] = "wtg" /\ wg_index[t] \in Slots) =>
            LET f == field[wg_object[t]][wg_index[t]] IN f # Null => count[f] > 0
  /\ (CollectorAt("red_read") /\ idx \in Slots) => (field[current][idx] = root => count[root] > 0)
  /\ CollectorAt("gray") => \A o \in counted : ExternalCount(o) >= 0

\* While the collector marks, what it has locked is exactly what its root
\* reaches: no mutator changes that part of the heap under it.
ClosureStable == CollectorAt("gray") => cycle_objects = Reachable(field, {root})

\* The collector never loses a suspected object and never keeps the address
\* of a cell that went back to the allocator.
SuspectedTracked ==
  LET listed == suspected_object_list \cup roots
      listing == {tgt[t] : t \in {u \in Threads : pc[u] = "insert"}} IN
  /\ listed \subseteq {o \in Obj : state[o] # "dead" /\ Suspected(o)}
  /\ {o \in Obj : state[o] # "dead" /\ Suspected(o)} \subseteq
       listed \cup listing \cup release_objects

\* m is inside the critical section of get_clone_object_field.
InGetClone(m) == pc[m] = "unlock" \/ (pc[m] \in {"cas", "insert"} /\ ret[m] = "unlock")

\* object_lock excludes: the flag of an object is set exactly while one thread
\* is inside its critical section, a mutator in get_clone_object_field or the
\* collector between its locking and its unlocking loop.  No unlock is lost
\* and none releases a lock that another thread holds.
LockExclusive ==
  /\ \A o \in Obj : lock_flag[o] <=>
       (o \in cycle_objects \/ \E m \in Mutators : InGetClone(m) /\ par[m] = o)
  /\ \A m \in Mutators : InGetClone(m) =>
       /\ par[m] \notin cycle_objects
       /\ \A n \in Mutators \ {m} : InGetClone(n) => par[n] # par[m]

\* A step writes the fields of an object only when nobody holds its lock, or
\* when the object is no longer live: a dying suspected object whose fields
\* decrement_reference_count_waiting_gc_object clears, a cell malloc resets.
FieldsGuarded ==
  [][\A o \in Obj : field'[o] # field[o] =>
       ~lock_flag[o] \/ state[o] \in {"process_gc", "dead"}]_vars
=============================================================================
