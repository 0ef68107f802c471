------------------------------ MODULE RefCount ------------------------------
(***************************************************************************)
(* Heap objects and the reference-counting procedures of gc/GC.h, as they  *)
(* are inlined into any thread of the virtual machine.                     *)
(*                                                                         *)
(* One step is one access to memory that another thread can see: an atomic *)
(* read-modify-write of a count or a flag, a plain write of a field, a     *)
(* store of an object's state.  The local stacks of the C++ code are sets  *)
(* here, popped in any order.  A call is modelled by pc and ret: ret[t] is *)
(* the label the inlined procedure returns to.                             *)
(***************************************************************************)
EXTENDS ObjectGraph

CONSTANTS
  Threads,     \* every thread that runs reference-counting code
  CyclicType,  \* the objects whose type has is_cycling_type set
  SizeMax      \* largest value of size_t

ASSUME CyclicAssumption == CyclicType \subseteq Obj
ASSUME SizeAssumption == SizeMax \in Nat \ {0, 1}

VARIABLES
  \* HeapObject
  state, count, async_release, lock_flag, field,
  \* CycleCollector::suspected_object_list
  suspected_object_list,
  \* the inlined procedure a thread is in, where it returns to, its argument
  pc, ret, tgt,
  \* locals of decrement_reference_count: current_object, i, check_objects
  dr_object, dr_index, dr_check,
  \* locals of decrement_reference_count_waiting_gc_object: the same,
  \* release_objects and check_roots
  wg_object, wg_index, wg_check, wg_release, wg_roots

heapVars == <<state, count, async_release, lock_flag, field>>
loopVars == <<dr_object, dr_index, dr_check>>
waitVars == <<wg_object, wg_index, wg_check, wg_release, wg_roots>>
callVars == <<pc, ret, tgt, loopVars, waitVars>>

\* enum object_state
ObjectState == {"dead", "live", "process_gc", "waiting_for_gc"}

Labels == { "idle", "done",                                     \* mutators
            "cas", "insert", "unlock", "swap",
            "dec", "nrm",                                       \* GC.h
            "wtg_mark", "wtg", "wtg_null", "wtg_done",
            "next_root", "red", "red_read", "gray", "red_unlock",   \* GC.cpp
            "check", "release", "release_field", "kill" }

\* where increment_reference_count and decrement_reference_count are called
ReturnLabels == {"idle", "unlock", "swap", "release_field"}

(***************************************************************************)
(* size_t arithmetic of the atomic counter: both ends wrap.                *)
(***************************************************************************)
FetchAdd(n) == IF n = SizeMax THEN 0 ELSE n + 1
FetchSub(n) == IF n = 0 THEN SizeMax ELSE n - 1

\* An object the collector has been told about: only the collector may
\* return it to the allocator.
Suspected(o) == o \in CyclicType /\ async_release[o]

Goto(t, label) == pc' = [pc EXCEPT ![t] = label]

SetLoop(t, o, i, check) ==
  /\ dr_object' = [dr_object EXCEPT ![t] = o]
  /\ dr_index' = [dr_index EXCEPT ![t] = i]
  /\ dr_check' = [dr_check EXCEPT ![t] = check]

SetWait(t, o, i, check, release, next) ==
  /\ wg_object' = [wg_object EXCEPT ![t] = o]
  /\ wg_index' = [wg_index EXCEPT ![t] = i]
  /\ wg_check' = [wg_check EXCEPT ![t] = check]
  /\ wg_release' = [wg_release EXCEPT ![t] = release]
  /\ wg_roots' = [wg_roots EXCEPT ![t] = next]

\* Leave the current procedure.
Return(t) == /\ pc' = [pc EXCEPT ![t] = ret[t]]
             /\ ret' = [ret EXCEPT ![t] = "idle"]

-----------------------------------------------------------------------------
(***************************************************************************)
(* increment_reference_count(o), continuing at label after.                *)
(***************************************************************************)
IncrementReferenceCount(t, o, after) ==
  /\ count' = [count EXCEPT ![o] = FetchAdd(@)]
  /\ tgt' = [tgt EXCEPT ![t] = o]
  /\ IF count[o] = 1 /\ o \in CyclicType
     THEN Goto(t, "cas") /\ ret' = [ret EXCEPT ![t] = after]
     ELSE Goto(t, after) /\ UNCHANGED ret
  /\ UNCHANGED <<loopVars, waitVars>>

\* compare_exchange_strong on async_release
ClaimAsyncRelease(t) ==
  LET o == tgt[t] IN
  /\ pc[t] = "cas"
  /\ \/ /\ ~async_release[o]
        /\ async_release' = [async_release EXCEPT ![o] = TRUE]
        /\ Goto(t, "insert")
        /\ UNCHANGED ret
     \/ /\ async_release[o]
        /\ Return(t)
        /\ UNCHANGED async_release
  /\ UNCHANGED <<state, count, lock_flag, field, suspected_object_list, tgt, loopVars, waitVars>>

\* CycleCollector::add_suspected_object, a critical section of list_lock
AddSuspectedObject(t) ==
  /\ pc[t] = "insert"
  /\ suspected_object_list' = suspected_object_list \cup {tgt[t]}
  /\ Return(t)
  /\ UNCHANGED <<heapVars, tgt, loopVars, waitVars>>

-----------------------------------------------------------------------------
(***************************************************************************)
(* decrement_reference_count                                               *)
(***************************************************************************)
CallDecrement(t, o, after) ==
  /\ Goto(t, "dec")
  /\ tgt' = [tgt EXCEPT ![t] = o]
  /\ ret' = [ret EXCEPT ![t] = after]

\* The reference is given up.  Once the count is zero nobody can be in the
\* middle of suspecting the object, so async_release is read in the same step.
DecrementReferenceCount(t) ==
  LET o == tgt[t] IN
  /\ pc[t] = "dec"
  /\ count' = [count EXCEPT ![o] = FetchSub(@)]
  /\ tgt' = [tgt EXCEPT ![t] = Null]
  /\ \/ /\ count[o] # 1
        /\ Return(t)
        /\ UNCHANGED <<loopVars, waitVars>>
     \/ /\ count[o] = 1 /\ Suspected(o)
        /\ SetWait(t, o, 1, {}, {}, {})
        /\ Goto(t, "wtg_mark")
        /\ UNCHANGED <<ret, loopVars>>
     \/ /\ count[o] = 1 /\ ~Suspected(o)
        /\ SetLoop(t, o, 1, {})
        /\ Goto(t, "nrm")
        /\ UNCHANGED <<ret, waitVars>>
  /\ UNCHANGED <<state, async_release, lock_flag, field, suspected_object_list>>

\* One iteration of the loop over the fields of an unsuspected dying object.
DecrementField(t) ==
  LET f == field[dr_object[t]][dr_index[t]] IN
  /\ pc[t] = "nrm" /\ dr_index[t] \in Slots
  /\ \/ /\ f = Null
        /\ SetLoop(t, dr_object[t], dr_index[t] + 1, dr_check[t])
        /\ UNCHANGED <<count, waitVars, pc>>
     \/ /\ f # Null /\ count[f] # 1
        /\ count' = [count EXCEPT ![f] = FetchSub(@)]
        /\ SetLoop(t, dr_object[t], dr_index[t] + 1, dr_check[t])
        /\ UNCHANGED <<waitVars, pc>>
     \/ /\ f # Null /\ count[f] = 1 /\ ~Suspected(f)
        /\ count' = [count EXCEPT ![f] = FetchSub(@)]
        /\ SetLoop(t, dr_object[t], dr_index[t] + 1, dr_check[t] \cup {f})
        /\ UNCHANGED <<waitVars, pc>>
     \/ /\ f # Null /\ count[f] = 1 /\ Suspected(f)
        /\ count' = [count EXCEPT ![f] = FetchSub(@)]
        /\ SetLoop(t, dr_object[t], dr_index[t] + 1, dr_check[t])
        /\ SetWait(t, f, 1, {}, {}, {})
        /\ Goto(t, "wtg_mark")
  /\ UNCHANGED <<state, async_release, lock_flag, field, suspected_object_list, ret, tgt>>

\* All fields given up: the cell goes back to the allocator.
StoreDead(t) ==
  /\ pc[t] = "nrm" /\ dr_index[t] \notin Slots
  /\ state' = [state EXCEPT ![dr_object[t]] = "dead"]
  /\ \/ /\ dr_check[t] = {}
        /\ SetLoop(t, Null, 1, {})
        /\ Return(t)
     \/ \E o \in dr_check[t] :
          /\ SetLoop(t, o, 1, dr_check[t] \ {o})
          /\ UNCHANGED <<pc, ret>>
  /\ UNCHANGED <<count, async_release, lock_flag, field, suspected_object_list, tgt, waitVars>>

-----------------------------------------------------------------------------
(***************************************************************************)
(* decrement_reference_count_waiting_gc_object: the count of a suspected   *)
(* object has reached zero; it and its unsuspected children are left for   *)
(* the collector in state waiting_for_gc.                                  *)
(***************************************************************************)
WaitingMark(t) ==
  /\ pc[t] = "wtg_mark"
  /\ state' = [state EXCEPT ![wg_object[t]] = "process_gc"]
  /\ SetWait(t, wg_object[t], 1, wg_check[t], wg_release[t] \cup {wg_object[t]}, wg_roots[t])
  /\ Goto(t, "wtg")
  /\ UNCHANGED <<count, async_release, lock_flag, field, suspected_object_list, ret, tgt, loopVars>>

WaitingField(t) ==
  LET f == field[wg_object[t]][wg_index[t]] IN
  /\ pc[t] = "wtg" /\ wg_index[t] \in Slots
  /\ \/ /\ f = Null
        /\ SetWait(t, wg_object[t], wg_index[t] + 1, wg_check[t], wg_release[t], wg_roots[t])
        /\ UNCHANGED <<count, pc>>
     \/ /\ f # Null /\ count[f] = 1 /\ ~Suspected(f)
        /\ count' = [count EXCEPT ![f] = FetchSub(@)]
        /\ SetWait(t, wg_object[t], wg_index[t] + 1, wg_check[t] \cup {f}, wg_release[t], wg_roots[t])
        /\ UNCHANGED pc
     \/ /\ f # Null /\ count[f] = 1 /\ Suspected(f)
        /\ count' = [count EXCEPT ![f] = FetchSub(@)]
        /\ SetWait(t, wg_object[t], wg_index[t], wg_check[t], wg_release[t], wg_roots[t] \cup {f})
        /\ Goto(t, "wtg_null")
     \/ /\ f # Null /\ count[f] # 1
        /\ count' = [count EXCEPT ![f] = FetchSub(@)]
        /\ Goto(t, "wtg_null")
        /\ UNCHANGED waitVars
  /\ UNCHANGED <<state, async_release, lock_flag, field, suspected_object_list, ret, tgt, loopVars>>

\* fields[i] = nullptr, written without the object's lock
WaitingNull(t) ==
  /\ pc[t] = "wtg_null"
  /\ field' = [field EXCEPT ![wg_object[t]][wg_index[t]] = Null]
  /\ SetWait(t, wg_object[t], wg_index[t] + 1, wg_check[t], wg_release[t], wg_roots[t])
  /\ Goto(t, "wtg")
  /\ UNCHANGED <<state, count, async_release, lock_flag, suspected_object_list, ret, tgt, loopVars>>

WaitingPop(t) ==
  /\ pc[t] = "wtg" /\ wg_index[t] \notin Slots
  /\ \/ /\ wg_check[t] = {}
        /\ Goto(t, "wtg_done")
        /\ UNCHANGED waitVars
     \/ \E o \in wg_check[t] :
          /\ SetWait(t, o, wg_index[t], wg_check[t] \ {o}, wg_release[t], wg_roots[t])
          /\ Goto(t, "wtg_mark")
  /\ UNCHANGED <<heapVars, suspected_object_list, ret, tgt, loopVars>>

\* One store of waiting_for_gc per released object.
StoreWaiting(t) ==
  /\ pc[t] = "wtg_done"
  /\ \E o \in wg_release[t] :
       /\ state' = [state EXCEPT ![o] = "waiting_for_gc"]
       /\ SetWait(t, wg_object[t], wg_index[t], wg_check[t], wg_release[t] \ {o}, wg_roots[t])
  /\ UNCHANGED <<count, async_release, lock_flag, field, suspected_object_list,
                 pc, ret, tgt, loopVars>>

\* The next suspected root, or back into the loop that called.
WaitingNextRoot(t) ==
  /\ pc[t] = "wtg_done" /\ wg_release[t] = {}
  /\ \/ \E o \in wg_roots[t] :
          /\ SetWait(t, o, 1, {}, {}, wg_roots[t] \ {o})
          /\ Goto(t, "wtg_mark")
          /\ UNCHANGED ret
     \/ /\ wg_roots[t] = {}
        /\ SetWait(t, Null, 1, {}, {}, {})
        /\ IF dr_object[t] # Null THEN Goto(t, "nrm") /\ UNCHANGED ret ELSE Return(t)
  /\ UNCHANGED <<heapVars, suspected_object_list, tgt, loopVars>>

-----------------------------------------------------------------------------
RefCountStep(t) ==
  \/ ClaimAsyncRelease(t) \/ AddSuspectedObject(t)
  \/ DecrementReferenceCount(t) \/ DecrementField(t) \/ StoreDead(t)
  \/ WaitingMark(t) \/ WaitingField(t) \/ WaitingNull(t) \/ WaitingPop(t)
  \/ StoreWaiting(t) \/ WaitingNextRoot(t)

HeapTypeOK ==
  /\ state \in [Obj -> ObjectState]
  /\ count \in [Obj -> 0..SizeMax]
  /\ async_release \in [Obj -> BOOLEAN]
  /\ lock_flag \in [Obj -> BOOLEAN]
  /\ field \in Heaps
  /\ suspected_object_list \subseteq Obj

CallTypeOK ==
  /\ pc \in [Threads -> Labels]
  /\ ret \in [Threads -> ReturnLabels]
  /\ tgt \in [Threads -> ObjOrNull]

LoopTypeOK ==
  /\ dr_object \in [Threads -> ObjOrNull]
  /\ dr_index \in [Threads -> Nat]
  /\ dr_check \in [Threads -> SUBSET Obj]

WaitTypeOK ==
  /\ wg_object \in [Threads -> ObjOrNull]
  /\ wg_index \in [Threads -> Nat]
  /\ wg_check \in [Threads -> SUBSET Obj]
  /\ wg_release \in [Threads -> SUBSET Obj]
  /\ wg_roots \in [Threads -> SUBSET Obj]

RefCountTypeOK == HeapTypeOK /\ CallTypeOK /\ LoopTypeOK /\ WaitTypeOK
=============================================================================
