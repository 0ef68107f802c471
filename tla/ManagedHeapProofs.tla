-------------------------- MODULE ManagedHeapProofs --------------------------
(***************************************************************************)
(* Proofs about ManagedHeap, for any number of mutators, objects and       *)
(* fields: types, locks, reference counts and the release of objects.      *)
(*                                                                         *)
(* For the counts there are lemmas about steps: what those have in common  *)
(* that leave a part of the invariant of Ownership alone, and how the      *)
(* references to an object and its count follow when one appears, goes or  *)
(* is handed on.  With them the calls of the mutators, then reference      *)
(* counting, then the collector are shown to keep the invariant; the       *)
(* theorems about counts and releases follow from it at the end.           *)
(***************************************************************************)
EXTENDS Ownership, Harness, FiniteSetTheorems, TLAPS

\* What the program counters say about the locals of the procedures: an
\* argument is an object where it is dereferenced, and a procedure returns
\* only to the place that called it.
CallsOK ==
  \A t \in Threads :
    /\ pc[t] \in {"cas", "insert", "unlock", "swap", "dec"} => tgt[t] \in Obj
    /\ pc[t] = "nrm" => dr_object[t] \in Obj
    /\ pc[t] \in {"wtg_mark", "wtg", "wtg_null"} => wg_object[t] \in Obj
    /\ pc[t] = "wtg_null" => wg_index[t] \in Slots
    /\ ret[t] \in {"unlock", "swap"} => t \in Mutators /\ pc[t] \in {"cas", "insert"}
    /\ pc[t] \in {"unlock", "swap"} => t \in Mutators
    /\ ret[t] = "release_field" => t = Collector

\* The accessor a mutator is in has its field.
AccessorsOK ==
  \A m \in Mutators :
    /\ pc[m] \in {"unlock", "swap"} => par[m] \in Obj
    /\ ret[m] \in {"unlock", "swap"} => par[m] \in Obj
    /\ pc[m] = "swap" => slot[m] \in Slots
    /\ ret[m] = "swap" => slot[m] \in Slots

\* The collector has a root while it marks and a current object while it
\* visits one, and holds no lock once it has left the marking.
CollectorOK ==
  /\ pc[Collector] \in {"red", "red_read", "release_field"} => current \in Obj
  /\ ret[Collector] = "release_field" =>
       current \in Obj /\ pc[Collector] \in {"dec", "nrm", "wtg_mark", "wtg", "wtg_null", "wtg_done"}
  /\ pc[Collector] \in {"red", "red_read", "gray", "red_unlock"} => root \in Obj
  /\ pc[Collector] = "check" => cycle_objects = {}

TypeInv == VariablesTyped /\ CallsOK /\ AccessorsOK /\ CollectorOK

-----------------------------------------------------------------------------
(***************************************************************************)
(* Facts about the operators the actions are built from.                   *)
(***************************************************************************)
\* Counting up and down stays within size_t.
LEMMA CountStep ==
  ASSUME HeapTypeOK, NEW o \in Obj
  PROVE  FetchAdd(count[o]) \in 0..SizeMax /\ FetchSub(count[o]) \in 0..SizeMax
  BY SizeAssumption DEF HeapTypeOK, FetchAdd, FetchSub

\* A field that is not nullptr refers to an object.
LEMMA FieldType ==
  ASSUME HeapTypeOK, NEW o \in Obj, NEW i \in Slots, field[o][i] # Null
  PROVE  field[o][i] \in Obj
  BY DEF HeapTypeOK, Heaps, ObjOrNull

\* A procedure that returns goes on at a place of its thread.
LEMMA ReturnType ==
  ASSUME CallTypeOK, NEW t \in Threads, Return(t)
  PROVE  pc' \in [Threads -> Labels] /\ ret' \in [Threads -> ReturnLabels]
  <1>1. ReturnLabels \subseteq Labels /\ "idle" \in ReturnLabels
    BY DEF ReturnLabels, Labels
  <1> QED
    BY <1>1 DEF CallTypeOK, Return

-----------------------------------------------------------------------------
\* The state main starts the threads in is well typed.
LEMMA InitTypeInv == Init => TypeInv
  <1> SUFFICES ASSUME Init PROVE TypeInv
    OBVIOUS
  <1> USE NullAssumption, SizeAssumption, ModuleAssumption, ThreadsAssumption, CollectorAssumption
  <1>1. HeapTypeOK
    BY DEF Init, HeapTypeOK, Heaps, ObjectState, ObjOrNull
  <1>2. CallTypeOK
    BY DEF Init, CallTypeOK, Labels, ReturnLabels, ObjOrNull
  <1>3. LoopTypeOK /\ WaitTypeOK
    BY DEF Init, LoopTypeOK, WaitTypeOK, ObjOrNull
  <1>4. CollectorTypeOK
    <2>1. is_cyclic_root \in BOOLEAN
      BY DEF Init
    <2>2. count_map \in [Obj -> 0..SizeMax]
      BY DEF Init
    <2> QED
      BY <2>1, <2>2 DEF Init, CollectorTypeOK, ObjOrNull
  <1>5. held \in [Owners -> [Obj -> Nat]] /\ par \in [Mutators -> ObjOrNull]
        /\ slot \in [Mutators -> Nat]
    BY DEF Init, Owners, ObjOrNull
  <1>6. CallsOK /\ AccessorsOK /\ CollectorOK
    BY DEF Init, CallsOK, AccessorsOK, CollectorOK
  <1> QED
    BY <1>1, <1>2, <1>3, <1>4, <1>5, <1>6 DEF TypeInv, VariablesTyped, RefCountTypeOK

\* The steps of increment_ and decrement_reference_count, in whichever thread,
\* keep the types.
LEMMA RefCountTypeInv ==
  ASSUME TypeInv, NEW t \in Threads, RefCountStep(t), UNCHANGED <<collectorVars, mutatorVars>>
  PROVE  TypeInv'
  <1> USE NullAssumption, ThreadsAssumption, CollectorAssumption
  <1> USE DEF TypeInv, VariablesTyped, RefCountTypeOK, heapVars, Heaps
  <1>1. /\ CollectorTypeOK'
        /\ (held \in [Owners -> [Obj -> Nat]])'
        /\ (par \in [Mutators -> ObjOrNull])'
        /\ (slot \in [Mutators -> Nat])'
    BY DEF CollectorTypeOK, collectorVars, rootVars, mutatorVars, Owners
  <1>2. UNCHANGED loopVars => LoopTypeOK'
    BY DEF loopVars, LoopTypeOK
  <1>3. UNCHANGED waitVars => WaitTypeOK'
    BY DEF waitVars, WaitTypeOK
  <1>4. CASE ClaimAsyncRelease(t)
    <2>1. tgt[t] \in Obj
      BY <1>4 DEF ClaimAsyncRelease, CallsOK
    <2>2. HeapTypeOK'
      BY <1>4, <2>1 DEF ClaimAsyncRelease, HeapTypeOK
    <2>3. CallTypeOK'
      BY <1>4, ReturnType DEF ClaimAsyncRelease, CallTypeOK, Goto, Labels
    <2>4. LoopTypeOK' /\ WaitTypeOK'
      BY <1>4, <1>2, <1>3 DEF ClaimAsyncRelease
    <2>5. CallsOK'
      BY <1>4 DEF ClaimAsyncRelease, CallsOK, CallTypeOK, Goto, Return, ReturnLabels,
         loopVars, waitVars
    <2>6. AccessorsOK' /\ CollectorOK'
      BY <1>4 DEF ClaimAsyncRelease, CallTypeOK, CallsOK, AccessorsOK, CollectorOK,
         mutatorVars, collectorVars, rootVars, Goto, Return, ReturnLabels
    <2> QED
      BY <1>1, <2>2, <2>3, <2>4, <2>5, <2>6
  <1>5. CASE AddSuspectedObject(t)
    <2>1. tgt[t] \in Obj
      BY <1>5 DEF AddSuspectedObject, CallsOK
    <2>2. HeapTypeOK'
      BY <1>5, <2>1 DEF AddSuspectedObject, HeapTypeOK
    <2>3. CallTypeOK'
      BY <1>5, ReturnType DEF AddSuspectedObject, CallTypeOK
    <2>4. LoopTypeOK' /\ WaitTypeOK'
      BY <1>5, <1>2, <1>3 DEF AddSuspectedObject
    <2>5. CallsOK'
      BY <1>5 DEF AddSuspectedObject, CallsOK, CallTypeOK, Return, ReturnLabels, loopVars, waitVars
    <2>6. AccessorsOK' /\ CollectorOK'
      BY <1>5 DEF AddSuspectedObject, CallTypeOK, CallsOK, AccessorsOK, CollectorOK,
         mutatorVars, collectorVars, rootVars, Return, ReturnLabels
    <2> QED
      BY <1>1, <2>2, <2>3, <2>4, <2>5, <2>6
  <1>6. CASE DecrementReferenceCount(t)
    <2>1. tgt[t] \in Obj
      BY <1>6 DEF DecrementReferenceCount, CallsOK
    <2>2. HeapTypeOK'
      BY <1>6, <2>1, CountStep DEF DecrementReferenceCount, HeapTypeOK
    <2>3. CallTypeOK'
      BY <1>6, ReturnType DEF DecrementReferenceCount, CallTypeOK, Goto, Labels, ObjOrNull
    <2>4. LoopTypeOK'
      BY <1>6, <1>2, <2>1 DEF DecrementReferenceCount, LoopTypeOK, SetLoop, ObjOrNull
    <2>5. WaitTypeOK'
      <3>1. UNCHANGED waitVars \/ SetWait(t, tgt[t], 1, {}, {}, {})
        BY <1>6 DEF DecrementReferenceCount
      <3>2. CASE SetWait(t, tgt[t], 1, {}, {}, {})
        BY <3>2, <2>1 DEF WaitTypeOK, SetWait, ObjOrNull
      <3> QED
        BY <3>1, <3>2, <1>3
    <2>6. CallsOK'
      BY <1>6, <2>1 DEF DecrementReferenceCount, CallsOK, CallTypeOK, LoopTypeOK, WaitTypeOK,
         Goto, Return, ReturnLabels, SetLoop, SetWait, loopVars, waitVars
    <2>7. AccessorsOK' /\ CollectorOK'
      BY <1>6 DEF DecrementReferenceCount, CallTypeOK, CallsOK, AccessorsOK, CollectorOK,
         mutatorVars, collectorVars, rootVars, Goto, Return, ReturnLabels
    <2> QED
      BY <1>1, <2>2, <2>3, <2>4, <2>5, <2>6, <2>7
  <1>7. CASE DecrementField(t)
    <2> DEFINE o == dr_object[t]
               i == dr_index[t]
               f == field[o][i]
    <2>1. o \in Obj /\ i \in Slots /\ i \in Nat /\ i + 1 \in Nat /\ dr_check[t] \in SUBSET Obj
      BY <1>7 DEF DecrementField, CallsOK, LoopTypeOK
    <2>2. f # Null => f \in Obj
      BY <2>1, FieldType
    <2>3. HeapTypeOK'
      <3>1. count' \in [Obj -> 0..SizeMax]
        BY <1>7, <2>2, CountStep DEF DecrementField, HeapTypeOK
      <3> QED
        BY <1>7, <3>1 DEF DecrementField, HeapTypeOK
    <2>4. CallTypeOK'
      BY <1>7 DEF DecrementField, CallTypeOK, Goto, Labels
    <2>5. LoopTypeOK'
      BY <1>7, <2>1, <2>2 DEF DecrementField, LoopTypeOK, SetLoop, ObjOrNull
    <2>6. WaitTypeOK'
      <3>1. UNCHANGED waitVars \/ (f \in Obj /\ SetWait(t, f, 1, {}, {}, {}))
        BY <1>7, <2>2 DEF DecrementField
      <3> HIDE DEF f
      <3> QED
        BY <3>1, <1>3 DEF SetWait, WaitTypeOK, ObjOrNull
    <2>7. CallsOK'
      BY <1>7, <2>1, <2>2 DEF DecrementField, CallsOK, CallTypeOK, LoopTypeOK, WaitTypeOK,
         Goto, SetLoop, SetWait, loopVars, waitVars
    <2>8. AccessorsOK' /\ CollectorOK'
      BY <1>7 DEF DecrementField, CallTypeOK, AccessorsOK, CollectorOK, Goto, mutatorVars, collectorVars, rootVars
    <2> QED
      BY <1>1, <2>3, <2>4, <2>5, <2>6, <2>7, <2>8
  <1>8. CASE StoreDead(t)
    <2>1. dr_object[t] \in Obj /\ dr_check[t] \in SUBSET Obj
      BY <1>8 DEF StoreDead, CallsOK, LoopTypeOK
    <2>2. HeapTypeOK'
      BY <1>8, <2>1 DEF StoreDead, HeapTypeOK, ObjectState
    <2>3. CallTypeOK'
      BY <1>8, ReturnType DEF StoreDead, CallTypeOK
    <2>4. LoopTypeOK'
      BY <1>8, <2>1 DEF StoreDead, LoopTypeOK, SetLoop, ObjOrNull
    <2>5. WaitTypeOK'
      BY <1>8, <1>3 DEF StoreDead
    <2>6. CallsOK'
      BY <1>8, <2>1 DEF StoreDead, CallsOK, CallTypeOK, LoopTypeOK,
         Return, ReturnLabels, SetLoop, waitVars
    <2>7. AccessorsOK' /\ CollectorOK'
      BY <1>8 DEF StoreDead, CallTypeOK, CallsOK, AccessorsOK, CollectorOK,
         mutatorVars, collectorVars, rootVars, Return, ReturnLabels
    <2> QED
      BY <1>1, <2>2, <2>3, <2>4, <2>5, <2>6, <2>7
  <1>9. CASE WaitingMark(t)
    <2>1. wg_object[t] \in Obj
      BY <1>9 DEF WaitingMark, CallsOK
    <2>2. HeapTypeOK'
      BY <1>9, <2>1 DEF WaitingMark, HeapTypeOK, ObjectState
    <2>3. CallTypeOK'
      BY <1>9 DEF WaitingMark, CallTypeOK, Goto, Labels
    <2>4. LoopTypeOK'
      BY <1>9, <1>2 DEF WaitingMark
    <2>5. WaitTypeOK'
      BY <1>9, <2>1 DEF WaitingMark, WaitTypeOK, SetWait, ObjOrNull
    <2>6. CallsOK'
      BY <1>9, <2>1 DEF WaitingMark, CallsOK, CallTypeOK, WaitTypeOK, Goto, SetWait, loopVars
    <2>7. AccessorsOK' /\ CollectorOK'
      BY <1>9 DEF WaitingMark, CallTypeOK, CallsOK, AccessorsOK, CollectorOK,
         mutatorVars, collectorVars, rootVars, Goto
    <2> QED
      BY <1>1, <2>2, <2>3, <2>4, <2>5, <2>6, <2>7
  <1>10. CASE WaitingField(t)
    <2> DEFINE o == wg_object[t]
               i == wg_index[t]
               f == field[o][i]
    <2>1. o \in Obj /\ i \in Slots /\ i \in Nat /\ i + 1 \in Nat
      BY <1>10 DEF WaitingField, CallsOK, WaitTypeOK
    <2>2. f # Null => f \in Obj
      BY <2>1, FieldType
    <2>3. HeapTypeOK'
      BY <1>10, <2>2, CountStep DEF WaitingField, HeapTypeOK
    <2>4. CallTypeOK'
      BY <1>10 DEF WaitingField, CallTypeOK, Goto, Labels
    <2>5. LoopTypeOK'
      BY <1>10, <1>2 DEF WaitingField
    <2>6. WaitTypeOK'
      <3>1. \/ UNCHANGED waitVars
            \/ \E j \in {i, i + 1}, g \in SUBSET Obj, h \in SUBSET Obj :
                 SetWait(t, o, j, wg_check[t] \cup g, wg_release[t], wg_roots[t] \cup h)
        <4>1. CASE f = Null
          <5>1. SetWait(t, o, i + 1, wg_check[t] \cup {}, wg_release[t], wg_roots[t] \cup {})
            BY <1>10, <4>1 DEF WaitingField, SetWait
          <5> QED
            BY <5>1
        <4>2. CASE f # Null /\ count[f] = 1 /\ ~Suspected(f)
          <5>1. SetWait(t, o, i + 1, wg_check[t] \cup {f}, wg_release[t], wg_roots[t] \cup {})
            BY <1>10, <4>2 DEF WaitingField, SetWait
          <5> QED
            BY <5>1, <4>2, <2>2
        <4>3. CASE f # Null /\ count[f] = 1 /\ Suspected(f)
          <5>1. SetWait(t, o, i, wg_check[t] \cup {}, wg_release[t], wg_roots[t] \cup {f})
            BY <1>10, <4>3 DEF WaitingField, SetWait
          <5> QED
            BY <5>1, <4>3, <2>2
        <4> QED
          BY <1>10, <4>1, <4>2, <4>3 DEF WaitingField
      <3> HIDE DEF f, o, i
      <3> QED
        BY <3>1, <1>3, <2>1 DEF SetWait, WaitTypeOK, ObjOrNull
    <2>7. CallsOK'
      BY <1>10, <2>1, <2>2 DEF WaitingField, CallsOK, CallTypeOK, WaitTypeOK,
         Goto, SetWait, loopVars, waitVars
    <2>8. AccessorsOK' /\ CollectorOK'
      BY <1>10 DEF WaitingField, CallTypeOK, AccessorsOK, CollectorOK, Goto,
         mutatorVars, collectorVars, rootVars
    <2> QED
      BY <1>1, <2>3, <2>4, <2>5, <2>6, <2>7, <2>8
  <1>11. CASE WaitingNull(t)
    <2>1. wg_object[t] \in Obj /\ wg_index[t] \in Slots
      BY <1>11 DEF WaitingNull, CallsOK
    <2>2. HeapTypeOK'
      BY <1>11, <2>1 DEF WaitingNull, HeapTypeOK, ObjOrNull
    <2>3. CallTypeOK'
      BY <1>11 DEF WaitingNull, CallTypeOK, Goto, Labels
    <2>4. LoopTypeOK'
      BY <1>11, <1>2 DEF WaitingNull
    <2>5. WaitTypeOK'
      BY <1>11, <2>1 DEF WaitingNull, WaitTypeOK, SetWait, ObjOrNull
    <2>6. CallsOK'
      BY <1>11, <2>1 DEF WaitingNull, CallsOK, CallTypeOK, WaitTypeOK, Goto, SetWait, loopVars
    <2>7. AccessorsOK' /\ CollectorOK'
      BY <1>11 DEF WaitingNull, CallTypeOK, CallsOK, AccessorsOK, CollectorOK,
         mutatorVars, collectorVars, rootVars, Goto
    <2> QED
      BY <1>1, <2>2, <2>3, <2>4, <2>5, <2>6, <2>7
  <1>12. CASE WaitingPop(t)
    <2>1. wg_object[t] \in Obj /\ wg_check[t] \in SUBSET Obj
      BY <1>12 DEF WaitingPop, CallsOK, WaitTypeOK
    <2>2. HeapTypeOK'
      BY <1>12 DEF WaitingPop, HeapTypeOK
    <2>3. CallTypeOK'
      BY <1>12 DEF WaitingPop, CallTypeOK, Goto, Labels
    <2>4. LoopTypeOK'
      BY <1>12, <1>2 DEF WaitingPop
    <2>5. WaitTypeOK'
      BY <1>12, <1>3, <2>1 DEF WaitingPop, WaitTypeOK, SetWait, ObjOrNull
    <2>6. CallsOK'
      BY <1>12, <2>1 DEF WaitingPop, CallsOK, CallTypeOK, WaitTypeOK, Goto, SetWait,
         loopVars, waitVars
    <2>7. AccessorsOK' /\ CollectorOK'
      BY <1>12 DEF WaitingPop, CallTypeOK, CallsOK, AccessorsOK, CollectorOK,
         mutatorVars, collectorVars, rootVars, Goto
    <2> QED
      BY <1>1, <2>2, <2>3, <2>4, <2>5, <2>6, <2>7
  <1>13. CASE StoreWaiting(t)
    <2>2. HeapTypeOK'
      BY <1>13 DEF StoreWaiting, HeapTypeOK, WaitTypeOK, ObjectState
    <2>3. CallTypeOK'
      BY <1>13 DEF StoreWaiting, CallTypeOK
    <2>4. LoopTypeOK'
      BY <1>13, <1>2 DEF StoreWaiting
    <2>5. WaitTypeOK'
      BY <1>13 DEF StoreWaiting, WaitTypeOK, SetWait, ObjOrNull
    <2>6. CallsOK'
      BY <1>13 DEF StoreWaiting, CallsOK, CallTypeOK, WaitTypeOK, SetWait, loopVars
    <2>7. AccessorsOK' /\ CollectorOK'
      BY <1>13 DEF StoreWaiting, CallTypeOK, CallsOK, AccessorsOK, CollectorOK,
         mutatorVars, collectorVars, rootVars, SetWait
    <2> QED
      BY <1>1, <2>2, <2>3, <2>4, <2>5, <2>6, <2>7
  <1>14. CASE WaitingNextRoot(t)
    <2>1. wg_roots[t] \in SUBSET Obj /\ (dr_object[t] # Null => dr_object[t] \in Obj)
      BY DEF WaitTypeOK, LoopTypeOK, ObjOrNull
    <2>2. HeapTypeOK'
      BY <1>14 DEF WaitingNextRoot, HeapTypeOK
    <2>3. CallTypeOK'
      BY <1>14, ReturnType DEF WaitingNextRoot, CallTypeOK, Goto, Labels
    <2>4. LoopTypeOK'
      BY <1>14, <1>2 DEF WaitingNextRoot
    <2>5. WaitTypeOK'
      BY <1>14, <2>1 DEF WaitingNextRoot, WaitTypeOK, SetWait, ObjOrNull
    <2>6. CallsOK'
      BY <1>14, <2>1 DEF WaitingNextRoot, CallsOK, CallTypeOK, WaitTypeOK, Goto, Return,
         ReturnLabels, SetWait, loopVars
    <2>7. AccessorsOK'
      <3>1. \A m \in Mutators : pc'[m] = pc[m] \/ pc'[m] \notin {"unlock", "swap"}
        BY <1>14 DEF WaitingNextRoot, CallTypeOK, CallsOK,
           Goto, Return, ReturnLabels
      <3>2. \A m \in Mutators : ret'[m] \in {ret[m], "idle"}
        BY <1>14 DEF WaitingNextRoot, CallTypeOK, Return
      <3> QED
        BY <3>1, <3>2 DEF AccessorsOK, mutatorVars
    <2>8. CollectorOK'
      <3>1. UNCHANGED <<root, current, cycle_objects>>
        BY DEF collectorVars, rootVars
      <3>2. CASE t # Collector
        <4>1. pc'[Collector] = pc[Collector] /\ ret'[Collector] = ret[Collector]
          BY <1>14, <3>2 DEF WaitingNextRoot, CallTypeOK, Goto, Return
        <4> QED
          BY <3>1, <4>1 DEF CollectorOK
      <3>3. CASE t = Collector
        <4>1. \/ pc'[t] = "wtg_mark" /\ ret'[t] = ret[t]
              \/ pc'[t] = "nrm" /\ ret'[t] = ret[t]
              \/ pc'[t] = ret[t] /\ ret'[t] = "idle"
          BY <1>14 DEF WaitingNextRoot, CallTypeOK, Goto, Return
        <4>2. ret[t] \in {"idle", "release_field"}
          BY <1>14, <3>3 DEF WaitingNextRoot, CallTypeOK, CallsOK, ReturnLabels
        <4> QED
          BY <3>1, <3>3, <4>1, <4>2 DEF CollectorOK
      <3> QED
        BY <3>2, <3>3
    <2> QED
      BY <1>1, <2>2, <2>3, <2>4, <2>5, <2>6, <2>7, <2>8
  <1> QED
    BY <1>4, <1>5, <1>6, <1>7, <1>8, <1>9, <1>10, <1>11, <1>12, <1>13, <1>14 DEF RefCountStep

-----------------------------------------------------------------------------
(***************************************************************************)
(* The accessors.                                                          *)
(***************************************************************************)
LEMMA IncrementTypeInv ==
  ASSUME TypeInv, NEW m \in Mutators, NEW o \in Obj, NEW after \in {"unlock", "swap"},
         pc[m] = "idle", IncrementReferenceCount(m, o, after),
         par' \in [Mutators -> ObjOrNull], par'[m] \in Obj,
         slot' \in [Mutators -> Nat], after = "swap" => slot'[m] \in Slots,
         \A n \in Mutators \ {m} : par'[n] = par[n] /\ slot'[n] = slot[n]
  PROVE  /\ count' \in [Obj -> 0..SizeMax]
         /\ CallTypeOK' /\ LoopTypeOK' /\ WaitTypeOK'
         /\ CallsOK' /\ AccessorsOK'
         /\ pc'[Collector] = pc[Collector] /\ ret'[Collector] = ret[Collector]
  <1> USE ThreadsAssumption
  <1> USE DEF TypeInv, VariablesTyped, RefCountTypeOK, IncrementReferenceCount
  <1>1. count' \in [Obj -> 0..SizeMax]
    BY CountStep DEF HeapTypeOK
  <1>2. CallTypeOK'
    BY DEF CallTypeOK, Goto, Labels, ReturnLabels, ObjOrNull
  <1>3. LoopTypeOK' /\ WaitTypeOK'
    BY DEF LoopTypeOK, WaitTypeOK, loopVars, waitVars
  <1>4. CallsOK'
    BY DEF CallsOK, CallTypeOK, Goto, loopVars, waitVars
  <1>5. AccessorsOK'
    BY DEF AccessorsOK, CallsOK, CallTypeOK, Goto
  <1>6. pc'[Collector] = pc[Collector] /\ ret'[Collector] = ret[Collector]
    BY DEF CallTypeOK, Goto
  <1> QED
    BY <1>1, <1>2, <1>3, <1>4, <1>5, <1>6

\* So does calling decrement_reference_count on an object.
LEMMA DecrementCallTypeInv ==
  ASSUME TypeInv, NEW m \in Owners, pc[m] \in {"idle", "swap"},
         ret[m] = "idle",
         \/ \E o \in Obj : CallDecrement(m, o, "idle")
         \/ Goto(m, "idle") /\ tgt' = [tgt EXCEPT ![m] = Null] /\ UNCHANGED ret,
         UNCHANGED <<loopVars, waitVars>>,
         \A n \in Mutators \ {m} : par'[n] = par[n] /\ slot'[n] = slot[n]
  PROVE  /\ CallTypeOK' /\ LoopTypeOK' /\ WaitTypeOK'
         /\ CallsOK' /\ AccessorsOK'
         /\ pc'[Collector] = pc[Collector] /\ ret'[Collector] = ret[Collector]
  <1> USE ThreadsAssumption
  <1> USE DEF TypeInv, VariablesTyped, RefCountTypeOK, CallDecrement, Owners
  <1>1. CallTypeOK'
    BY DEF CallTypeOK, Goto, Labels, ReturnLabels, ObjOrNull
  <1>2. LoopTypeOK' /\ WaitTypeOK'
    BY DEF LoopTypeOK, WaitTypeOK, loopVars, waitVars
  <1>3. CallsOK'
    BY DEF CallsOK, CallTypeOK, Goto, loopVars, waitVars
  <1>4. AccessorsOK'
    BY DEF AccessorsOK, CallsOK, CallTypeOK, Goto
  <1>5. pc'[Collector] = pc[Collector] /\ ret'[Collector] = ret[Collector]
    BY DEF CallTypeOK, Goto
  <1> QED
    BY <1>1, <1>2, <1>3, <1>4, <1>5

\* Outside the increment, a mutator and main have nowhere to return to but idle.
LEMMA OwnerReturnsIdle ==
  ASSUME TypeInv, NEW m \in Owners, pc[m] \notin {"cas", "insert"}
  PROVE  ret[m] = "idle"
  BY ThreadsAssumption
     DEF TypeInv, VariablesTyped, RefCountTypeOK, CallTypeOK, CallsOK, ReturnLabels, Owners

\* The field accessors and malloc keep the types.
LEMMA MutatorTypeInv ==
  ASSUME TypeInv, NEW m \in Mutators, MutatorStep(m)
  PROVE  TypeInv'
  <1> USE NullAssumption, ThreadsAssumption, ModuleAssumption
  <1> USE DEF TypeInv, VariablesTyped, RefCountTypeOK, heapVars, Heaps
  <1> m \in Threads /\ m \in Owners /\ m # Collector
    BY DEF Owners
  <1>1. UNCHANGED collectorVars => CollectorTypeOK'
    BY DEF CollectorTypeOK, collectorVars, rootVars
  <1>2. UNCHANGED collectorVars /\ pc'[Collector] = pc[Collector] /\ ret'[Collector] = ret[Collector]
          => CollectorOK'
    BY DEF CollectorOK, collectorVars, rootVars
  <1>3. UNCHANGED callVars => CallTypeOK' /\ LoopTypeOK' /\ WaitTypeOK' /\ CallsOK'
    BY DEF callVars, loopVars, waitVars, CallTypeOK, LoopTypeOK, WaitTypeOK, CallsOK
  <1>4. ASSUME NEW o \in Obj, Malloc(m, o)
        PROVE  TypeInv'
    <2>1. HeapTypeOK'
      <3>1. state' \in [Obj -> ObjectState]
        BY <1>4 DEF Malloc, HeapTypeOK, ObjectState
      <3>2. count' \in [Obj -> 0..SizeMax]
        BY <1>4, SizeAssumption DEF Malloc, HeapTypeOK
      <3>3. async_release' \in [Obj -> BOOLEAN]
        BY <1>4 DEF Malloc, HeapTypeOK
      <3>4. field' \in Heaps
        BY <1>4 DEF Malloc, HeapTypeOK, ObjOrNull
      <3> QED
        BY <1>4, <3>1, <3>2, <3>3, <3>4 DEF Malloc, HeapTypeOK
    <2>2. held' \in [Owners -> [Obj -> Nat]] /\ par' \in [Mutators -> ObjOrNull]
          /\ slot' \in [Mutators -> Nat]
      BY <1>4 DEF Malloc, Gain
    <2>3. AccessorsOK' /\ CollectorOK'
      BY <1>4 DEF Malloc, AccessorsOK, CollectorOK, callVars, collectorVars, rootVars
    <2> QED
      BY <1>4, <1>1, <1>3, <2>1, <2>2, <2>3 DEF Malloc
  <1>5. ASSUME NEW p \in Obj, NEW i \in Slots, GetClone(m, p, i)
        PROVE  TypeInv'
    <2> DEFINE f == field[p][i]
    <2>1. f \in Obj
      BY <1>5, FieldType DEF GetClone
    <2> HIDE DEF f
    <2>2. IncrementReferenceCount(m, f, "unlock") /\ pc[m] = "idle"
      BY <1>5 DEF GetClone, f
    <2>3. /\ par' \in [Mutators -> ObjOrNull] /\ par'[m] \in Obj
          /\ slot' \in [Mutators -> Nat]
          /\ \A n \in Mutators \ {m} : par'[n] = par[n] /\ slot'[n] = slot[n]
      BY <1>5 DEF GetClone, ObjOrNull
    <2>4. /\ count' \in [Obj -> 0..SizeMax]
          /\ CallTypeOK' /\ LoopTypeOK' /\ WaitTypeOK'
          /\ CallsOK' /\ AccessorsOK'
          /\ pc'[Collector] = pc[Collector] /\ ret'[Collector] = ret[Collector]
      BY <2>1, <2>2, <2>3, IncrementTypeInv
    <2>5. HeapTypeOK' /\ held' \in [Owners -> [Obj -> Nat]]
      BY <1>5, <2>4 DEF GetClone, HeapTypeOK
    <2> QED
      BY <1>5, <1>1, <1>2, <2>3, <2>4, <2>5 DEF GetClone
  <1>6. ASSUME NEW p \in Obj, NEW i \in Slots, GetMove(m, p, i)
        PROVE  TypeInv'
    <2>1. field[p][i] \in Obj
      BY <1>6, FieldType DEF GetMove
    <2>2. HeapTypeOK'
      BY <1>6 DEF GetMove, HeapTypeOK, ObjOrNull
    <2>3. held' \in [Owners -> [Obj -> Nat]] /\ par' \in [Mutators -> ObjOrNull]
          /\ slot' \in [Mutators -> Nat]
      BY <1>6, <2>1 DEF GetMove, Gain
    <2>4. AccessorsOK' /\ CollectorOK'
      BY <1>6 DEF GetMove, AccessorsOK, CollectorOK, callVars, collectorVars, rootVars
    <2> QED
      BY <1>6, <1>1, <1>3, <2>2, <2>3, <2>4 DEF GetMove
  <1>7. ASSUME NEW p \in Obj, NEW i \in Slots, NEW o \in Obj, SetClone(m, p, i, o)
        PROVE  TypeInv'
    <2>1. IncrementReferenceCount(m, o, "swap") /\ pc[m] = "idle"
      BY <1>7 DEF SetClone
    <2>2. /\ par' \in [Mutators -> ObjOrNull] /\ par'[m] \in Obj
          /\ slot' \in [Mutators -> Nat] /\ slot'[m] \in Slots
          /\ \A n \in Mutators \ {m} : par'[n] = par[n] /\ slot'[n] = slot[n]
      BY <1>7, SlotsAssumption DEF SetClone, ObjOrNull, Slots
    <2>3. /\ count' \in [Obj -> 0..SizeMax]
          /\ CallTypeOK' /\ LoopTypeOK' /\ WaitTypeOK'
          /\ CallsOK' /\ AccessorsOK'
          /\ pc'[Collector] = pc[Collector] /\ ret'[Collector] = ret[Collector]
      BY <2>1, <2>2, IncrementTypeInv
    <2>4. HeapTypeOK' /\ held' \in [Owners -> [Obj -> Nat]]
      BY <1>7, <2>3 DEF SetClone, HeapTypeOK
    <2> QED
      BY <1>7, <1>1, <1>2, <2>2, <2>3, <2>4 DEF SetClone
  <1>8. ASSUME NEW p \in Obj, NEW i \in Slots, NEW o \in Obj, SetMove(m, p, i, o)
        PROVE  TypeInv'
    <2>1. field[p][i] # Null => field[p][i] \in Obj
      BY FieldType
    <2>2. pc[m] = "idle" /\ ret[m] = "idle"
      BY <1>8, OwnerReturnsIdle DEF SetMove
    <2>3. /\ CallTypeOK' /\ LoopTypeOK' /\ WaitTypeOK'
          /\ CallsOK' /\ AccessorsOK'
          /\ pc'[Collector] = pc[Collector] /\ ret'[Collector] = ret[Collector]
      <3>1. \/ \E x \in Obj : CallDecrement(m, x, "idle")
            \/ Goto(m, "idle") /\ tgt' = [tgt EXCEPT ![m] = Null] /\ UNCHANGED ret
        BY <1>8, <2>1 DEF SetMove, GiveUpOld
      <3>2. UNCHANGED <<loopVars, waitVars>> /\ UNCHANGED <<par, slot>>
        BY <1>8 DEF SetMove
      <3> QED
        BY <2>2, <3>1, <3>2, DecrementCallTypeInv
    <2>4. HeapTypeOK'
      BY <1>8 DEF SetMove, HeapTypeOK, ObjOrNull
    <2>5. held' \in [Owners -> [Obj -> Nat]]
      <3>1. held[m][o] > 0
        BY <1>8 DEF SetMove
      <3> QED
        BY <1>8, <3>1 DEF SetMove, Lose
    <2> QED
      BY <1>8, <1>1, <1>2, <2>3, <2>4, <2>5 DEF SetMove
  <1>9. ASSUME GetCloneUnlock(m)
        PROVE  TypeInv'
    <2>1. par[m] \in Obj /\ tgt[m] \in Obj /\ ret[m] = "idle"
      BY <1>9, OwnerReturnsIdle DEF GetCloneUnlock, AccessorsOK, CallsOK
    <2>2. HeapTypeOK'
      BY <1>9, <2>1 DEF GetCloneUnlock, HeapTypeOK
    <2>3. held' \in [Owners -> [Obj -> Nat]] /\ par' \in [Mutators -> ObjOrNull]
          /\ slot' \in [Mutators -> Nat]
      BY <1>9, <2>1 DEF GetCloneUnlock, Gain, ObjOrNull
    <2>4. CallTypeOK'
      BY <1>9 DEF GetCloneUnlock, CallTypeOK, Goto, Labels, ObjOrNull
    <2>5. LoopTypeOK' /\ WaitTypeOK'
      BY <1>9 DEF GetCloneUnlock, LoopTypeOK, WaitTypeOK, loopVars, waitVars
    <2>6. CallsOK'
      BY <1>9, <2>1 DEF GetCloneUnlock, CallsOK, CallTypeOK, Goto, loopVars, waitVars
    <2>7. AccessorsOK'
      BY <1>9, <2>1 DEF GetCloneUnlock, AccessorsOK, CallTypeOK, Goto
    <2>8. CollectorOK'
      BY <1>9, <1>2 DEF GetCloneUnlock, CallTypeOK, Goto
    <2> QED
      BY <1>9, <1>1, <2>2, <2>3, <2>4, <2>5, <2>6, <2>7, <2>8 DEF GetCloneUnlock
  <1>10. ASSUME SetCloneSwap(m)
         PROVE  TypeInv'
    <2>1. par[m] \in Obj /\ slot[m] \in Slots /\ tgt[m] \in Obj /\ pc[m] = "swap" /\ ret[m] = "idle"
      BY <1>10, OwnerReturnsIdle DEF SetCloneSwap, AccessorsOK, CallsOK
    <2>2. field[par[m]][slot[m]] # Null => field[par[m]][slot[m]] \in Obj
      BY <2>1, FieldType
    <2>3. /\ CallTypeOK' /\ LoopTypeOK' /\ WaitTypeOK'
          /\ CallsOK' /\ AccessorsOK'
          /\ pc'[Collector] = pc[Collector] /\ ret'[Collector] = ret[Collector]
      <3>1. \/ \E x \in Obj : CallDecrement(m, x, "idle")
            \/ Goto(m, "idle") /\ tgt' = [tgt EXCEPT ![m] = Null] /\ UNCHANGED ret
        BY <1>10, <2>2 DEF SetCloneSwap, GiveUpOld
      <3>2. UNCHANGED <<loopVars, waitVars>>
            /\ \A n \in Mutators \ {m} : par'[n] = par[n] /\ slot'[n] = slot[n]
        BY <1>10 DEF SetCloneSwap
      <3> QED
        BY <2>1, <3>1, <3>2, DecrementCallTypeInv
    <2>4. HeapTypeOK'
      BY <1>10, <2>1 DEF SetCloneSwap, HeapTypeOK, ObjOrNull
    <2>5. held' \in [Owners -> [Obj -> Nat]] /\ par' \in [Mutators -> ObjOrNull]
          /\ slot' \in [Mutators -> Nat]
      BY <1>10 DEF SetCloneSwap, ObjOrNull
    <2> QED
      BY <1>10, <1>1, <1>2, <2>3, <2>4, <2>5 DEF SetCloneSwap
  <1> QED
    BY <1>4, <1>5, <1>6, <1>7, <1>8, <1>9, <1>10 DEF MutatorStep

\* So do dropping a reference and ending a thread.
LEMMA OwnerTypeInv ==
  ASSUME TypeInv, NEW m \in Owners, Finish(m) \/ \E o \in Obj : Drop(m, o)
  PROVE  TypeInv'
  <1> USE NullAssumption, ThreadsAssumption
  <1> USE DEF TypeInv, VariablesTyped, RefCountTypeOK, heapVars, Heaps
  <1> m \in Threads /\ m # Collector
    BY DEF Owners
  <1>1. UNCHANGED collectorVars => CollectorTypeOK'
    BY DEF CollectorTypeOK, collectorVars, rootVars
  <1>2. UNCHANGED collectorVars /\ pc'[Collector] = pc[Collector] /\ ret'[Collector] = ret[Collector]
          => CollectorOK'
    BY DEF CollectorOK, collectorVars, rootVars
  <1>3. UNCHANGED heapVars /\ UNCHANGED suspected_object_list => HeapTypeOK'
    BY DEF HeapTypeOK
  <1>4. CASE Finish(m)
    <2>1. CallTypeOK'
      BY <1>4 DEF Finish, CallTypeOK, Goto, Labels
    <2>2. LoopTypeOK' /\ WaitTypeOK'
      BY <1>4 DEF Finish, LoopTypeOK, WaitTypeOK, loopVars, waitVars
    <2>3. CallsOK'
      BY <1>4 DEF Finish, CallsOK, CallTypeOK, Goto, loopVars, waitVars
    <2>4. AccessorsOK'
      BY <1>4 DEF Finish, AccessorsOK, CallTypeOK, Goto, mutatorVars
    <2>5. CollectorOK'
      BY <1>4, <1>2 DEF Finish, CallTypeOK, Goto
    <2> QED
      BY <1>4, <1>1, <1>3, <2>1, <2>2, <2>3, <2>4, <2>5 DEF Finish, mutatorVars
  <1>5. ASSUME NEW o \in Obj, Drop(m, o)
        PROVE  TypeInv'
    <2>1. pc[m] = "idle" /\ ret[m] = "idle" /\ held[m][o] > 0
      BY <1>5, OwnerReturnsIdle DEF Drop
    <2>2. /\ CallTypeOK' /\ LoopTypeOK' /\ WaitTypeOK'
          /\ CallsOK' /\ AccessorsOK'
          /\ pc'[Collector] = pc[Collector] /\ ret'[Collector] = ret[Collector]
      <3>1. CallDecrement(m, o, "idle") /\ UNCHANGED <<loopVars, waitVars>> /\ UNCHANGED <<par, slot>>
        BY <1>5 DEF Drop
      <3> QED
        BY <2>1, <3>1, DecrementCallTypeInv
    <2>3. held' \in [Owners -> [Obj -> Nat]] /\ par' \in [Mutators -> ObjOrNull]
          /\ slot' \in [Mutators -> Nat]
      BY <1>5, <2>1 DEF Drop, Lose
    <2> QED
      BY <1>5, <1>1, <1>2, <1>3, <2>2, <2>3 DEF Drop
  <1> QED
    BY <1>4, <1>5

-----------------------------------------------------------------------------
(***************************************************************************)
(* The collector.                                                          *)
(***************************************************************************)
CollectorLabels == {"idle", "next_root", "red", "red_read", "gray", "red_unlock", "check",
                    "release", "release_field", "kill"}

\* Going from place to place in gc_collect disturbs no other thread.
LEMMA CollectorGotoTypeInv ==
  ASSUME TypeInv, NEW label \in CollectorLabels, CollectorGoto(label), UNCHANGED mutatorVars
  PROVE  /\ CallTypeOK' /\ LoopTypeOK' /\ WaitTypeOK'
         /\ CallsOK' /\ AccessorsOK'
         /\ pc'[Collector] = label /\ ret' = ret
  <1> USE ThreadsAssumption, CollectorAssumption
  <1> USE DEF TypeInv, VariablesTyped, RefCountTypeOK, CollectorGoto, Goto, CollectorLabels
  <1>1. CallTypeOK'
    BY DEF CallTypeOK, Labels
  <1>2. LoopTypeOK' /\ WaitTypeOK'
    BY DEF LoopTypeOK, WaitTypeOK, loopVars, waitVars
  <1>3. CallsOK'
    BY DEF CallsOK, CallTypeOK, loopVars, waitVars
  <1>4. AccessorsOK'
    BY DEF AccessorsOK, CallTypeOK, mutatorVars
  <1>5. pc'[Collector] = label /\ ret' = ret
    BY DEF CallTypeOK
  <1> QED
    BY <1>1, <1>2, <1>3, <1>4, <1>5

\* A step that leaves the procedures of all threads where they are.
LEMMA CollectorStayTypeInv ==
  ASSUME TypeInv, UNCHANGED callVars, UNCHANGED mutatorVars
  PROVE  /\ CallTypeOK' /\ LoopTypeOK' /\ WaitTypeOK'
         /\ CallsOK' /\ AccessorsOK'
         /\ pc' = pc /\ ret' = ret
  BY DEF TypeInv, VariablesTyped, RefCountTypeOK, callVars, mutatorVars, loopVars, waitVars,
         CallTypeOK, LoopTypeOK, WaitTypeOK, CallsOK, AccessorsOK

\* Clearing the locals of a root keeps their types.
LEMMA ForgetRootType ==
  ASSUME ForgetRoot, SizeMax \in Nat
  PROVE  /\ root' = Null /\ current' = Null /\ idx' = 1 /\ todo' = {} /\ seen' = {}
         /\ is_cyclic_root' \in BOOLEAN /\ cycle_objects' = {} /\ counted' = {}
         /\ count_map' \in [Obj -> 0..SizeMax] /\ non_cycle_objects' = {}
  <1>1. is_cyclic_root' \in BOOLEAN
    BY DEF ForgetRoot
  <1> QED
    BY <1>1 DEF ForgetRoot

\* Every step of gc_collect keeps the types.
LEMMA CollectorTypeInv ==
  ASSUME TypeInv, CollectorStep, UNCHANGED mutatorVars
  PROVE  TypeInv'
  <1> USE NullAssumption, CollectorAssumption
  <1> USE DEF TypeInv, VariablesTyped, RefCountTypeOK, heapVars, Heaps
  <1>0. "idle" \in CollectorLabels /\ "next_root" \in CollectorLabels
        /\ "red" \in CollectorLabels /\ "red_read" \in CollectorLabels
        /\ "gray" \in CollectorLabels /\ "red_unlock" \in CollectorLabels
        /\ "check" \in CollectorLabels /\ "release" \in CollectorLabels
        /\ "release_field" \in CollectorLabels /\ "kill" \in CollectorLabels
    BY DEF CollectorLabels
  <1>1. /\ (held \in [Owners -> [Obj -> Nat]])'
        /\ (par \in [Mutators -> ObjOrNull])'
        /\ (slot \in [Mutators -> Nat])'
    BY DEF mutatorVars, Owners
  <1>2. UNCHANGED heapVars /\ (suspected_object_list' \subseteq Obj) => HeapTypeOK'
    BY DEF HeapTypeOK
  <1>3. suspected_object_list \subseteq Obj /\ SizeMax \in Nat
    BY SizeAssumption DEF HeapTypeOK
  <1>4. CASE MoveList
    <2>1. CollectorTypeOK'
      BY <1>4, <1>3 DEF MoveList, CollectorTypeOK, rootVars
    <2>2. CollectorOK'
      BY <1>4, <1>0, CollectorGotoTypeInv DEF MoveList, CollectorOK, CollectorAt, rootVars
    <2> QED
      BY <1>4, <1>0, <1>1, <1>2, <2>1, <2>2, CollectorGotoTypeInv DEF MoveList
  <1>5. CASE BeginRoot
    <2>1. CollectorTypeOK'
      BY <1>5 DEF BeginRoot, CollectorTypeOK, ObjOrNull
    <2>2. CollectorOK'
      BY <1>5, <1>0, CollectorGotoTypeInv DEF BeginRoot, CollectorOK, CollectorAt, CollectorTypeOK
    <2> QED
      BY <1>5, <1>0, <1>1, <1>2, <1>3, <2>1, <2>2, CollectorGotoTypeInv DEF BeginRoot
  <1>6. CASE RedLock
    <2>1. current \in Obj
      BY <1>6 DEF RedLock, CollectorAt, CollectorOK
    <2>2. CollectorTypeOK'
      BY <1>6, <2>1 DEF RedLock, CollectorTypeOK
    <2>3. HeapTypeOK'
      BY <1>6 DEF RedLock, HeapTypeOK
    <2>4. CollectorOK'
      BY <1>6, <1>0, CollectorGotoTypeInv DEF RedLock, CollectorOK, CollectorAt
    <2> QED
      BY <1>6, <1>0, <1>1, <2>2, <2>3, <2>4, CollectorGotoTypeInv DEF RedLock
  <1>7. CASE RedRead
    <2> DEFINE f == field[current][idx]
    <2>1. current \in Obj /\ idx \in Slots
      BY <1>7 DEF RedRead, CollectorAt, CollectorOK
    <2>2. f # Null => f \in Obj
      BY <2>1, FieldType
    <2>3. is_cyclic_root' \in BOOLEAN
      BY <1>7 DEF RedRead, CollectorTypeOK
    <2>4. CollectorTypeOK'
      BY <1>7, <2>2, <2>3 DEF RedRead, CollectorTypeOK
    <2>5. CollectorOK'
      BY <1>7, CollectorStayTypeInv DEF RedRead, CollectorOK
    <2> QED
      BY <1>7, <1>1, <1>2, <1>3, <2>4, <2>5, CollectorStayTypeInv DEF RedRead
  <1>8. CASE RedNext
    <2>1. PICK label \in CollectorLabels :
            /\ CollectorGoto(label)
            /\ label = "red" => current' \in Obj
            /\ label \in {"red", "gray", "red_unlock"}
      BY <1>8, <1>0 DEF RedNext, CollectorTypeOK
    <2>2. CollectorTypeOK'
      BY <1>8 DEF RedNext, CollectorTypeOK, ObjOrNull
    <2>3. ret[Collector] # "release_field"
      BY <1>8 DEF RedNext, CollectorAt, CollectorOK
    <2>4. CollectorOK'
      BY <1>8, <2>1, <2>3, CollectorGotoTypeInv DEF RedNext, CollectorOK, CollectorAt
    <2> QED
      BY <1>8, <1>1, <1>2, <1>3, <2>1, <2>2, <2>4, CollectorGotoTypeInv DEF RedNext
  <1>9. CASE GrayLoad
    <2>1. CollectorTypeOK'
      BY <1>9 DEF GrayLoad, CollectorTypeOK, HeapTypeOK
    <2>2. CollectorOK'
      BY <1>9, CollectorStayTypeInv DEF GrayLoad, CollectorOK
    <2> QED
      BY <1>9, <1>1, <1>2, <1>3, <2>1, <2>2, CollectorStayTypeInv DEF GrayLoad
  <1>10. CASE MarkWhite
    <2>1. White \subseteq Obj
      BY DEF White, CollectorTypeOK
    <2>2. CollectorTypeOK'
      BY <1>10, <2>1 DEF MarkWhite, CollectorTypeOK, rootVars
    <2>3. HeapTypeOK'
      BY <1>10 DEF MarkWhite, HeapTypeOK, ObjectState
    <2>4. CollectorOK'
      BY <1>10, <1>0, CollectorGotoTypeInv DEF MarkWhite, CollectorOK, CollectorAt, rootVars
    <2> QED
      BY <1>10, <1>0, <1>1, <2>2, <2>3, <2>4, CollectorGotoTypeInv DEF MarkWhite
  <1>11. CASE UnlockAll
    <2>1. root \in Obj /\ ret[Collector] # "release_field"
      BY <1>11 DEF UnlockAll, CollectorAt, CollectorOK
    <2>2. HeapTypeOK'
      BY <1>11 DEF UnlockAll, HeapTypeOK
    <2>3. CASE is_cyclic_root
      <3>1. CollectorGoto("next_root") /\ ForgetRoot
        BY <1>11, <2>3 DEF UnlockAll
      <3>2. CollectorTypeOK'
        BY <1>11, <1>3, <3>1, ForgetRootType DEF UnlockAll, CollectorTypeOK, ObjOrNull
      <3>3. CollectorOK'
        BY <1>0, <2>1, <3>1, CollectorGotoTypeInv DEF CollectorOK
      <3> QED
        BY <1>0, <1>1, <2>2, <3>1, <3>2, <3>3, CollectorGotoTypeInv
    <2>4. CASE ~is_cyclic_root
      <3>1. CollectorGoto("check") /\ cycle_objects' = {} /\ todo' = {root}
        BY <1>11, <2>4 DEF UnlockAll
      <3>2. CollectorTypeOK'
        BY <1>11, <2>1, <2>4 DEF UnlockAll, CollectorTypeOK
      <3>3. CollectorOK'
        BY <1>0, <2>1, <3>1, CollectorGotoTypeInv DEF CollectorOK
      <3> QED
        BY <1>0, <1>1, <2>2, <3>1, <3>2, <3>3, CollectorGotoTypeInv
    <2> QED
      BY <2>3, <2>4
  <1>12. CASE CheckWaiting
    <2>1. ret[Collector] # "release_field" /\ cycle_objects = {}
      BY <1>12 DEF CheckWaiting, CollectorAt, CollectorOK
    <2>2. HeapTypeOK'
      BY <1>12, <1>2, <1>3 DEF CheckWaiting
    <2> DEFINE found(o) == non_cycle_objects \cup {o}
               rest(o)  == (todo \ {o}) \cup (Children(field, o) \ found(o))
    <2>3. PICK o \in todo :
            \/ CollectorGoto("next_root") /\ ForgetRoot /\ UNCHANGED release_objects
            \/ /\ CollectorGoto("next_root") /\ ForgetRoot
               /\ release_objects' = release_objects \cup found(o)
            \/ /\ non_cycle_objects' = found(o) /\ todo' = rest(o)
               /\ UNCHANGED <<callVars, root, current, idx, seen, is_cyclic_root,
                              cycle_objects, counted, count_map, release_objects>>
      BY <1>12 DEF CheckWaiting
    <2>4. o \in Obj /\ UNCHANGED <<roots, pending, releasing>>
      BY <1>12 DEF CheckWaiting, CollectorTypeOK
    <2>5. found(o) \subseteq Obj /\ rest(o) \subseteq Obj
      BY <2>4 DEF CollectorTypeOK, Children, HeapTypeOK, ObjOrNull
    <2> HIDE DEF found, rest
    <2>6. CASE CollectorGoto("next_root") /\ ForgetRoot
      <3>1. release_objects' \subseteq Obj
        BY <2>3, <2>5 DEF CollectorTypeOK
      <3>2. CollectorTypeOK'
        BY <1>3, <2>4, <2>6, <3>1, ForgetRootType DEF CollectorTypeOK, ObjOrNull
      <3>3. CollectorOK'
        BY <1>0, <2>1, <2>6, CollectorGotoTypeInv DEF CollectorOK
      <3> QED
        BY <1>0, <1>1, <2>2, <2>6, <3>2, <3>3, CollectorGotoTypeInv
    <2>7. CASE /\ non_cycle_objects' = found(o) /\ todo' = rest(o)
               /\ UNCHANGED <<callVars, root, current, idx, seen, is_cyclic_root,
                              cycle_objects, counted, count_map, release_objects>>
      <3>1. CollectorTypeOK'
        BY <2>4, <2>5, <2>7 DEF CollectorTypeOK
      <3>2. CollectorOK'
        BY <2>7, CollectorStayTypeInv DEF CollectorOK
      <3> QED
        BY <1>1, <2>2, <2>7, <3>1, <3>2, CollectorStayTypeInv
    <2> QED
      BY <2>3, <2>6, <2>7
  <1>13. CASE EndRoots
    <2>1. CollectorTypeOK'
      BY <1>13 DEF EndRoots, CollectorTypeOK, rootVars
    <2>2. CollectorOK'
      BY <1>13, <1>0, CollectorGotoTypeInv DEF EndRoots, CollectorOK, CollectorAt, rootVars
    <2> QED
      BY <1>13, <1>0, <1>1, <1>2, <1>3, <2>1, <2>2, CollectorGotoTypeInv DEF EndRoots
  <1>14. CASE EraseReleased
    <2>1. CollectorTypeOK' /\ current' \in Obj
      BY <1>14 DEF EraseReleased, CollectorTypeOK, ObjOrNull
    <2>2. CollectorOK'
      BY <1>14, <1>0, <2>1, CollectorGotoTypeInv DEF EraseReleased, CollectorOK, CollectorAt
    <2>3. suspected_object_list' \subseteq Obj
      BY <1>14, <1>3 DEF EraseReleased
    <2> QED
      BY <1>14, <1>0, <1>1, <1>2, <2>1, <2>2, <2>3, CollectorGotoTypeInv DEF EraseReleased
  <1>15. CASE ReleaseField
    <2> DEFINE f == field[current][idx]
    <2>1. current \in Obj /\ idx \in Slots
      BY <1>15 DEF ReleaseField, CollectorAt, CollectorOK
    <2>2. f # Null => f \in Obj
      BY <2>1, FieldType
    <2>3. CollectorTypeOK'
      BY <1>15 DEF ReleaseField, CollectorTypeOK
    <2>4. HeapTypeOK'
      BY <1>15, <1>2, <1>3 DEF ReleaseField
    <2>5. CASE UNCHANGED callVars
      <3>1. CollectorOK'
        BY <1>15, <2>5, CollectorStayTypeInv DEF ReleaseField, CollectorOK
      <3> QED
        BY <1>1, <2>3, <2>4, <2>5, <3>1, CollectorStayTypeInv
    <2>6. CASE f # Null /\ CallDecrement(Collector, f, "release_field") /\ UNCHANGED <<loopVars, waitVars>>
      <3> HIDE DEF f
      <3>1. CallTypeOK'
        BY <2>2, <2>6 DEF CallDecrement, CallTypeOK, Goto, Labels, ReturnLabels, ObjOrNull
      <3>2. LoopTypeOK' /\ WaitTypeOK'
        BY <2>6 DEF LoopTypeOK, WaitTypeOK, loopVars, waitVars
      <3>3. CallsOK'
        BY <2>2, <2>6 DEF CallDecrement, CallsOK, CallTypeOK, Goto, loopVars, waitVars
      <3>4. AccessorsOK'
        BY <2>6, ThreadsAssumption DEF CallDecrement, AccessorsOK, CallTypeOK, Goto, mutatorVars
      <3>5. CollectorOK'
        BY <1>15, <2>1, <2>6 DEF ReleaseField, CallDecrement, CollectorOK, CallTypeOK, Goto
      <3> QED
        BY <1>1, <2>3, <2>4, <3>1, <3>2, <3>3, <3>4, <3>5
    <2> QED
      BY <1>15, <2>5, <2>6 DEF ReleaseField
  <1>16. CASE ReleaseNext
    <2>1. CollectorTypeOK'
      BY <1>16 DEF ReleaseNext, CollectorTypeOK, ObjOrNull
    <2>2. CollectorOK'
      BY <1>16, <1>0, CollectorGotoTypeInv DEF ReleaseNext, CollectorOK, CollectorAt
    <2> QED
      BY <1>16, <1>0, <1>1, <1>2, <1>3, <2>1, <2>2, CollectorGotoTypeInv DEF ReleaseNext
  <1>17. CASE EndRelease
    <2>1. CollectorTypeOK'
      BY <1>17 DEF EndRelease, CollectorTypeOK, collectorVars, rootVars
    <2>2. CollectorOK'
      BY <1>17, <1>0, CollectorGotoTypeInv DEF EndRelease, CollectorOK, CollectorAt, collectorVars, rootVars
    <2> QED
      BY <1>17, <1>0, <1>1, <1>2, <1>3, <2>1, <2>2, CollectorGotoTypeInv DEF EndRelease
  <1>18. CASE Kill
    <2>1. HeapTypeOK'
      BY <1>18 DEF Kill, HeapTypeOK, ObjectState
    <2>2. CollectorTypeOK'
      BY <1>18 DEF Kill, CollectorTypeOK, rootVars
    <2>3. CollectorOK'
      BY <1>18, CollectorStayTypeInv DEF Kill, CollectorOK, rootVars
    <2> QED
      BY <1>18, <1>1, <2>1, <2>2, <2>3, CollectorStayTypeInv DEF Kill
  <1>19. CASE Reinsert
    <2>1. CollectorTypeOK'
      BY <1>19 DEF Reinsert, CollectorTypeOK, rootVars
    <2>2. CollectorOK'
      BY <1>19, <1>0, CollectorGotoTypeInv DEF Reinsert, CollectorOK, CollectorAt, rootVars
    <2>3. suspected_object_list' \subseteq Obj
      BY <1>19, <1>3 DEF Reinsert, CollectorTypeOK
    <2> QED
      BY <1>19, <1>0, <1>1, <1>2, <2>1, <2>2, <2>3, CollectorGotoTypeInv DEF Reinsert
  <1> QED
    BY <1>4, <1>5, <1>6, <1>7, <1>8, <1>9, <1>10, <1>11, <1>12, <1>13, <1>14, <1>15,
       <1>16, <1>17, <1>18, <1>19 DEF CollectorStep

-----------------------------------------------------------------------------
\* TypeInv depends on the variables only.
LEMMA StutterTypeInv ==
  ASSUME TypeInv, UNCHANGED vars
  PROVE  TypeInv'
  <1> USE DEF TypeInv, VariablesTyped, RefCountTypeOK, vars, heapVars, callVars, collectorVars,
              rootVars, mutatorVars, loopVars, waitVars
  <1>1. HeapTypeOK' /\ CallTypeOK' /\ LoopTypeOK' /\ WaitTypeOK'
    BY DEF HeapTypeOK, CallTypeOK, LoopTypeOK, WaitTypeOK
  <1>2. CollectorTypeOK'
    BY DEF CollectorTypeOK
  <1>3. CallsOK' /\ AccessorsOK' /\ CollectorOK'
    BY DEF CallsOK, AccessorsOK, CollectorOK
  <1> QED
    BY <1>1, <1>2, <1>3

\* TypeInv is inductive.
LEMMA NextTypeInv == TypeInv /\ [Next]_vars => TypeInv'
  <1> SUFFICES ASSUME TypeInv, [Next]_vars PROVE TypeInv'
    OBVIOUS
  <1> QED
    BY RefCountTypeInv, MutatorTypeInv, OwnerTypeInv, CollectorTypeInv, StutterTypeInv DEF Next

\* The heap, the procedures of every thread and the collector keep their
\* types: no accessor, reference-counting procedure or collection pass
\* dereferences a pointer that is not an object.
THEOREM TypeCorrect == Spec => []TypeOK
  <1>1. TypeInv => TypeOK
    BY DEF TypeInv, TypeOK, PointersOK, CallsOK, AccessorsOK, CollectorOK
  <1> QED
    BY <1>1, InitTypeInv, NextTypeInv, PTL DEF Spec

-----------------------------------------------------------------------------
(***************************************************************************)
(* object_lock and object_unlock.                                          *)
(***************************************************************************)
LockInv == TypeInv /\ LockExclusive

\* A step that takes or releases no lock.
LEMMA LockFrame ==
  ASSUME LockExclusive, UNCHANGED <<lock_flag, cycle_objects>>,
         \A m \in Mutators : InGetClone(m)' <=> InGetClone(m),
         \A m \in Mutators : InGetClone(m) => par'[m] = par[m]
  PROVE  LockExclusive'
  BY DEF LockExclusive

\* The reference-counting procedures take and release no lock, and the one
\* called inside get_clone_object_field returns into its critical section.
LEMMA RefCountLock ==
  ASSUME TypeInv, LockExclusive, NEW t \in Threads, RefCountStep(t),
         UNCHANGED <<collectorVars, mutatorVars>>
  PROVE  LockExclusive'
  <1> USE ThreadsAssumption
  <1> USE DEF TypeInv, VariablesTyped, RefCountTypeOK, CallTypeOK, ReturnLabels
  <1>1. UNCHANGED <<lock_flag, cycle_objects, par>>
    BY Zenon DEF RefCountStep, collectorVars, rootVars, mutatorVars, heapVars,
           ClaimAsyncRelease, AddSuspectedObject, DecrementReferenceCount, DecrementField,
           StoreDead, WaitingMark, WaitingField, WaitingNull, WaitingPop, StoreWaiting,
           WaitingNextRoot
  <1>2. ASSUME NEW m \in Mutators
        PROVE  InGetClone(m)' <=> InGetClone(m)
    <2>1. CASE pc[t] = "cas" \/ pc[t] = "insert"
      <3>1. ClaimAsyncRelease(t) \/ AddSuspectedObject(t)
        BY <2>1, Zenon DEF RefCountStep, DecrementReferenceCount, DecrementField, StoreDead,
           WaitingMark, WaitingField, WaitingNull, WaitingPop, StoreWaiting, WaitingNextRoot
      <3>2. CASE ClaimAsyncRelease(t)
        BY <3>2 DEF ClaimAsyncRelease, InGetClone, Goto, Return
      <3>3. CASE AddSuspectedObject(t)
        BY <3>3 DEF AddSuspectedObject, InGetClone, Return
      <3> QED
        BY <3>1, <3>2, <3>3
    <2>2. CASE pc[t] # "cas" /\ pc[t] # "insert"
      <3>1. ret[t] # "unlock" /\ pc[t] # "unlock"
        BY <2>2, Zenon DEF CallsOK, RefCountStep, ClaimAsyncRelease, AddSuspectedObject,
           DecrementReferenceCount, DecrementField, StoreDead,
           WaitingMark, WaitingField, WaitingNull, WaitingPop, StoreWaiting, WaitingNextRoot
      <3>2. \A u \in Threads \ {t} : pc'[u] = pc[u] /\ ret'[u] = ret[u]
        BY Zenon DEF RefCountStep, ClaimAsyncRelease, AddSuspectedObject,
           DecrementReferenceCount, DecrementField, StoreDead, Goto, Return,
           WaitingMark, WaitingField, WaitingNull, WaitingPop, StoreWaiting, WaitingNextRoot
      <3>3. pc'[t] \in {"dec", "nrm", "wtg_mark", "wtg", "wtg_null", "wtg_done", ret[t]}
        BY <2>2, Zenon DEF RefCountStep, ClaimAsyncRelease, AddSuspectedObject,
           DecrementReferenceCount, DecrementField, StoreDead, Goto, Return,
           WaitingMark, WaitingField, WaitingNull, WaitingPop, StoreWaiting, WaitingNextRoot
      <3>4. CASE m = t
        BY <2>2, <3>1, <3>3, <3>4 DEF InGetClone
      <3>5. CASE m # t
        BY <3>2, <3>5 DEF InGetClone
      <3> QED
        BY <3>4, <3>5
    <2> QED
      BY <2>1, <2>2
  <1> QED
    BY <1>1, <1>2, LockFrame

\* The accessors take and release the lock of the object they work on.
LEMMA MutatorLock ==
  ASSUME TypeInv, LockExclusive, NEW m \in Mutators, MutatorStep(m)
  PROVE  LockExclusive'
  <1> USE ThreadsAssumption
  <1> USE DEF TypeInv, VariablesTyped, RefCountTypeOK, CallTypeOK
  <1> m \in Threads /\ m \in Owners
    BY DEF Owners
  <1>1. UNCHANGED collectorVars => UNCHANGED cycle_objects
    BY DEF collectorVars, rootVars
  <1>2. ASSUME NEW o \in Obj, Malloc(m, o)
        PROVE  LockExclusive'
    <2>1. UNCHANGED <<lock_flag, cycle_objects, par, pc, ret>>
      BY <1>2, <1>1 DEF Malloc, callVars
    <2> QED
      BY <2>1, LockFrame DEF InGetClone
  <1>3. ASSUME NEW p \in Obj, NEW i \in Slots, GetMove(m, p, i)
        PROVE  LockExclusive'
    <2>1. UNCHANGED <<lock_flag, cycle_objects, par, pc, ret>>
      BY <1>3, <1>1 DEF GetMove, callVars
    <2> QED
      BY <2>1, LockFrame DEF InGetClone
  <1>4. ASSUME NEW p \in Obj, NEW i \in Slots, GetClone(m, p, i)
        PROVE  LockExclusive'
    <2>1. /\ ~lock_flag[p] /\ lock_flag' = [lock_flag EXCEPT ![p] = TRUE]
          /\ UNCHANGED cycle_objects
          /\ par' = [par EXCEPT ![m] = p]
      BY <1>4, <1>1 DEF GetClone
    <2>2. ~InGetClone(m) /\ InGetClone(m)'
      BY <1>4 DEF GetClone, IncrementReferenceCount, InGetClone, Goto
    <2>3. \A n \in Mutators \ {m} : InGetClone(n)' <=> InGetClone(n)
      BY <1>4 DEF GetClone, IncrementReferenceCount, InGetClone, Goto
    <2>4. \A n \in Mutators : InGetClone(n) => par[n] # p
      BY <2>1 DEF LockExclusive
    <2>5. p \notin cycle_objects
      BY <2>1 DEF LockExclusive
    <2>6. \A n \in Mutators : par'[n] = IF n = m THEN p ELSE par[n]
      BY <2>1
    <2>7. \A o \in Obj : lock_flag'[o] <=> (o = p \/ lock_flag[o])
      BY <2>1 DEF HeapTypeOK
    <2>8. \A o \in Obj : lock_flag'[o] <=>
            (o \in cycle_objects' \/ \E n \in Mutators : InGetClone(n)' /\ par'[n] = o)
      BY <2>1, <2>2, <2>3, <2>6, <2>7 DEF LockExclusive
    <2>9. ASSUME NEW n \in Mutators, InGetClone(n)'
          PROVE  /\ par'[n] \notin cycle_objects'
                 /\ \A k \in Mutators \ {n} : InGetClone(k)' => par'[k] # par'[n]
      BY <2>1, <2>2, <2>3, <2>4, <2>5, <2>6, <2>9 DEF LockExclusive
    <2> QED
      BY <2>8, <2>9 DEF LockExclusive
  <1>5. ASSUME NEW p \in Obj, NEW i \in Slots, NEW o \in Obj, SetClone(m, p, i, o)
        PROVE  LockExclusive'
    <2>1. UNCHANGED <<lock_flag, cycle_objects>> /\ par' = [par EXCEPT ![m] = p]
      BY <1>5, <1>1 DEF SetClone
    <2>2. ~InGetClone(m) /\ ~InGetClone(m)'
      BY <1>5, OwnerReturnsIdle DEF SetClone, IncrementReferenceCount, InGetClone, Goto
    <2>3. \A n \in Mutators \ {m} : InGetClone(n)' <=> InGetClone(n)
      BY <1>5 DEF SetClone, IncrementReferenceCount, InGetClone, Goto
    <2> QED
      BY <2>1, <2>2, <2>3, LockFrame
  <1>6. ASSUME NEW p \in Obj, NEW i \in Slots, NEW o \in Obj, SetMove(m, p, i, o)
        PROVE  LockExclusive'
    <2>1. UNCHANGED <<lock_flag, cycle_objects, par>>
      BY <1>6, <1>1 DEF SetMove
    <2>2. \A n \in Mutators : InGetClone(n)' <=> InGetClone(n)
      BY <1>6, OwnerReturnsIdle DEF SetMove, GiveUpOld, CallDecrement, InGetClone, Goto
    <2> QED
      BY <2>1, <2>2, LockFrame
  <1>7. ASSUME GetCloneUnlock(m)
        PROVE  LockExclusive'
    <2>1. /\ lock_flag' = [lock_flag EXCEPT ![par[m]] = FALSE]
          /\ UNCHANGED cycle_objects
          /\ par' = [par EXCEPT ![m] = Null]
      BY <1>7, <1>1 DEF GetCloneUnlock
    <2>2. InGetClone(m) /\ ~InGetClone(m)'
      BY <1>7 DEF GetCloneUnlock, InGetClone, Goto
    <2>3. \A n \in Mutators \ {m} : InGetClone(n)' <=> InGetClone(n)
      BY <1>7 DEF GetCloneUnlock, InGetClone, Goto
    <2>4. par[m] \notin cycle_objects
          /\ \A n \in Mutators \ {m} : InGetClone(n) => par[n] # par[m]
      BY <2>2 DEF LockExclusive
    <2>5. \A n \in Mutators \ {m} : par'[n] = par[n]
      BY <2>1
    <2>6. \A o \in Obj : lock_flag'[o] <=> (o # par[m] /\ lock_flag[o])
      BY <2>1 DEF HeapTypeOK
    <2>7. \A o \in Obj : lock_flag'[o] <=>
            (o \in cycle_objects' \/ \E n \in Mutators : InGetClone(n)' /\ par'[n] = o)
      BY <2>1, <2>2, <2>3, <2>4, <2>5, <2>6 DEF LockExclusive
    <2>8. ASSUME NEW n \in Mutators, InGetClone(n)'
          PROVE  /\ par'[n] \notin cycle_objects'
                 /\ \A k \in Mutators \ {n} : InGetClone(k)' => par'[k] # par'[n]
      BY <2>1, <2>2, <2>3, <2>5, <2>8 DEF LockExclusive
    <2> QED
      BY <2>7, <2>8 DEF LockExclusive
  <1>8. ASSUME SetCloneSwap(m)
        PROVE  LockExclusive'
    <2>1. UNCHANGED <<lock_flag, cycle_objects>> /\ par' = [par EXCEPT ![m] = Null]
      BY <1>8, <1>1 DEF SetCloneSwap
    <2>2. ~InGetClone(m) /\ ~InGetClone(m)'
      BY <1>8, OwnerReturnsIdle DEF SetCloneSwap, GiveUpOld, CallDecrement, InGetClone, Goto
    <2>3. \A n \in Mutators \ {m} : InGetClone(n)' <=> InGetClone(n)
      BY <1>8 DEF SetCloneSwap, GiveUpOld, CallDecrement, InGetClone, Goto
    <2> QED
      BY <2>1, <2>2, <2>3, LockFrame
  <1> QED
    BY <1>2, <1>3, <1>4, <1>5, <1>6, <1>7, <1>8 DEF MutatorStep

\* Dropping a reference and ending a thread touch no lock.
LEMMA OwnerLock ==
  ASSUME TypeInv, LockExclusive, NEW m \in Owners, Finish(m) \/ \E o \in Obj : Drop(m, o)
  PROVE  LockExclusive'
  <1>1. UNCHANGED <<lock_flag, cycle_objects, par>>
    BY DEF Finish, Drop, heapVars, collectorVars, rootVars, mutatorVars
  <1>2. \A n \in Mutators : InGetClone(n)' <=> InGetClone(n)
    <2> USE ThreadsAssumption DEF TypeInv, VariablesTyped, RefCountTypeOK, CallTypeOK, Owners
    <2>1. pc[m] = "idle" /\ (ret'[m] = "idle" \/ pc'[m] = "done") /\ pc'[m] \in {"dec", "done"}
      BY DEF Finish, Drop, CallDecrement, Goto
    <2>2. \A n \in Mutators \ {m} : pc'[n] = pc[n] /\ ret'[n] = ret[n]
      BY DEF Finish, Drop, CallDecrement, Goto
    <2> QED
      BY <2>1, <2>2 DEF InGetClone
  <1> QED
    BY <1>1, <1>2, LockFrame

\* gc_collect locks an object that is free and unlocks what it locked.
LEMMA CollectorLock ==
  ASSUME TypeInv, LockExclusive, CollectorStep, UNCHANGED mutatorVars
  PROVE  LockExclusive'
  <1> USE ThreadsAssumption
  <1>1. UNCHANGED par
    BY DEF mutatorVars
  <1>2. \A m \in Mutators : InGetClone(m)' <=> InGetClone(m)
    <2>1. \A m \in Mutators : pc'[m] = pc[m] /\ ret'[m] = ret[m]
      BY DEF TypeInv, VariablesTyped, RefCountTypeOK, CallTypeOK, CollectorStep, CollectorGoto, Goto,
             callVars, CallDecrement, MoveList, BeginRoot, RedLock, RedRead, RedNext, GrayLoad,
             MarkWhite, UnlockAll, CheckWaiting, EndRoots, EraseReleased, ReleaseField,
             ReleaseNext, EndRelease, Kill, Reinsert
    <2> QED
      BY <2>1 DEF InGetClone
  <1>3. CASE RedLock
    <2>1. /\ ~lock_flag[current] /\ lock_flag' = [lock_flag EXCEPT ![current] = TRUE]
          /\ cycle_objects' = cycle_objects \cup {current}
      BY <1>3 DEF RedLock
    <2>2. current \in Obj
      BY <1>3 DEF RedLock, CollectorAt, TypeInv, CollectorOK
    <2>3. lock_flag \in [Obj -> BOOLEAN]
      BY DEF TypeInv, VariablesTyped, RefCountTypeOK, HeapTypeOK
    <2> QED
      BY <1>1, <1>2, <2>1, <2>2, <2>3 DEF LockExclusive
  <1>4. CASE UnlockAll
    <2>1. lock_flag' = [o \in Obj |-> lock_flag[o] /\ o \notin cycle_objects]
      BY <1>4 DEF UnlockAll
    <2>2. cycle_objects' = {}
      BY <1>4 DEF UnlockAll, ForgetRoot
    <2> QED
      BY <1>1, <1>2, <2>1, <2>2 DEF LockExclusive
  <1>5. CASE ~RedLock /\ ~UnlockAll
    <2>1. UNCHANGED lock_flag
      BY <1>5 DEF CollectorStep, heapVars, MoveList, BeginRoot, RedRead, RedNext, GrayLoad,
         MarkWhite, CheckWaiting, EndRoots, EraseReleased, ReleaseField,
         ReleaseNext, EndRelease, Kill, Reinsert
    <2>2. UNCHANGED cycle_objects
      <3>1. CASE CheckWaiting
        BY <3>1 DEF CheckWaiting, ForgetRoot, CollectorAt, TypeInv, CollectorOK
      <3> QED
        BY <1>5, <3>1 DEF CollectorStep, collectorVars, rootVars, MoveList, BeginRoot, RedRead,
           RedNext, GrayLoad, MarkWhite, EndRoots, EraseReleased, ReleaseField,
           ReleaseNext, EndRelease, Kill, Reinsert
    <2> QED
      BY <1>1, <1>2, <2>1, <2>2, LockFrame
  <1> QED
    BY <1>3, <1>4, <1>5

\* The lock flag of an object is set exactly while one thread is in its
\* critical section (object_lock and object_unlock of HeapAllocator.h as the
\* accessors of CatLa.cpp and gc_collect use them), for any number of
\* mutators and objects.
THEOREM LocksExclude == Spec => []LockExclusive
  <1>1. Init => LockInv
    BY InitTypeInv, ThreadsAssumption DEF Init, LockInv, LockExclusive, InGetClone
  <1>2. LockInv /\ [Next]_vars => LockInv'
    <2> SUFFICES ASSUME LockInv, [Next]_vars PROVE LockInv'
      OBVIOUS
    <2>1. CASE UNCHANGED vars
      <3>1. UNCHANGED <<lock_flag, cycle_objects, par, pc, ret>>
        BY <2>1 DEF vars, heapVars, callVars, collectorVars, rootVars, mutatorVars
      <3> QED
        BY <2>1, <3>1, NextTypeInv, LockFrame DEF LockInv, InGetClone
    <2> QED
      BY <2>1, NextTypeInv, RefCountLock, MutatorLock, OwnerLock, CollectorLock DEF LockInv, Next
  <1>3. LockInv => LockExclusive
    BY DEF LockInv
  <1> QED
    BY <1>1, <1>2, <1>3, PTL DEF Spec

-----------------------------------------------------------------------------
(***************************************************************************)
(* What the invariant of Ownership says about a state.                     *)
(***************************************************************************)
Inv == LockInv /\ OwnInv

\* The references to an object are finitely many, fewer than a size_t counts.
LEMMA TokensFinite ==
  ASSUME NEW o
  PROVE  /\ IsFiniteSet(Fields(o)) /\ IsFiniteSet(Locals(o)) /\ IsFiniteSet(Calls(o))
         /\ Cardinality(Fields(o)) \in Nat /\ Cardinality(Locals(o)) \in Nat
         /\ Cardinality(Calls(o)) \in Nat
         /\ Tokens(o) \in Nat /\ Tokens(o) < SizeMax
         /\ Tokens(o) = 0 <=> Fields(o) = {} /\ Locals(o) = {} /\ Calls(o) = {}
  <1>1. IsFiniteSet(Obj) /\ IsFiniteSet(Slots) /\ IsFiniteSet(1..MaxHeld)
    BY ObjAssumption, SlotsAssumption, HeldAssumption, FS_Interval DEF Slots
  <1>2. Owners \subseteq Threads
    BY ThreadsAssumption DEF Owners
  <1>3. IsFiniteSet(Threads) /\ IsFiniteSet(Owners)
    BY <1>2, SizeSuffices, FS_Subset
  <1>4. IsFiniteSet(Obj \X Slots) /\ IsFiniteSet(Owners \X (1..MaxHeld))
    BY <1>1, <1>3, FS_Product
  <1>5. /\ Fields(o) \in SUBSET (Obj \X Slots)
        /\ Locals(o) \in SUBSET (Owners \X (1..MaxHeld))
        /\ Calls(o) \in SUBSET Threads
    BY DEF Fields, Locals, Calls
  <1>6. /\ IsFiniteSet(Fields(o)) /\ IsFiniteSet(Locals(o)) /\ IsFiniteSet(Calls(o))
        /\ Cardinality(Fields(o)) <= Cardinality(Obj \X Slots)
        /\ Cardinality(Locals(o)) <= Cardinality(Owners \X (1..MaxHeld))
        /\ Cardinality(Calls(o)) <= Cardinality(Threads)
    BY ONLY <1>3, <1>4, <1>5, FS_Subset
  <1>7. /\ Cardinality(Fields(o)) \in Nat /\ Cardinality(Locals(o)) \in Nat
        /\ Cardinality(Calls(o)) \in Nat /\ Cardinality(Obj \X Slots) \in Nat
        /\ Cardinality(Owners \X (1..MaxHeld)) \in Nat /\ Cardinality(Threads) \in Nat
    BY ONLY <1>3, <1>4, <1>6, FS_CardinalityType
  <1>8. Cardinality(Obj \X Slots) + Cardinality(Owners \X (1..MaxHeld))
          + Cardinality(Threads) < SizeMax
    BY SizeSuffices DEF Owners
  <1>9. Tokens(o) \in Nat /\ Tokens(o) < SizeMax
    <2>1. SizeMax \in Nat
      BY SizeAssumption
    <2> QED
      BY ONLY <2>1, <1>6, <1>7, <1>8 DEF Tokens
  <1>10. /\ Cardinality(Fields(o)) = 0 <=> Fields(o) = {}
         /\ Cardinality(Locals(o)) = 0 <=> Locals(o) = {}
         /\ Cardinality(Calls(o)) = 0 <=> Calls(o) = {}
    BY ONLY <1>6, FS_EmptySet
  <1>11. Tokens(o) = 0 <=> /\ Cardinality(Fields(o)) = 0 /\ Cardinality(Locals(o)) = 0
                           /\ Cardinality(Calls(o)) = 0
    BY ONLY <1>7 DEF Tokens
  <1> QED
    BY ONLY <1>6, <1>7, <1>9, <1>10, <1>11

\* When the only reference left is a given one there are no others.
LEMMA OnlyToken ==
  ASSUME NEW o, Tokens(o) = 1
  PROVE  /\ \A e \in Fields(o) : Fields(o) = {e} /\ Locals(o) = {} /\ Calls(o) = {}
         /\ \A t \in Calls(o) : Fields(o) = {} /\ Locals(o) = {} /\ Calls(o) = {t}
  <1>1. /\ Cardinality(Fields(o)) \in Nat /\ Cardinality(Locals(o)) \in Nat
        /\ Cardinality(Calls(o)) \in Nat
        /\ Cardinality(Fields(o)) + Cardinality(Locals(o)) + Cardinality(Calls(o)) = 1
    BY TokensFinite DEF Tokens
  <1>2. /\ Cardinality(Fields(o)) = 0 <=> Fields(o) = {}
        /\ Cardinality(Locals(o)) = 0 <=> Locals(o) = {}
        /\ Cardinality(Calls(o)) = 0 <=> Calls(o) = {}
    BY TokensFinite, FS_EmptySet
  <1>3. /\ Cardinality(Fields(o)) = 1 => \E x : Fields(o) = {x}
        /\ Cardinality(Calls(o)) = 1 => \E x : Calls(o) = {x}
    BY TokensFinite, FS_Singleton
  <1>4. /\ Cardinality(Fields(o)) # 0 => /\ Cardinality(Fields(o)) = 1
                                         /\ Cardinality(Locals(o)) = 0 /\ Cardinality(Calls(o)) = 0
        /\ Cardinality(Calls(o)) # 0 => /\ Cardinality(Calls(o)) = 1
                                        /\ Cardinality(Fields(o)) = 0 /\ Cardinality(Locals(o)) = 0
    BY ONLY <1>1
  <1> QED
    BY ONLY <1>2, <1>3, <1>4, Zenon

\* Membership in the three kinds of references.
LEMMA Membership ==
  ASSUME NEW o
  PROVE  /\ \A p \in Obj, i \in Slots :
              <<p, i>> \in Fields(o) <=> field[p][i] = o /\ Carries(p, i)
         /\ \A m \in Owners, n \in 1..MaxHeld : <<m, n>> \in Locals(o) <=> n <= held[m][o]
         /\ \A t \in Threads : t \in Calls(o) <=> tgt[t] = o /\ (Operating(t) \/ pc[t] = "dec")
  BY DEF Fields, Locals, Calls

\* An object a thread works on or holds is in use.
LEMMA HolderKeeps ==
  ASSUME TypeInv, CountInv, NEW o \in Obj, Locals(o) # {} \/ Calls(o) # {}
  PROVE  o \in Kept /\ count[o] = Tokens(o)
  <1>1. Tokens(o) > 0 /\ Tokens(o) \in Nat
    BY TokensFinite
  <1>2. CountOK(o)
    BY DEF CountInv
  <1>3. count[o] \in Nat /\ state[o] \in ObjectState
    BY SizeAssumption DEF TypeInv, VariablesTyped, RefCountTypeOK, HeapTypeOK
  <1> QED
    BY <1>1, <1>2, <1>3 DEF CountOK, Kept, Condemned, ObjectState

\* What a dying object in somebody's hands has not given up, it refers to
\* objects in use; so does an object in use.
LEMMA CarriedKept ==
  ASSUME TypeInv, CountInv, NEW p \in Obj, p \notin Condemned, NEW i \in Slots,
         Carries(p, i), field[p][i] # Null
  PROVE  /\ field[p][i] \in Kept /\ <<p, i>> \in Fields(field[p][i])
         /\ count[field[p][i]] = Tokens(field[p][i])
  <1>0. PICK o : o = field[p][i]
    OBVIOUS
  <1>1. o \in Obj
    BY <1>0, FieldType DEF TypeInv, VariablesTyped, RefCountTypeOK
  <1>2. <<p, i>> \in Fields(o)
    BY <1>0, Membership
  <1>3. Tokens(o) > 0 /\ Tokens(o) \in Nat
    BY <1>2, TokensFinite
  <1>4. CountOK(o)
    BY <1>1 DEF CountInv
  <1>5. count[o] \in Nat /\ state[o] \in ObjectState
    BY <1>1, SizeAssumption DEF TypeInv, VariablesTyped, RefCountTypeOK, HeapTypeOK
  <1>6. o \in Kept /\ count[o] = Tokens(o)
    BY <1>1, <1>2, <1>3, <1>4, <1>5 DEF CountOK, Kept, Condemned, ObjectState
  <1> QED
    BY <1>0, <1>2, <1>6

\* The fields of the objects in use hold objects in use.
LEMMA KeptClosed ==
  ASSUME TypeInv, CountInv
  PROVE  /\ \A p \in Kept, i \in Slots : field[p][i] # Null =>
              field[p][i] \in Kept /\ <<p, i>> \in Fields(field[p][i])
         /\ Closed(field, Kept)
  <1>1. ASSUME NEW p \in Kept, NEW i \in Slots, field[p][i] # Null
        PROVE  field[p][i] \in Kept /\ <<p, i>> \in Fields(field[p][i])
    <2>1. p \in Obj /\ p \notin Condemned /\ Carries(p, i)
      BY DEF Kept, Condemned, Carries
    <2> QED
      BY <1>1, <2>1, CarriedKept
  <1> QED
    BY <1>1 DEF Closed, Children

\* Before the release what is condemned or in use refers to such objects too,
\* and all these references are counted.
LEMMA CountedClosed ==
  ASSUME TypeInv, CountInv, ~InRelease
  PROVE  /\ \A p \in Counted, i \in Slots : field[p][i] # Null =>
              field[p][i] \in Counted /\ <<p, i>> \in Fields(field[p][i])
         /\ Closed(field, Counted)
  <1>1. ASSUME NEW p \in Counted, NEW i \in Slots, field[p][i] # Null
        PROVE  field[p][i] \in Counted /\ <<p, i>> \in Fields(field[p][i])
    <2>0. PICK o : o = field[p][i]
      OBVIOUS
    <2>1. p \in Obj /\ Carries(p, i)
      BY DEF Kept, Condemned, Carries, Counted, GaveUp
    <2>2. o \in Obj
      BY <1>1, <2>0, <2>1, FieldType DEF TypeInv, VariablesTyped, RefCountTypeOK
    <2>3. <<p, i>> \in Fields(o)
      BY <2>0, <2>1, Membership
    <2>4. Tokens(o) > 0 /\ Tokens(o) \in Nat
      BY <2>3, TokensFinite
    <2>5. count[o] \in Nat /\ state[o] \in ObjectState /\ CountOK(o)
      BY <2>2, SizeAssumption DEF TypeInv, VariablesTyped, RefCountTypeOK, HeapTypeOK, CountInv
    <2>6. o \in Counted
      BY <2>2, <2>4, <2>5 DEF CountOK, Kept, Condemned, ObjectState, Counted
    <2> QED
      BY <2>0, <2>3, <2>6
  <1> QED
    BY <1>1 DEF Closed, Children

-----------------------------------------------------------------------------
(***************************************************************************)
(* What the steps of the mutators and of the reference-counting procedures *)
(* have in common, and what follows for the collector's part.              *)
(***************************************************************************)
SameTokens(o) == Fields(o)' = Fields(o) /\ Locals(o)' = Locals(o) /\ Calls(o)' = Calls(o)

\* Only locked fields refer to o.
Sealed(o) ==
  /\ o \in Counted /\ Locals(o) = {} /\ Calls(o) = {}
  /\ \A p \in Obj, i \in Slots : <<p, i>> \in Fields(o) => p \in Counted /\ lock_flag[p]

\* Fields of objects in use are written when the object is not locked, with
\* objects in use; other fields are cleared only, those of waiting objects not
\* at all.
FieldStep ==
  \A p \in Obj, i \in Slots :
    \/ field'[p][i] = field[p][i]
    \/ field'[p][i] = Null /\ p \notin Kept /\ state[p] # "waiting_for_gc"
    \/ p \in Kept /\ ~lock_flag[p] /\ field'[p][i] \in Kept \cup {Null}

\* An object stays what it is, or is handed on while it is dying, or is a dead
\* cell that is handed out.
SameLife(o) ==
  \/ state'[o] = state[o] /\ (count'[o] = count[o] \/ (o \in Kept /\ count'[o] > 0))
  \/ /\ o \in Dying /\ count'[o] = 0
     /\ state[o] = "waiting_for_gc" => state'[o] = "waiting_for_gc"
     /\ state'[o] # "dead" \/ ~Suspected(o)
  \/ state[o] = "dead" /\ state'[o] = "live" /\ count'[o] > 0

\* The step takes the last reference to d away.
LastReference(d) ==
  /\ d \in Kept /\ state'[d] = "live" /\ count'[d] = 0 /\ field' = field
  /\ \A p \in Obj, i \in Slots : <<p, i>> \in Fields(d) => p \in Dying

HeapStep(d) ==
  /\ FieldStep
  /\ \A o \in Obj \ {d} : SameLife(o)
  /\ d \in Obj => LastReference(d)
  /\ \A o \in Obj : Sealed(o) => SameTokens(o)

\* The collector stays where it is, or is in decrement_reference_count and
\* stays there or comes back from it.
SamePhase ==
  \/ pc'[Collector] = pc[Collector] /\ ret'[Collector] = ret[Collector]
  \/ /\ ret[Collector] = "release_field" /\ pc[Collector] \in DecrementLabels
     /\ \/ ret'[Collector] = "release_field" /\ pc'[Collector] \in DecrementLabels
        \/ pc'[Collector] = "release_field"

\* What is apart stays apart.
LEMMA ApartStep ==
  ASSUME TypeInv, CountInv, NEW d, HeapStep(d), NEW o \in Obj, o \notin Kept, NEW S, Apart(o, S)
  PROVE  Apart(o, S)'
  <1>1. PICK C \in SUBSET Obj : /\ Closed(field, C) /\ Children(field, o) \subseteq C
                                /\ S \subseteq C /\ o \notin C
    BY DEF Apart
  <1>2. PICK K : K = Kept
    OBVIOUS
  <1>3. K \subseteq Obj /\ o \notin K
    BY <1>2 DEF Kept
  <1>4. \A p \in K, i \in Slots : field[p][i] # Null => field[p][i] \in K
    BY <1>2, KeptClosed
  <1>5. \A p \in Obj, i \in Slots :
          \/ field'[p][i] = field[p][i] \/ field'[p][i] = Null
          \/ p \in K /\ field'[p][i] \in K
    BY <1>2 DEF HeapStep, FieldStep
  <1>6. \A p \in C, i \in Slots : field[p][i] # Null => field[p][i] \in C
    BY <1>1 DEF Closed, Children
  <1>7. \A i \in Slots : field[o][i] # Null => field[o][i] \in C
    BY <1>1 DEF Children
  <1>8. \A p \in C \cup K, i \in Slots : field'[p][i] # Null => field'[p][i] \in C \cup K
    BY ONLY <1>1, <1>3, <1>4, <1>5, <1>6
  <1>9. \A i \in Slots : field'[o][i] # Null => field'[o][i] \in C \cup K
    BY ONLY <1>3, <1>5, <1>7, o \in Obj
  <1>10. Closed(field', C \cup K)
    BY ONLY <1>8 DEF Closed, Children
  <1>11. Children(field', o) \subseteq C \cup K
    BY ONLY <1>9 DEF Children
  <1> QED
    BY <1>1, <1>3, <1>10, <1>11 DEF Apart

\* Dying objects stay on no cycle, and the one that now dies is on none.
LEMMA AcyclicStep ==
  ASSUME TypeInv, CountInv, AcyclicInv, NEW d, HeapStep(d)
  PROVE  AcyclicInv'
  <1> SUFFICES ASSUME NEW o \in Obj, (o \in Dying)' PROVE Apart(o, {})'
    BY DEF AcyclicInv, Dying
  <1>1. CASE o = d
    <2>1. LastReference(d)
      BY <1>1 DEF HeapStep
    <2>2. PICK C : C = Kept \ {d}
      OBVIOUS
    <2>3. \A p \in Kept, i \in Slots : field[p][i] # Null => field[p][i] \in C
      <3> SUFFICES ASSUME NEW p \in Kept, NEW i \in Slots, field[p][i] # Null
                   PROVE  field[p][i] \in C
        OBVIOUS
      <3>1. field[p][i] \in Kept /\ <<p, i>> \in Fields(field[p][i])
        BY KeptClosed
      <3>2. p \in Obj /\ p \notin Dying
        BY DEF Kept, Dying
      <3> QED
        BY <2>1, <2>2, <3>1, <3>2 DEF LastReference
    <2>4. C \in SUBSET Obj /\ d \notin C /\ d \in Kept /\ C \subseteq Kept
      BY <2>1, <2>2 DEF Kept, LastReference
    <2>5. Closed(field, C) /\ Children(field, d) \subseteq C
      BY <2>3, <2>4 DEF Closed, Children
    <2>6. field' = field
      BY <2>1 DEF LastReference
    <2> QED
      BY <1>1, <2>4, <2>5, <2>6 DEF Apart
  <1>2. CASE o # d
    <2>1. SameLife(o)
      BY <1>2 DEF HeapStep
    <2>2. o \in Dying
      BY <2>1 DEF SameLife, Dying, Kept
    <2>3. Apart(o, {}) /\ o \notin Kept
      BY <2>2 DEF AcyclicInv, Dying, Kept
    <2> QED
      BY <2>3, ApartStep
  <1> QED
    BY <1>1, <1>2

\* What the traversal has found, other than its root, a locked object refers to.
LEMMA FoundFromLocked ==
  ASSUME ReachLocked, root \in seen, seen \subseteq Obj, NEW o \in seen, o # root
  PROVE  \E c \in cycle_objects : o \in Children(field, c)
  <1> SUFFICES ASSUME \A c \in cycle_objects : o \notin Children(field, c) PROVE FALSE
    OBVIOUS
  <1>1. seen \ {o} \in SUBSET Obj /\ root \in seen \ {o}
    OBVIOUS
  <1>2. \A c \in (seen \ {o}) \cap cycle_objects : Children(field, c) \cap seen \subseteq seen \ {o}
    OBVIOUS
  <1>3. seen \subseteq seen \ {o}
    BY <1>1, <1>2 DEF ReachLocked
  <1> QED
    BY <1>3

\* The locked objects of a root in use: nobody writes their fields, and none of
\* them dies but the root, if nothing locked refers to it.
LEMMA LockedStep ==
  ASSUME TypeInv, LockExclusive, CountInv, ~InRelease, NEW d, HeapStep(d),
         root \in seen, seen \subseteq Counted, cycle_objects \subseteq seen, ReachLocked
  PROVE  /\ \A c \in cycle_objects, i \in Slots : field'[c][i] = field[c][i]
         /\ \A o \in seen \ {root} : o \in Counted'
         /\ (\E c \in cycle_objects : root \in Children(field, c)) => root \in Counted'
         /\ root # d => root \in Counted'
  <1>1. Counted \subseteq Obj
    BY DEF Counted, Kept, Condemned
  <1>2. \A c \in cycle_objects, i \in Slots : field'[c][i] = field[c][i]
    <2>1. \A c \in cycle_objects : lock_flag[c]
      BY <1>1 DEF LockExclusive
    <2> QED
      BY <1>1, <2>1 DEF HeapStep, FieldStep, Counted, Kept, Condemned
  <1>3. ASSUME NEW o \in seen, \E c \in cycle_objects : o \in Children(field, c)
        PROVE  o # d
    <2>1. PICK c \in cycle_objects : o \in Children(field, c)
      BY <1>3
    <2>2. PICK i \in Slots : field[c][i] = o
      BY <2>1 DEF Children
    <2>3. o # Null /\ o \in Obj /\ c \in Counted
      BY <1>1, NullAssumption
    <2>4. <<c, i>> \in Fields(o)
      BY <2>2, <2>3, CountedClosed
    <2>5. c \in Obj /\ c \notin Dying
      BY <2>3 DEF Counted, Kept, Condemned, Dying
    <2> QED
      BY <2>3, <2>4, <2>5 DEF HeapStep, LastReference
  <1>4. ASSUME NEW o \in seen, o # d
        PROVE  o \in Counted'
    <2>1. SameLife(o) /\ o \in Counted /\ o \in Obj
      BY <1>1, <1>4 DEF HeapStep
    <2> QED
      BY <2>1 DEF SameLife, Counted, Kept, Condemned, Dying
  <1>5. \A o \in seen \ {root} : \E c \in cycle_objects : o \in Children(field, c)
    BY <1>1, FoundFromLocked
  <1> QED
    BY <1>2, <1>3, <1>4, <1>5

\* A root that is dying stays so while the collector looks at it.
LEMMA DyingRoot ==
  ASSUME TypeInv, CountInv, NEW r \in Obj, r \notin Counted, state[r] # "dead",
         NEW d, HeapStep(d)
  PROVE  r \notin Kept /\ r \notin Counted'
  <1>1. count[r] \in Nat /\ state[r] \in ObjectState /\ CountOK(r)
    BY SizeAssumption DEF TypeInv, VariablesTyped, RefCountTypeOK, HeapTypeOK, CountInv
  <1>2. r \in Dying /\ r \notin Kept
    BY <1>1 DEF CountOK, Dying, Counted, Kept, Condemned, ObjectState
  <1>3. r # d /\ SameLife(r)
    BY <1>2 DEF HeapStep, LastReference
  <1> QED
    BY <1>2, <1>3 DEF SameLife, Dying, Counted, Kept, Condemned

\* The marking goes on undisturbed.
LEMMA RedStep ==
  ASSUME TypeInv, LockExclusive, CountInv, RedInv, ListInv, NEW d, HeapStep(d), UNCHANGED rootVars,
         pc'[Collector] \in {"red", "red_read"} => pc'[Collector] = pc[Collector]
  PROVE  RedInv'
  <1> SUFFICES ASSUME pc'[Collector] \in {"red", "red_read"} PROVE RedInv'
    BY DEF RedInv
  <1>0. /\ root' = root /\ todo' = todo /\ current' = current /\ idx' = idx /\ seen' = seen
        /\ is_cyclic_root' = is_cyclic_root /\ cycle_objects' = cycle_objects /\ counted' = counted
        /\ pc'[Collector] = pc[Collector] /\ pc[Collector] \in {"red", "red_read"}
    BY DEF rootVars
  <1>1. root \in Obj /\ current \in Obj /\ seen \subseteq Obj /\ ~InRelease
    BY <1>0 DEF InRelease, TypeInv, VariablesTyped, CollectorOK, CollectorTypeOK
  <1>2. /\ root \in seen
        /\ seen = cycle_objects \cup todo \cup {current}
        /\ pc[Collector] = "red_read" => current \in cycle_objects
        /\ counted = {}
    BY <1>0 DEF RedInv
  <1>3. state[root] # "dead"
    BY <1>0 DEF ListInv, SuspectedTracked
  <1>4. CASE root \in Counted
    <2>1. /\ seen \subseteq Counted /\ ReachLocked
          /\ is_cyclic_root => \E c \in cycle_objects : root \in Children(field, c)
          /\ \A c \in cycle_objects, i \in Slots :
                (c # current \/ i < idx) => field[c][i] \in seen \cup {Null}
      BY <1>0, <1>4 DEF RedInv
    <2>2. cycle_objects \subseteq seen
      BY <1>2
    <2>3. /\ \A c \in cycle_objects, i \in Slots : field'[c][i] = field[c][i]
          /\ \A o \in seen \ {root} : o \in Counted'
          /\ (\E c \in cycle_objects : root \in Children(field, c)) => root \in Counted'
          /\ root # d => root \in Counted'
      BY <1>1, <1>2, <2>1, <2>2, LockedStep
    <2>4. \A c \in cycle_objects : Children(field', c) = Children(field, c)
      BY <2>3 DEF Children
    <2>5. ReachLocked'
      BY <1>0, <2>1, <2>4 DEF ReachLocked
    <2>6. CASE root \in Counted'
      <3>1. seen \subseteq Counted'
        BY <2>3, <2>6
      <3> QED
        BY <1>0, <1>2, <2>1, <2>3, <2>4, <2>5, <2>6, <3>1 DEF RedInv
    <2>7. CASE root \notin Counted'
      <3>1. root = d /\ ~is_cyclic_root
        BY <2>1, <2>3, <2>7
      <3>2. LastReference(root)
        BY <1>1, <3>1 DEF HeapStep
      <3>3. PICK C : C = Counted \ {root}
        OBVIOUS
      <3>4. \A p \in Counted, i \in Slots : field[p][i] # Null => field[p][i] \in C
        <4> SUFFICES ASSUME NEW p \in Counted, NEW i \in Slots, field[p][i] # Null
                     PROVE  field[p][i] \in C
          OBVIOUS
        <4>1. field[p][i] \in Counted /\ <<p, i>> \in Fields(field[p][i])
          BY <1>1, CountedClosed
        <4>2. p \in Obj /\ p \notin Dying
          BY DEF Counted, Kept, Condemned, Dying
        <4> QED
          BY <3>2, <3>3, <4>1, <4>2 DEF LastReference
      <3>5. C \in SUBSET Obj /\ root \notin C /\ C \subseteq Counted /\ seen \ {root} \subseteq C
        BY <2>1, <3>3 DEF Counted, Kept, Condemned
      <3>6. Closed(field, C) /\ Children(field, root) \subseteq C
        BY <1>4, <3>4, <3>5 DEF Closed, Children
      <3>7. field' = field
        BY <3>2 DEF LastReference
      <3>8. Apart(root, seen \ {root})'
        BY <1>0, <3>5, <3>6, <3>7 DEF Apart
      <3> QED
        BY <1>0, <1>2, <2>7, <3>1, <3>8 DEF RedInv
    <2> QED
      BY <2>6, <2>7
  <1>5. CASE root \notin Counted
    <2>1. ~is_cyclic_root /\ Apart(root, seen \ {root})
      BY <1>0, <1>5 DEF RedInv
    <2>2. PICK r, S : r = root /\ S = seen \ {root}
      OBVIOUS
    <2>3. Apart(r, S) /\ r \in Obj /\ r \notin Counted /\ state[r] # "dead"
      BY <1>1, <1>3, <1>5, <2>1, <2>2
    <2>4. r \notin Kept /\ r \notin Counted'
      BY <2>3, DyingRoot
    <2>5. Apart(r, S)'
      BY <2>3, <2>4, ApartStep
    <2>6. Apart(root, seen \ {root})' /\ root' \notin Counted'
      BY <1>0, <2>2, <2>4, <2>5 DEF Apart
    <2> QED
      BY <1>0, <1>2, <2>1, <2>6 DEF RedInv
  <1> QED
    BY <1>4, <1>5

\* So does the loading of the counts.
LEMMA GrayStep ==
  ASSUME TypeInv, LockExclusive, CountInv, GrayInv, NEW d, HeapStep(d), UNCHANGED rootVars,
         pc'[Collector] = "gray" => pc[Collector] = "gray"
  PROVE  GrayInv'
  <1> SUFFICES ASSUME pc'[Collector] = "gray" PROVE GrayInv'
    BY DEF GrayInv
  <1>0. /\ root' = root /\ seen' = seen /\ cycle_objects' = cycle_objects
        /\ counted' = counted /\ count_map' = count_map /\ pc[Collector] = "gray"
    BY DEF rootVars
  <1>1. seen \subseteq Obj /\ ~InRelease
    BY <1>0 DEF InRelease, TypeInv, VariablesTyped, CollectorOK, CollectorTypeOK
  <1>2. /\ root \in cycle_objects /\ cycle_objects = seen /\ seen \subseteq Counted /\ ReachLocked
        /\ \E c \in cycle_objects : root \in Children(field, c)
        /\ Closed(field, cycle_objects)
        /\ counted \subseteq cycle_objects
    BY <1>0 DEF GrayInv
  <1>3. /\ \A c \in cycle_objects, i \in Slots : field'[c][i] = field[c][i]
        /\ \A o \in seen \ {root} : o \in Counted'
        /\ root \in Counted'
    BY <1>1, <1>2, LockedStep
  <1>4. \A c \in cycle_objects : Children(field', c) = Children(field, c)
    BY <1>3 DEF Children
  <1>5. ReachLocked'
    BY <1>0, <1>2, <1>4 DEF ReachLocked
  <1>6. Closed(field', cycle_objects)
    BY <1>2, <1>4 DEF Closed
  <1>7. \A o : EdgesTo(field', cycle_objects, o) = EdgesTo(field, cycle_objects, o)
    BY <1>3 DEF EdgesTo
  <1>8. ASSUME NEW o \in counted, Cardinality(EdgesTo(field, cycle_objects, o)) = count_map[o]
        PROVE  /\ Fields(o)' = EdgesTo(field, cycle_objects, o)
               /\ Locals(o)' = {} /\ Calls(o)' = {}
    <2>1. Fields(o) = EdgesTo(field, cycle_objects, o) /\ Locals(o) = {} /\ Calls(o) = {}
      BY <1>0, <1>8 DEF GrayInv
    <2>2. \A c \in cycle_objects : c \in Obj /\ lock_flag[c]
      BY <1>1, <1>2 DEF LockExclusive
    <2>3. \A p \in Obj, i \in Slots : <<p, i>> \in Fields(o) => p \in cycle_objects
      BY <2>1 DEF EdgesTo
    <2>4. Sealed(o)
      BY <1>2, <2>1, <2>2, <2>3 DEF Sealed
    <2>5. o \in Obj
      BY <1>1, <1>2
    <2> QED
      BY <2>1, <2>4, <2>5 DEF HeapStep, SameTokens
  <1>9. \A o \in counted' :
          /\ Cardinality(EdgesTo(field, cycle_objects, o))' <= count_map'[o]
          /\ Cardinality(EdgesTo(field, cycle_objects, o))' = count_map'[o] =>
               /\ Fields(o)' = EdgesTo(field, cycle_objects, o)'
               /\ Locals(o)' = {} /\ Calls(o)' = {}
    <2> SUFFICES ASSUME NEW o \in counted
                 PROVE  /\ Cardinality(EdgesTo(field', cycle_objects, o)) <= count_map[o]
                        /\ Cardinality(EdgesTo(field', cycle_objects, o)) = count_map[o] =>
                             /\ Fields(o)' = EdgesTo(field', cycle_objects, o)
                             /\ Locals(o)' = {} /\ Calls(o)' = {}
      BY <1>0
    <2>1. Cardinality(EdgesTo(field, cycle_objects, o)) <= count_map[o]
      BY <1>0 DEF GrayInv
    <2> QED
      BY <1>7, <1>8, <2>1
  <1>10. (seen \subseteq Counted)' /\ (\E c \in cycle_objects : root \in Children(field, c))'
    BY <1>0, <1>2, <1>3, <1>4
  <1> QED
    BY <1>0, <1>2, <1>5, <1>6, <1>9, <1>10 DEF GrayInv

\* Condemned and waiting objects stay what they are.
LEMMA ReleaseStep ==
  ASSUME TypeInv, TypeInv', FlowInv, ReleaseInv, NEW d, HeapStep(d), UNCHANGED collectorVars, SamePhase
  PROVE  /\ ReleaseInv' /\ (InRelease' <=> InRelease)
         /\ Condemned' = Condemned
         /\ \A p, i : GaveUp(p, i)' <=> GaveUp(p, i)
  <1>0. /\ non_cycle_objects' = non_cycle_objects /\ todo' = todo /\ release_objects' = release_objects
        /\ releasing' = releasing /\ current' = current /\ idx' = idx
        /\ cycle_objects' = cycle_objects /\ counted' = counted /\ is_cyclic_root' = is_cyclic_root
    BY DEF collectorVars, rootVars
  <1>1. /\ InRelease' <=> InRelease
        /\ pc'[Collector] = "check" <=> pc[Collector] = "check"
        /\ pc'[Collector] = "kill" <=> pc[Collector] = "kill"
        /\ pc'[Collector] = "idle" => pc[Collector] = "idle"
        /\ pc'[Collector] \in {"idle", "next_root", "release", "kill"} =>
             pc[Collector] \in {"idle", "next_root", "release", "kill"}
        /\ pc'[Collector] = "release_field" \/ ret'[Collector] = "release_field" <=>
             pc[Collector] = "release_field" \/ ret[Collector] = "release_field"
        /\ pc[Collector] \in {"red_read", "release_field"} \/ ret[Collector] = "release_field" =>
             pc'[Collector] \in {"red_read", "release_field"} \/ ret'[Collector] = "release_field"
        /\ pc[Collector] \in {"red", "red_read", "gray", "red_unlock", "check"} =>
             pc'[Collector] = pc[Collector]
    BY DEF SamePhase, InRelease, DecrementLabels, WaitLabels
  <1>2. \A o \in Obj : state[o] = "waiting_for_gc" =>
          /\ state'[o] = "waiting_for_gc" /\ count'[o] = count[o]
          /\ \A i \in Slots : field'[o][i] = field[o][i]
    <2> SUFFICES ASSUME NEW o \in Obj, state[o] = "waiting_for_gc"
                 PROVE  /\ state'[o] = "waiting_for_gc" /\ count'[o] = count[o]
                        /\ \A i \in Slots : field'[o][i] = field[o][i]
      OBVIOUS
    <2>1. o \notin Kept /\ o # d
      BY DEF Kept, HeapStep, LastReference
    <2>2. SameLife(o)
      BY <2>1 DEF HeapStep
    <2> QED
      BY <2>1, <2>2 DEF SameLife, HeapStep, FieldStep, Dying
  <1>3. Condemned' = Condemned
    <2>1. \A o \in Obj : state'[o] = "waiting_for_gc" /\ count'[o] > 0 => o \in Condemned
      <3> SUFFICES ASSUME NEW o \in Obj, state'[o] = "waiting_for_gc", count'[o] > 0
                   PROVE  o \in Condemned
        OBVIOUS
      <3>1. o # d
        BY DEF HeapStep, LastReference
      <3>2. SameLife(o)
        BY <3>1 DEF HeapStep
      <3> QED
        BY <3>2 DEF SameLife, Condemned, Kept
    <2> QED
      BY <1>2, <2>1 DEF Condemned
  <1>4. \A o \in Obj : state[o] = "waiting_for_gc" => Children(field', o) = Children(field, o)
    BY <1>2 DEF Children
  <1>5. release_objects \subseteq Obj /\ non_cycle_objects \subseteq Obj
    BY DEF TypeInv, VariablesTyped, CollectorTypeOK
  <1>6. /\ \A o \in release_objects : state'[o] = "waiting_for_gc"
        /\ pc[Collector] # "kill" => \A o \in release_objects : count'[o] = 0 =>
             Children(field', o) \subseteq release_objects
        /\ pc[Collector] = "check" =>
             \A o \in non_cycle_objects : /\ state'[o] = "waiting_for_gc"
                                          /\ Children(field', o) \subseteq non_cycle_objects \cup todo
    BY <1>2, <1>4, <1>5 DEF ReleaseInv
  <1>7. ReleaseInv'
    BY <1>0, <1>1, <1>3, <1>6 DEF ReleaseInv
  <1> QED
    BY <1>0, <1>1, <1>3, <1>7 DEF GaveUp

-----------------------------------------------------------------------------
(***************************************************************************)
(* How the references to an object change.                                 *)
(***************************************************************************)
\* The fields that refer to o and account for it: the same as before,
LEMMA FieldsSame ==
  ASSUME NEW o,
         \A p \in Obj, i \in Slots :
           (field'[p][i] = o /\ Carries(p, i)') <=> (field[p][i] = o /\ Carries(p, i))
  PROVE  Fields(o)' = Fields(o)
  BY DEF Fields

\* ... all but one of them,
LEMMA FieldsMinus ==
  ASSUME NEW o, NEW q \in Obj, NEW j \in Slots,
         \A p \in Obj, i \in Slots :
           (field'[p][i] = o /\ Carries(p, i)') <=>
             (field[p][i] = o /\ Carries(p, i) /\ ~(p = q /\ i = j))
  PROVE  Fields(o)' = Fields(o) \ {<<q, j>>}
  BY DEF Fields

\* ... or one more.
LEMMA FieldsPlus ==
  ASSUME NEW o, NEW q \in Obj, NEW j \in Slots,
         \A p \in Obj, i \in Slots :
           (field'[p][i] = o /\ Carries(p, i)') <=>
             ((field[p][i] = o /\ Carries(p, i)) \/ (p = q /\ i = j))
  PROVE  Fields(o)' = Fields(o) \cup {<<q, j>>}
  BY DEF Fields

\* The locals that refer to o: the same as before,
LEMMA LocalsSame ==
  ASSUME NEW o, \A m \in Owners : held'[m][o] = held[m][o]
  PROVE  Locals(o)' = Locals(o)
  BY DEF Locals, Owners

\* ... one more, when a thread gains a reference,
LEMMA LocalsPlus ==
  ASSUME NEW o, NEW m \in Owners, held[m][o] \in Nat, held[m][o] < MaxHeld,
         held'[m][o] = held[m][o] + 1,
         \A n \in Owners \ {m} : held'[n][o] = held[n][o]
  PROVE  /\ Locals(o)' = Locals(o) \cup {<<m, held[m][o] + 1>>}
         /\ <<m, held[m][o] + 1>> \notin Locals(o)
  BY HeldAssumption DEF Locals, Owners

\* ... or one less, when a thread loses one.
LEMMA LocalsMinus ==
  ASSUME NEW o, NEW m \in Owners, held[m][o] \in Nat, held[m][o] > 0, held[m][o] <= MaxHeld,
         held'[m][o] = held[m][o] - 1,
         \A n \in Owners \ {m} : held'[n][o] = held[n][o]
  PROVE  /\ Locals(o)' = Locals(o) \ {<<m, held[m][o]>>}
         /\ <<m, held[m][o]>> \in Locals(o)
  BY HeldAssumption DEF Locals, Owners

Calling(t) == Operating(t) \/ pc[t] = "dec"

\* The running procedures that hold a reference to o: the same as before,
LEMMA CallsSame ==
  ASSUME NEW o,
         \A t \in Threads : (tgt'[t] = o /\ Calling(t)') <=> (tgt[t] = o /\ Calling(t))
  PROVE  Calls(o)' = Calls(o)
  BY DEF Calls, Calling

\* ... one more, when a thread calls a procedure with it,
LEMMA CallsPlus ==
  ASSUME NEW o, NEW t \in Threads, tgt'[t] = o, Calling(t)',
         \A u \in Threads \ {t} : (tgt'[u] = o /\ Calling(u)') <=> (tgt[u] = o /\ Calling(u))
  PROVE  Calls(o)' = Calls(o) \cup {t}
  BY DEF Calls, Calling

\* ... or one less, when the procedure has passed it on.
LEMMA CallsMinus ==
  ASSUME NEW o, NEW t \in Threads, ~(tgt'[t] = o /\ Calling(t)'),
         \A u \in Threads \ {t} : (tgt'[u] = o /\ Calling(u)') <=> (tgt[u] = o /\ Calling(u))
  PROVE  Calls(o)' = Calls(o) \ {t}
  BY DEF Calls, Calling

-----------------------------------------------------------------------------
(***************************************************************************)
(* How the counts follow.                                                  *)
(***************************************************************************)
\* An object whose references, state and count stay keeps its count right.
LEMMA CountFrame ==
  ASSUME NEW o \in Obj, CountOK(o), SameTokens(o), state'[o] = state[o], count'[o] = count[o],
         Condemned' = Condemned
  PROVE  CountOK(o)'
  BY DEF CountOK, SameTokens, Tokens, Kept

\* An object that has no references, whatever becomes of its state.
LEMMA CountZero ==
  ASSUME NEW o \in Obj, CountOK(o), SameTokens(o), count[o] = 0, count'[o] = 0
  PROVE  CountOK(o)'
  <1>1. Tokens(o) = 0 /\ Tokens(o)' = 0
    <2>1. Tokens(o) = 0
      BY TokensFinite DEF CountOK
    <2> QED
      BY <2>1 DEF SameTokens, Tokens
  <1> QED
    BY <1>1 DEF CountOK, Kept, Condemned

\* A live object whose count is the number of references.
LEMMA CountKept ==
  ASSUME NEW o \in Obj, state'[o] = "live", count'[o] \in Nat, Tokens(o)' = count'[o]
  PROVE  CountOK(o)'
  BY DEF CountOK, Condemned

\* An element more counts one more,
LEMMA PlusOne ==
  ASSUME NEW S, IsFiniteSet(S), NEW x, x \notin S
  PROVE  Cardinality(S \cup {x}) = Cardinality(S) + 1
  BY FS_AddElement

\* ... an element less one less.
LEMMA MinusOne ==
  ASSUME NEW S, IsFiniteSet(S), NEW x \in S
  PROVE  Cardinality(S \ {x}) = Cardinality(S) - 1
  BY FS_RemoveElement

\* One reference more, one less, one that changes hands.
LEMMA TokensPlusCall ==
  ASSUME NEW o, NEW t, t \notin Calls(o), Fields(o)' = Fields(o), Locals(o)' = Locals(o),
         Calls(o)' = Calls(o) \cup {t}
  PROVE  Tokens(o)' = Tokens(o) + 1
  <1>1. /\ Cardinality(Fields(o)') = Cardinality(Fields(o))
        /\ Cardinality(Locals(o)') = Cardinality(Locals(o))
        /\ Cardinality(Calls(o)') = Cardinality(Calls(o)) + 1
    BY TokensFinite, PlusOne, MinusOne
  <1>2. /\ Cardinality(Fields(o)) \in Nat /\ Cardinality(Locals(o)) \in Nat
        /\ Cardinality(Calls(o)) \in Nat
    BY TokensFinite
  <1> QED
    BY ONLY <1>1, <1>2 DEF Tokens

\* One less: decrement_reference_count has given it up,
LEMMA TokensMinusCall ==
  ASSUME NEW o, NEW t \in Calls(o), Fields(o)' = Fields(o), Locals(o)' = Locals(o),
         Calls(o)' = Calls(o) \ {t}
  PROVE  Tokens(o)' = Tokens(o) - 1
  <1>1. /\ Cardinality(Fields(o)') = Cardinality(Fields(o))
        /\ Cardinality(Locals(o)') = Cardinality(Locals(o))
        /\ Cardinality(Calls(o)') = Cardinality(Calls(o)) - 1
    BY TokensFinite, PlusOne, MinusOne
  <1>2. /\ Cardinality(Fields(o)) \in Nat /\ Cardinality(Locals(o)) \in Nat
        /\ Cardinality(Calls(o)) \in Nat
    BY TokensFinite
  <1> QED
    BY ONLY <1>1, <1>2 DEF Tokens

\* ... or it was in a field.
LEMMA TokensMinusField ==
  ASSUME NEW o, NEW e \in Fields(o), Fields(o)' = Fields(o) \ {e}, Locals(o)' = Locals(o),
         Calls(o)' = Calls(o)
  PROVE  Tokens(o)' = Tokens(o) - 1
  <1>1. /\ Cardinality(Fields(o)') = Cardinality(Fields(o)) - 1
        /\ Cardinality(Locals(o)') = Cardinality(Locals(o))
        /\ Cardinality(Calls(o)') = Cardinality(Calls(o))
    BY TokensFinite, PlusOne, MinusOne
  <1>2. /\ Cardinality(Fields(o)) \in Nat /\ Cardinality(Locals(o)) \in Nat
        /\ Cardinality(Calls(o)) \in Nat
    BY TokensFinite
  <1> QED
    BY ONLY <1>1, <1>2 DEF Tokens

\* A reference goes from a field to a procedure,
LEMMA TokensFieldToCall ==
  ASSUME NEW o, NEW e \in Fields(o), NEW t, t \notin Calls(o), Fields(o)' = Fields(o) \ {e},
         Locals(o)' = Locals(o), Calls(o)' = Calls(o) \cup {t}
  PROVE  Tokens(o)' = Tokens(o)
  <1>1. /\ Cardinality(Fields(o)') = Cardinality(Fields(o)) - 1
        /\ Cardinality(Locals(o)') = Cardinality(Locals(o))
        /\ Cardinality(Calls(o)') = Cardinality(Calls(o)) + 1
    BY TokensFinite, PlusOne, MinusOne
  <1>2. /\ Cardinality(Fields(o)) \in Nat /\ Cardinality(Locals(o)) \in Nat
        /\ Cardinality(Calls(o)) \in Nat
    BY TokensFinite
  <1> QED
    BY ONLY <1>1, <1>2 DEF Tokens

\* ... from a field to a local (get_move_object_field),
LEMMA TokensFieldToLocal ==
  ASSUME NEW o, NEW e \in Fields(o), NEW l, l \notin Locals(o), Fields(o)' = Fields(o) \ {e},
         Locals(o)' = Locals(o) \cup {l}, Calls(o)' = Calls(o)
  PROVE  Tokens(o)' = Tokens(o)
  <1>1. /\ Cardinality(Fields(o)') = Cardinality(Fields(o)) - 1
        /\ Cardinality(Locals(o)') = Cardinality(Locals(o)) + 1
        /\ Cardinality(Calls(o)') = Cardinality(Calls(o))
    BY TokensFinite, PlusOne, MinusOne
  <1>2. /\ Cardinality(Fields(o)) \in Nat /\ Cardinality(Locals(o)) \in Nat
        /\ Cardinality(Calls(o)) \in Nat
    BY TokensFinite
  <1> QED
    BY ONLY <1>1, <1>2 DEF Tokens

\* ... from a local to a field (set_move_object_field),
LEMMA TokensLocalToField ==
  ASSUME NEW o, NEW e, e \notin Fields(o), NEW l \in Locals(o), Fields(o)' = Fields(o) \cup {e},
         Locals(o)' = Locals(o) \ {l}, Calls(o)' = Calls(o)
  PROVE  Tokens(o)' = Tokens(o)
  <1>1. /\ Cardinality(Fields(o)') = Cardinality(Fields(o)) + 1
        /\ Cardinality(Locals(o)') = Cardinality(Locals(o)) - 1
        /\ Cardinality(Calls(o)') = Cardinality(Calls(o))
    BY TokensFinite, PlusOne, MinusOne
  <1>2. /\ Cardinality(Fields(o)) \in Nat /\ Cardinality(Locals(o)) \in Nat
        /\ Cardinality(Calls(o)) \in Nat
    BY TokensFinite
  <1> QED
    BY ONLY <1>1, <1>2 DEF Tokens

\* ... from a local to a procedure (a reference is dropped),
LEMMA TokensLocalToCall ==
  ASSUME NEW o, NEW l \in Locals(o), NEW t, t \notin Calls(o), Fields(o)' = Fields(o),
         Locals(o)' = Locals(o) \ {l}, Calls(o)' = Calls(o) \cup {t}
  PROVE  Tokens(o)' = Tokens(o)
  <1>1. /\ Cardinality(Fields(o)') = Cardinality(Fields(o))
        /\ Cardinality(Locals(o)') = Cardinality(Locals(o)) - 1
        /\ Cardinality(Calls(o)') = Cardinality(Calls(o)) + 1
    BY TokensFinite, PlusOne, MinusOne
  <1>2. /\ Cardinality(Fields(o)) \in Nat /\ Cardinality(Locals(o)) \in Nat
        /\ Cardinality(Calls(o)) \in Nat
    BY TokensFinite
  <1> QED
    BY ONLY <1>1, <1>2 DEF Tokens

\* ... from a procedure to a local (get_clone_object_field),
LEMMA TokensCallToLocal ==
  ASSUME NEW o, NEW t \in Calls(o), NEW l, l \notin Locals(o), Fields(o)' = Fields(o),
         Locals(o)' = Locals(o) \cup {l}, Calls(o)' = Calls(o) \ {t}
  PROVE  Tokens(o)' = Tokens(o)
  <1>1. /\ Cardinality(Fields(o)') = Cardinality(Fields(o))
        /\ Cardinality(Locals(o)') = Cardinality(Locals(o)) + 1
        /\ Cardinality(Calls(o)') = Cardinality(Calls(o)) - 1
    BY TokensFinite, PlusOne, MinusOne
  <1>2. /\ Cardinality(Fields(o)) \in Nat /\ Cardinality(Locals(o)) \in Nat
        /\ Cardinality(Calls(o)) \in Nat
    BY TokensFinite
  <1> QED
    BY ONLY <1>1, <1>2 DEF Tokens

\* ... or from a procedure to a field (set_clone_object_field).
LEMMA TokensCallToField ==
  ASSUME NEW o, NEW t \in Calls(o), NEW e, e \notin Fields(o), Fields(o)' = Fields(o) \cup {e},
         Locals(o)' = Locals(o), Calls(o)' = Calls(o) \ {t}
  PROVE  Tokens(o)' = Tokens(o)
  <1>1. /\ Cardinality(Fields(o)') = Cardinality(Fields(o)) + 1
        /\ Cardinality(Locals(o)') = Cardinality(Locals(o))
        /\ Cardinality(Calls(o)') = Cardinality(Calls(o)) - 1
    BY TokensFinite, PlusOne, MinusOne
  <1>2. /\ Cardinality(Fields(o)) \in Nat /\ Cardinality(Locals(o)) \in Nat
        /\ Cardinality(Calls(o)) \in Nat
    BY TokensFinite
  <1> QED
    BY ONLY <1>1, <1>2 DEF Tokens

-----------------------------------------------------------------------------
(***************************************************************************)
(* A step of one thread leaves the others where they are.                  *)
(***************************************************************************)
OthersStay(t) ==
  \A u \in Threads \ {t} :
    /\ pc'[u] = pc[u] /\ ret'[u] = ret[u] /\ tgt'[u] = tgt[u]
    /\ dr_object'[u] = dr_object[u] /\ dr_index'[u] = dr_index[u] /\ dr_check'[u] = dr_check[u]
    /\ wg_object'[u] = wg_object[u] /\ wg_index'[u] = wg_index[u] /\ wg_check'[u] = wg_check[u]
    /\ wg_release'[u] = wg_release[u] /\ wg_roots'[u] = wg_roots[u]

\* The others work on the same objects and owe the same fields as before.
LEMMA OthersFrame ==
  ASSUME NEW t, OthersStay(t)
  PROVE  \A u \in Threads \ {t} :
           /\ \A p, i : Owed(u, p, i)' <=> Owed(u, p, i)
           /\ \A k, o : Hand(u, k, o)' <=> Hand(u, k, o)
           /\ Calling(u)' <=> Calling(u)
  <1> SUFFICES ASSUME NEW u \in Threads \ {t}
               PROVE  /\ \A p, i : Owed(u, p, i)' <=> Owed(u, p, i)
                      /\ \A k, o : Hand(u, k, o)' <=> Hand(u, k, o)
                      /\ Calling(u)' <=> Calling(u)
    OBVIOUS
  <1>1. /\ pc'[u] = pc[u]
        /\ dr_object'[u] = dr_object[u] /\ dr_index'[u] = dr_index[u] /\ dr_check'[u] = dr_check[u]
        /\ wg_object'[u] = wg_object[u] /\ wg_index'[u] = wg_index[u] /\ wg_check'[u] = wg_check[u]
        /\ wg_release'[u] = wg_release[u] /\ wg_roots'[u] = wg_roots[u]
    BY DEF OthersStay
  <1> QED
    BY <1>1 DEF Owed, Hand, Calling, Operating

\* A mutator or main between two accessors or at the end of one.
OwnerStep(m) ==
  /\ OthersStay(m) /\ UNCHANGED <<loopVars, waitVars>>
  /\ pc[m] \notin WaitLabels \cup {"nrm"}
  /\ pc'[m] \notin WaitLabels \cup {"nrm"}
  /\ pc'[m] \in {"cas", "insert"} => ret'[m] \in {"unlock", "swap"}

\* Dying objects are left alone.
DyingStay ==
  \A o \in Dying : state'[o] = state[o] /\ count'[o] = count[o]
                   /\ (async_release'[o] <=> async_release[o])

\* So does the thread itself when it is between two accessors.
LEMMA OwnerFrame ==
  ASSUME FlowInv, HandsDying, HandsApart, NEW m \in Owners, OwnerStep(m), DyingStay
  PROVE  /\ FlowInv' /\ HandsDying' /\ HandsApart' /\ SamePhase
         /\ \A u \in Threads : \A p, i : Owed(u, p, i)' <=> Owed(u, p, i)
         /\ \A u \in Threads \ {m} : Calling(u)' <=> Calling(u)
  <1>0. m \in Threads /\ m # Collector /\ Collector \in Threads
    BY ThreadsAssumption DEF Owners
  <1>1. \A u \in Threads \ {m} :
           /\ \A p, i : Owed(u, p, i)' <=> Owed(u, p, i)
           /\ \A k, o : Hand(u, k, o)' <=> Hand(u, k, o)
           /\ Calling(u)' <=> Calling(u)
    BY OthersFrame DEF OwnerStep
  <1>2. /\ dr_object' = dr_object /\ dr_index' = dr_index /\ dr_check' = dr_check
        /\ wg_object' = wg_object /\ wg_index' = wg_index /\ wg_check' = wg_check
        /\ wg_release' = wg_release /\ wg_roots' = wg_roots
        /\ pc[m] \notin WaitLabels /\ pc'[m] \notin WaitLabels
    BY DEF OwnerStep, loopVars, waitVars
  <1>3. /\ \A p, i : Owed(m, p, i)' <=> Owed(m, p, i)
        /\ \A k, o : Hand(m, k, o)' <=> Hand(m, k, o)
    BY ONLY <1>2 DEF Owed, Hand, WaitLabels
  <1>4. \A u \in Threads : \A k, o : Hand(u, k, o)' <=> Hand(u, k, o)
    BY <1>1, <1>3
  <1>5. HandsApart'
    BY ONLY <1>4, HandsApart DEF HandsApart
  <1>6. HandsDying'
    <2> SUFFICES ASSUME NEW u \in Threads, NEW k \in Kinds, NEW o \in Obj, Hand(u, k, o)'
                 PROVE  /\ count'[o] = 0
                        /\ k = "rel" => state'[o] = "process_gc"
                        /\ k # "rel" => state'[o] = "live"
                        /\ k \in {"cur", "check"} => ~Suspected(o)'
      BY DEF HandsDying
    <2>1. /\ count[o] = 0
          /\ k = "rel" => state[o] = "process_gc"
          /\ k # "rel" => state[o] = "live"
          /\ k \in {"cur", "check"} => ~Suspected(o)
      BY <1>4 DEF HandsDying
    <2>2. o \in Dying
      BY <2>1 DEF Dying
    <2> QED
      BY <2>1, <2>2 DEF DyingStay, Suspected
  <1>7. FlowInv'
    <2> SUFFICES ASSUME NEW u \in Threads
                 PROVE  /\ pc'[u] \notin WaitLabels =>
                             wg_check'[u] = {} /\ wg_roots'[u] = {} /\ wg_release'[u] = {}
                        /\ pc'[u] \notin WaitLabels \cup {"nrm"} => dr_object'[u] = Null
                        /\ dr_object'[u] = Null => dr_check'[u] = {}
                        /\ pc'[u] = "wtg_done" => wg_check'[u] = {}
                        /\ pc'[u] \in {"wtg", "wtg_null"} => wg_object'[u] \in wg_release'[u]
                        /\ pc'[u] \in {"cas", "insert"} => ret'[u] \in {"unlock", "swap"}
                        /\ u = Collector /\ pc'[u] \in DecrementLabels => ret'[u] = "release_field"
                        /\ dr_index'[u] >= 1 /\ wg_index'[u] >= 1
      BY DEF FlowInv
    <2>1. CASE u = m
      BY <1>0, <1>2, <2>1 DEF FlowInv, OwnerStep, WaitLabels
    <2>2. CASE u # m
      <3>1. pc'[u] = pc[u] /\ ret'[u] = ret[u]
        BY <2>2 DEF OwnerStep, OthersStay
      <3> QED
        BY <1>2, <3>1 DEF FlowInv
    <2> QED
      BY <2>1, <2>2
  <1>8. SamePhase
    BY <1>0 DEF OwnerStep, OthersStay, SamePhase
  <1> QED
    BY <1>1, <1>3, <1>5, <1>6, <1>7, <1>8

\* The lists of suspected objects, in a step that suspects nobody.
AsyncStep ==
  \A o \in Obj :
    /\ state[o] # "dead" => (async_release'[o] <=> async_release[o])
    /\ state[o] = "dead" /\ state'[o] # "dead" => ~async_release'[o]

\* The lists stay right in such a step.
LEMMA ListStep ==
  ASSUME TypeInv, CountInv, FlowInv, ListInv, NEW d, HeapStep(d), SamePhase, AsyncStep,
         UNCHANGED <<collectorVars, suspected_object_list>>,
         NEW t \in Threads, OthersStay(t), pc[t] # "insert", pc'[t] # "insert",
         pc'[t] = "cas" => tgt'[t] \in CyclicType
  PROVE  ListInv'
  <1>0. /\ roots' = roots /\ pending' = pending /\ root' = root /\ release_objects' = release_objects
        /\ releasing' = releasing /\ suspected_object_list' = suspected_object_list
    BY DEF collectorVars, rootVars
  <1>1. /\ pc'[Collector] \in {"red", "red_read", "gray", "red_unlock", "check"} =>
             pc[Collector] \in {"red", "red_read", "gray", "red_unlock", "check"}
        /\ pc'[Collector] = "idle" => pc[Collector] = "idle"
        /\ InRelease' => InRelease
    BY DEF SamePhase, DecrementLabels, WaitLabels, InRelease
  <1>2. ASSUME NEW o \in Obj, state[o] # "dead", Suspected(o)
        PROVE  state'[o] # "dead" /\ Suspected(o)'
    <2>1. Suspected(o)'
      BY <1>2 DEF Suspected, AsyncStep
    <2>2. CASE o = d
      BY <2>1, <2>2 DEF HeapStep, LastReference
    <2>3. CASE o # d
      <3>1. SameLife(o)
        BY <2>3 DEF HeapStep
      <3> QED
        BY <1>2, <2>1, <3>1 DEF SameLife
    <2> QED
      BY <2>2, <2>3
  <1>3. ASSUME NEW o \in Obj, state'[o] # "dead", Suspected(o)'
        PROVE  state[o] # "dead" /\ Suspected(o)
    BY <1>3 DEF Suspected, AsyncStep
  <1>4. {tgt[u] : u \in {v \in Threads : pc[v] = "insert"}}' =
          {tgt[u] : u \in {v \in Threads : pc[v] = "insert"}}
    <2>1. \A u \in Threads : pc'[u] = "insert" <=> pc[u] = "insert"
      BY DEF OthersStay
    <2>2. \A u \in Threads : pc[u] = "insert" => tgt'[u] = tgt[u]
      BY DEF OthersStay
    <2> QED
      BY <2>1, <2>2
  <1>5. SuspectedTracked'
    BY <1>0, <1>2, <1>3, <1>4 DEF ListInv, SuspectedTracked
  <1>6. ASSUME NEW u \in Threads
        PROVE  /\ pc'[u] = "cas" => tgt'[u] \in CyclicType
               /\ pc'[u] = "insert" => Suspected(tgt[u])'
    <2>1. CASE u = t
      BY <2>1
    <2>2. CASE u # t
      <3>1. pc'[u] = pc[u] /\ tgt'[u] = tgt[u]
        BY <2>2 DEF OthersStay
      <3>2. ASSUME pc[u] = "insert"
            PROVE  Suspected(tgt[u])'
        <4>1. PICK o : o = tgt[u]
          OBVIOUS
        <4>2. o \in Obj /\ Suspected(o)
          BY <3>2, <4>1 DEF TypeInv, CallsOK, ListInv
        <4>3. u \in Calls(o)
          BY <3>2, <4>1, Membership DEF Operating
        <4>4. o \in Kept
          BY <4>2, <4>3, HolderKeeps
        <4>5. Suspected(o)'
          BY <1>2, <4>2, <4>4 DEF Kept
        <4> QED
          BY <3>1, <4>1, <4>5 DEF Suspected
      <3> QED
        BY <3>1, <3>2 DEF ListInv
    <2> QED
      BY <2>1, <2>2
  <1> QED
    BY <1>0, <1>1, <1>5, <1>6 DEF ListInv

\* The parts of the invariant, put together for a step that leaves the
\* collector's variables alone.
LEMMA Together ==
  ASSUME Inv, TypeInv', NEW d, HeapStep(d), SamePhase, UNCHANGED collectorVars,
         CountInv', HandsDying', HandsApart', FlowInv', ListInv', MutatorInv'
  PROVE  OwnInv'
  <1> USE DEF Inv, OwnInv, LockInv
  <1>1. UNCHANGED rootVars
    BY DEF collectorVars
  <1>2. /\ pc'[Collector] \in {"red", "red_read"} => pc'[Collector] = pc[Collector]
        /\ pc'[Collector] = "gray" => pc[Collector] = "gray"
    BY DEF SamePhase, DecrementLabels, WaitLabels
  <1>3. AcyclicInv'
    BY AcyclicStep
  <1>4. RedInv'
    BY <1>1, <1>2, RedStep
  <1>5. GrayInv'
    BY <1>1, <1>2, GrayStep
  <1>6. ReleaseInv'
    BY ReleaseStep
  <1> QED
    BY <1>3, <1>4, <1>5, <1>6

-----------------------------------------------------------------------------
(***************************************************************************)
(* The mutators.                                                           *)
(***************************************************************************)
\* What a thread holds or uses is in use.
LEMMA HeldKept ==
  ASSUME TypeInv, CountInv, NEW m \in Owners, NEW o \in Obj, held[m][o] > 0
  PROVE  o \in Kept /\ Locals(o) # {} /\ count[o] = Tokens(o)
  <1>1. 1 \in 1..MaxHeld
    BY HeldAssumption
  <1>2. held[m][o] \in Nat
    BY DEF TypeInv, VariablesTyped
  <1>3. <<m, 1>> \in Locals(o)
    BY <1>1, <1>2, Membership
  <1> QED
    BY <1>3, HolderKeeps

\* So is the object an accessor is called on.
LEMMA UsedKept ==
  ASSUME TypeInv, CountInv, MutatorInv, NEW m \in Mutators, pc[m] # "done", NEW p \in Obj,
         p = Module \/ held[m][p] > 0
  PROVE  p \in Kept
  <1>1. Main \in Owners /\ m \in Owners
    BY DEF Owners
  <1>2. held[Main][Module] > 0
    BY DEF MutatorInv
  <1> QED
    BY <1>1, <1>2, HeldKept

\* The bound on what the mutators hold bounds every single holding.
LEMMA HeldRoom ==
  ASSUME TypeInv, Holding < MaxHeld, NEW m \in Mutators, NEW o \in Obj
  PROVE  held[m][o] < MaxHeld
  <1> SUFFICES ASSUME ~(held[m][o] < MaxHeld) PROVE FALSE
    OBVIOUS
  <1>0. held[m][o] \in Nat /\ MaxHeld \in Nat
    BY HeldAssumption DEF TypeInv, VariablesTyped, Owners
  <1>1. PICK T : T = {e \in Mutators \X Obj \X (1..MaxHeld) : e[3] <= held[e[1]][e[2]]}
    OBVIOUS
  <1>2. IsFiniteSet(Mutators) /\ IsFiniteSet(Obj) /\ IsFiniteSet(1..MaxHeld)
    <2>1. Mutators \subseteq Threads
      BY ThreadsAssumption
    <2> QED
      BY <2>1, <1>0, SizeSuffices, ObjAssumption, FS_Subset, FS_Interval
  <1>3. IsFiniteSet((Mutators \X Obj) \X (1..MaxHeld))
    BY <1>2, FS_Product
  <1>4. IsFiniteSet(Mutators \X Obj \X (1..MaxHeld))
    <2>1. PICK f : f = [e \in (Mutators \X Obj) \X (1..MaxHeld) |-> <<e[1][1], e[1][2], e[2]>>]
      OBVIOUS
    <2>2. f \in [(Mutators \X Obj) \X (1..MaxHeld) -> Mutators \X Obj \X (1..MaxHeld)]
      BY <2>1
    <2>3. ASSUME NEW x \in Mutators \X Obj \X (1..MaxHeld)
          PROVE  \E e \in (Mutators \X Obj) \X (1..MaxHeld) : f[e] = x
      <3>1. <<<<x[1], x[2]>>, x[3]>> \in (Mutators \X Obj) \X (1..MaxHeld)
        OBVIOUS
      <3>2. f[<<<<x[1], x[2]>>, x[3]>>] = x
        BY <2>1, <3>1
      <3> QED
        BY <3>1, <3>2
    <2>4. f \in Surjection((Mutators \X Obj) \X (1..MaxHeld), Mutators \X Obj \X (1..MaxHeld))
      BY <2>2, <2>3 DEF Surjection
    <2> QED
      BY <1>3, <2>4, FS_Surjection
  <1>5. IsFiniteSet(T)
    BY <1>1, <1>4, FS_Subset
  <1>6. PICK g : g = [n \in 1..MaxHeld |-> <<m, o, n>>]
    OBVIOUS
  <1>7. g \in Injection(1..MaxHeld, T)
    BY <1>0, <1>1, <1>6 DEF Injection, IsInjective
  <1>8. Cardinality(1..MaxHeld) <= Cardinality(T)
    BY <1>5, <1>7, FS_Injection
  <1>9. Cardinality(1..MaxHeld) = MaxHeld
    BY <1>0, HeldAssumption, FS_Interval
  <1>10. Cardinality(T) < MaxHeld /\ Cardinality(T) \in Nat
    BY <1>1, <1>5, FS_CardinalityType DEF Holding
  <1> QED
    BY <1>0, <1>8, <1>9, <1>10

\* A mutator takes one more reference to an object in use.
LEMMA IncrementStep ==
  ASSUME Inv, TypeInv', NEW m \in Mutators, pc[m] = "idle", NEW o \in Kept, ~Sealed(o),
         NEW after \in {"unlock", "swap"}, IncrementReferenceCount(m, o, after),
         UNCHANGED <<state, async_release, field, held, collectorVars, suspected_object_list>>,
         MutatorInv'
  PROVE  OwnInv'
  <1> USE DEF Inv, OwnInv, LockInv
  <1>0. m \in Owners /\ m \in Threads /\ o \in Obj /\ o \in CyclicType \cup (Obj \ CyclicType)
    BY ThreadsAssumption DEF Owners, Kept
  <1>1. count[o] = Tokens(o) /\ count[o] > 0 /\ count[o] \in Nat /\ count[o] < SizeMax
    BY <1>0, TokensFinite DEF Kept, CountInv, CountOK
  <1>2. /\ count'[o] = count[o] + 1
        /\ \A x \in Obj \ {o} : count'[x] = count[x]
    BY <1>0, <1>1 DEF IncrementReferenceCount, FetchAdd, TypeInv, VariablesTyped, RefCountTypeOK, HeapTypeOK
  <1>3. /\ tgt'[m] = o /\ pc'[m] \in {"cas", "unlock", "swap"}
        /\ pc'[m] = "cas" => ret'[m] \in {"unlock", "swap"} /\ o \in CyclicType
        /\ \A u \in Threads \ {m} : pc'[u] = pc[u] /\ ret'[u] = ret[u] /\ tgt'[u] = tgt[u]
        /\ UNCHANGED <<loopVars, waitVars>>
    BY <1>0 DEF IncrementReferenceCount, Goto, TypeInv, VariablesTyped, RefCountTypeOK, CallTypeOK
  <1>4. OthersStay(m)
    BY <1>3 DEF OthersStay, loopVars, waitVars
  <1>5. OwnerStep(m)
    BY <1>3, <1>4 DEF OwnerStep, WaitLabels
  <1>6. DyingStay
    BY <1>0, <1>1, <1>2 DEF DyingStay, Dying
  <1>7. /\ FlowInv' /\ HandsDying' /\ HandsApart' /\ SamePhase
        /\ \A u \in Threads : \A p, i : Owed(u, p, i)' <=> Owed(u, p, i)
        /\ \A u \in Threads \ {m} : Calling(u)' <=> Calling(u)
    BY <1>0, <1>5, <1>6, OwnerFrame
  <1>8. Kept' = Kept /\ Condemned' = Condemned
    BY <1>0, <1>1, <1>2 DEF Kept, Condemned
  <1>9. \A p, i : GaveUp(p, i)' <=> GaveUp(p, i)
    <2>1. InRelease' <=> InRelease
      BY <1>7 DEF SamePhase, InRelease, DecrementLabels, WaitLabels
    <2> QED
      BY <2>1 DEF GaveUp, collectorVars, rootVars
  <1>10. \A p, i : Carries(p, i)' <=> Carries(p, i)
    BY <1>7, <1>8, <1>9 DEF Carries
  <1>11. \A x : Fields(x)' = Fields(x)
    BY <1>10, FieldsSame
  <1>12. \A x : Locals(x)' = Locals(x)
    BY LocalsSame
  <1>13. ~Calling(m) /\ Calling(m)'
    BY <1>3 DEF Calling, Operating
  <1>14. \A x : x # o => Calls(x)' = Calls(x)
    BY <1>0, <1>3, <1>7, <1>13, CallsSame
  <1>15. Calls(o)' = Calls(o) \cup {m} /\ m \notin Calls(o)
    BY <1>0, <1>3, <1>7, <1>13, CallsPlus DEF Calls, Calling
  <1>16. \A x : x # o => SameTokens(x)
    BY <1>11, <1>12, <1>14 DEF SameTokens
  <1>17. CountInv'
    <2> SUFFICES ASSUME NEW x \in Obj PROVE CountOK(x)'
      BY DEF CountInv
    <2>1. CASE x = o
      <3>1. Tokens(o)' = Tokens(o) + 1
        BY <1>11, <1>12, <1>15, TokensPlusCall
      <3> QED
        BY <1>0, <1>1, <1>2, <2>1, <3>1, CountKept DEF Kept
    <2>2. CASE x # o
      BY <1>2, <1>8, <1>16, <2>2, CountFrame DEF CountInv
    <2> QED
      BY <2>1, <2>2
  <1>18. HeapStep(Null)
    <2>1. \A x \in Obj : SameLife(x)
      BY <1>1, <1>2 DEF SameLife
    <2> QED
      BY <1>16, <2>1, NullAssumption DEF HeapStep, FieldStep
  <1>19. ListInv'
    <2>1. AsyncStep
      BY DEF AsyncStep
    <2>2. pc[m] # "insert" /\ pc'[m] # "insert" /\ (pc'[m] = "cas" => tgt'[m] \in CyclicType)
      BY <1>3
    <2> QED
      BY <1>0, <1>4, <1>7, <1>18, <2>1, <2>2, ListStep
  <1> QED
    BY <1>7, <1>17, <1>18, <1>19, Together

\* What the mutators hold, after a step of thread t.
LEMMA HoldingStep ==
  ASSUME MutatorInv, NEW t \in Threads, OthersStay(t),
         \A u \in Mutators \ {t} : par'[u] = par[u],
         \A u \in Owners \ {t} : \A o \in Obj : held'[u][o] = held[u][o],
         t \in Owners => \A o \in Obj : held'[t][o] <= MaxHeld,
         t \in Mutators => /\ pc[t] # "done"
                           /\ Operating(t)' => par'[t] = Module \/ held'[t][par'[t]] > 0
                           /\ InGetClone(t)' => held'[t][tgt'[t]] < MaxHeld,
         t = Main => \/ held'[t][Module] = held[t][Module]
                     \/ \A u \in Mutators : pc[u] = "done",
         \A u \in Mutators : Operating(u) => par[u] \in Obj /\ tgt[u] \in Obj,
         \A u \in Mutators : InGetClone(u) => tgt[u] \in Obj
  PROVE  MutatorInv'
  <1>0. Main \in Threads /\ Main \in Owners /\ Main \notin Mutators /\ Module \in Obj
        /\ Mutators \subseteq Threads /\ Mutators \subseteq Owners
    BY ThreadsAssumption, ModuleAssumption DEF Owners
  <1>1. ASSUME NEW u \in Mutators, u # t
        PROVE  /\ Operating(u)' => par'[u] = Module \/ held'[u][par'[u]] > 0
               /\ InGetClone(u)' => held'[u][tgt'[u]] < MaxHeld
    <2>1. pc'[u] = pc[u] /\ ret'[u] = ret[u] /\ tgt'[u] = tgt[u] /\ par'[u] = par[u]
      BY <1>0, <1>1 DEF OthersStay
    <2>2. (Operating(u)' <=> Operating(u)) /\ (InGetClone(u)' <=> InGetClone(u))
      BY <2>1 DEF Operating, InGetClone
    <2> QED
      BY <1>0, <1>1, <2>1, <2>2 DEF MutatorInv
  <1>2. ASSUME NEW u \in Mutators, pc'[u] # "done"
        PROVE  held'[Main][Module] > 0
    <2>1. pc[u] # "done"
      BY <1>0, <1>2 DEF OthersStay
    <2>2. held[Main][Module] > 0
      BY <2>1 DEF MutatorInv
    <2> QED
      BY <1>0, <2>1, <2>2
  <1>3. \A u \in Owners, o \in Obj : held'[u][o] <= MaxHeld
    BY DEF MutatorInv
  <1> QED
    BY <1>1, <1>2, <1>3 DEF MutatorInv, Owners

\* Where an accessor is, it has its object and its argument.
LEMMA OperatingObjects ==
  ASSUME TypeInv, FlowInv, NEW u \in Mutators
  PROVE  /\ Operating(u) => par[u] \in Obj /\ tgt[u] \in Obj
         /\ InGetClone(u) => Operating(u)
  BY ThreadsAssumption DEF TypeInv, CallsOK, AccessorsOK, FlowInv, Operating, InGetClone

\* get_clone_object_field takes a reference to what the field holds.
LEMMA GetCloneOwn ==
  ASSUME Inv, TypeInv', NEW m \in Mutators, NEW p \in Obj, NEW i \in Slots, GetClone(m, p, i)
  PROVE  OwnInv'
  <1> USE DEF Inv, OwnInv, LockInv
  <1>0. m \in Owners /\ m \in Threads
    BY ThreadsAssumption DEF Owners
  <1>1. PICK f : f = field[p][i]
    OBVIOUS
  <1>2. /\ pc[m] = "idle" /\ CanUse(m, p) /\ ~lock_flag[p] /\ f # Null /\ Holding < MaxHeld
        /\ par' = [par EXCEPT ![m] = p]
        /\ IncrementReferenceCount(m, f, "unlock")
        /\ UNCHANGED <<state, async_release, field, suspected_object_list, collectorVars, held, slot>>
    BY <1>1 DEF GetClone
  <1>3. p \in Kept
    BY <1>2, UsedKept DEF CanUse
  <1>4. f \in Kept /\ <<p, i>> \in Fields(f)
    BY <1>1, <1>2, <1>3, KeptClosed
  <1>5. ~Sealed(f)
    BY <1>2, <1>4 DEF Sealed
  <1>6. f \in Obj
    BY <1>4 DEF Kept
  <1>7. /\ tgt'[m] = f /\ par'[m] = p
        /\ \A u \in Threads \ {m} : pc'[u] = pc[u] /\ ret'[u] = ret[u] /\ tgt'[u] = tgt[u]
        /\ \A u \in Mutators \ {m} : par'[u] = par[u]
        /\ UNCHANGED <<loopVars, waitVars>>
    BY <1>0, <1>2 DEF IncrementReferenceCount, Goto, TypeInv, VariablesTyped, RefCountTypeOK, CallTypeOK
  <1>8. OthersStay(m)
    BY <1>7 DEF OthersStay, loopVars, waitVars
  <1>9. MutatorInv'
    <2>1. held[m][f] < MaxHeld
      BY <1>2, <1>6, HeldRoom
    <2>2. \A o \in Obj : held[m][o] <= MaxHeld
      BY <1>0 DEF MutatorInv
    <2>3. m # Main
      BY ThreadsAssumption
    <2> QED
      BY <1>0, <1>2, <1>7, <1>8, <2>1, <2>2, <2>3, OperatingObjects, HoldingStep DEF CanUse
  <1> QED
    BY <1>2, <1>4, <1>5, <1>9, IncrementStep

\* set_clone_object_field takes a reference to an object the caller holds.
LEMMA SetCloneOwn ==
  ASSUME Inv, TypeInv', NEW m \in Mutators, NEW p \in Obj, NEW i \in Slots, NEW o \in Obj,
         SetClone(m, p, i, o)
  PROVE  OwnInv'
  <1> USE DEF Inv, OwnInv, LockInv
  <1>0. m \in Owners /\ m \in Threads
    BY ThreadsAssumption DEF Owners
  <1>2. /\ pc[m] = "idle" /\ CanUse(m, p) /\ held[m][o] > 0
        /\ par' = [par EXCEPT ![m] = p]
        /\ IncrementReferenceCount(m, o, "swap")
        /\ UNCHANGED <<state, async_release, field, suspected_object_list, collectorVars, held>>
    BY DEF SetClone
  <1>4. o \in Kept /\ Locals(o) # {}
    BY <1>0, <1>2, HeldKept
  <1>5. ~Sealed(o)
    BY <1>4 DEF Sealed
  <1>7. /\ tgt'[m] = o /\ par'[m] = p
        /\ pc'[m] \in {"cas", "swap"} /\ (pc'[m] = "cas" => ret'[m] = "swap")
        /\ \A u \in Threads \ {m} : pc'[u] = pc[u] /\ ret'[u] = ret[u] /\ tgt'[u] = tgt[u]
        /\ \A u \in Mutators \ {m} : par'[u] = par[u]
        /\ UNCHANGED <<loopVars, waitVars>>
    BY <1>0, <1>2 DEF IncrementReferenceCount, Goto, TypeInv, VariablesTyped, RefCountTypeOK, CallTypeOK
  <1>8. OthersStay(m) /\ ~InGetClone(m)'
    BY <1>7 DEF OthersStay, loopVars, waitVars, InGetClone
  <1>9. MutatorInv'
    <2>2. \A x \in Obj : held[m][x] <= MaxHeld
      BY <1>0 DEF MutatorInv
    <2>3. m # Main
      BY ThreadsAssumption
    <2> QED
      BY <1>0, <1>2, <1>7, <1>8, <2>2, <2>3, OperatingObjects, HoldingStep DEF CanUse
  <1> QED
    BY <1>2, <1>4, <1>5, <1>9, IncrementStep

\* A thread that only passes references on.
LEMMA QuietCarries ==
  ASSUME FlowInv, HandsDying, HandsApart, NEW m \in Owners, OwnerStep(m),
         UNCHANGED <<state, count, async_release, collectorVars>>
  PROVE  /\ FlowInv' /\ HandsDying' /\ HandsApart' /\ SamePhase
         /\ Kept' = Kept /\ Condemned' = Condemned
         /\ \A p, i : Carries(p, i)' <=> Carries(p, i)
         /\ \A u \in Threads \ {m} : Calling(u)' <=> Calling(u)
  <1>1. DyingStay
    BY DEF DyingStay
  <1>2. /\ FlowInv' /\ HandsDying' /\ HandsApart' /\ SamePhase
        /\ \A u \in Threads : \A p, i : Owed(u, p, i)' <=> Owed(u, p, i)
        /\ \A u \in Threads \ {m} : Calling(u)' <=> Calling(u)
    BY <1>1, OwnerFrame
  <1>3. Kept' = Kept /\ Condemned' = Condemned
    BY DEF Kept, Condemned
  <1>4. \A p, i : GaveUp(p, i)' <=> GaveUp(p, i)
    <2>1. InRelease' <=> InRelease
      BY <1>2 DEF SamePhase, InRelease, DecrementLabels, WaitLabels
    <2> QED
      BY <2>1 DEF GaveUp, collectorVars, rootVars
  <1>5. \A p, i : Carries(p, i)' <=> Carries(p, i)
    BY <1>2, <1>3, <1>4 DEF Carries
  <1> QED
    BY <1>2, <1>3, <1>5

\* A step that changes no count: a reference changes hands, or nothing happens.
LEMMA MoveStep ==
  ASSUME Inv, TypeInv', NEW m \in Owners, OwnerStep(m), pc[m] # "insert",
         pc'[m] \notin {"cas", "insert"},
         UNCHANGED <<state, count, async_release, collectorVars, suspected_object_list>>,
         FieldStep,
         \A o \in Obj : SameTokens(o) \/ (o \in Kept /\ ~Sealed(o) /\ Tokens(o)' = Tokens(o)),
         MutatorInv'
  PROVE  OwnInv'
  <1> USE DEF Inv, OwnInv, LockInv
  <1>0. m \in Threads
    BY ThreadsAssumption DEF Owners
  <1>1. /\ FlowInv' /\ HandsDying' /\ HandsApart' /\ SamePhase
        /\ Kept' = Kept /\ Condemned' = Condemned
    BY QuietCarries
  <1>2. CountInv'
    <2> SUFFICES ASSUME NEW o \in Obj PROVE CountOK(o)'
      BY DEF CountInv
    <2>1. CASE SameTokens(o)
      BY <1>1, <2>1, CountFrame DEF CountInv
    <2>2. CASE o \in Kept /\ Tokens(o)' = Tokens(o)
      <3>1. count[o] = Tokens(o) /\ count[o] \in Nat
        BY <2>2, TokensFinite DEF CountInv, CountOK
      <3> QED
        BY <2>2, <3>1, CountKept DEF Kept
    <2> QED
      BY <2>1, <2>2
  <1>3. HeapStep(Null)
    <2>1. \A x \in Obj : SameLife(x)
      BY DEF SameLife
    <2> QED
      BY <2>1, NullAssumption DEF HeapStep
  <1>4. ListInv'
    <2>1. AsyncStep
      BY DEF AsyncStep
    <2>2. OthersStay(m)
      BY DEF OwnerStep
    <2> QED
      BY <1>0, <1>1, <1>3, <2>1, <2>2, ListStep
  <1> QED
    BY <1>1, <1>2, <1>3, <1>4, Together

\* The end of get_clone_object_field: the reference is the caller's.
LEMMA GetCloneUnlockOwn ==
  ASSUME Inv, TypeInv', NEW m \in Mutators, GetCloneUnlock(m)
  PROVE  OwnInv'
  <1> USE DEF Inv, OwnInv, LockInv
  <1>0. m \in Owners /\ m \in Threads /\ m # Main
    BY ThreadsAssumption DEF Owners
  <1>1. PICK o : o = tgt[m]
    OBVIOUS
  <1>2. /\ pc[m] = "unlock" /\ pc' = [pc EXCEPT ![m] = "idle"] /\ tgt' = [tgt EXCEPT ![m] = Null]
        /\ held' = [held EXCEPT ![m][o] = @ + 1]
        /\ par' = [par EXCEPT ![m] = Null]
        /\ UNCHANGED <<state, count, async_release, field, suspected_object_list, ret, loopVars, waitVars,
                       collectorVars>>
    BY <1>1 DEF GetCloneUnlock, Gain, Goto
  <1>3. o \in Obj
    BY <1>0, <1>1, <1>2 DEF TypeInv, CallsOK
  <1>4. /\ pc'[m] = "idle" /\ tgt'[m] = Null
        /\ \A u \in Threads \ {m} : pc'[u] = pc[u] /\ tgt'[u] = tgt[u]
        /\ held[m][o] \in Nat /\ held'[m][o] = held[m][o] + 1
        /\ \A x \in Obj \ {o} : held'[m][x] = held[m][x]
        /\ \A u \in Owners \ {m} : \A x \in Obj : held'[u][x] = held[u][x]
        /\ \A u \in Mutators \ {m} : par'[u] = par[u]
    BY <1>0, <1>2, <1>3 DEF TypeInv, VariablesTyped, RefCountTypeOK, CallTypeOK
  <1>5. OthersStay(m)
    BY <1>2, <1>4 DEF OthersStay, loopVars, waitVars
  <1>6. OwnerStep(m)
    BY <1>2, <1>4, <1>5 DEF OwnerStep, WaitLabels
  <1>7. /\ \A p, i : Carries(p, i)' <=> Carries(p, i)
        /\ \A u \in Threads \ {m} : Calling(u)' <=> Calling(u)
    BY <1>0, <1>2, <1>6, QuietCarries
  <1>8. \A x : Fields(x)' = Fields(x)
    BY <1>2, <1>7, FieldsSame
  <1>9. Calling(m) /\ ~Calling(m)' /\ InGetClone(m)
    BY <1>2, <1>4 DEF Calling, Operating, InGetClone
  <1>10. held[m][o] < MaxHeld
    BY <1>1, <1>9 DEF MutatorInv
  <1>11. \A x \in Obj \ {o} : SameTokens(x)
    <2> SUFFICES ASSUME NEW x \in Obj \ {o} PROVE SameTokens(x)
      OBVIOUS
    <2>1. Calls(x)' = Calls(x)
      BY <1>0, <1>1, <1>4, <1>7, <1>9, CallsSame
    <2>2. Locals(x)' = Locals(x)
      BY <1>0, <1>4, LocalsSame
    <2> QED
      BY <1>8, <2>1, <2>2 DEF SameTokens
  <1>12. m \in Calls(o)
    BY <1>0, <1>1, <1>9 DEF Calls, Calling
  <1>13. Tokens(o)' = Tokens(o)
    <2>1. Calls(o)' = Calls(o) \ {m}
      BY <1>0, <1>4, <1>7, <1>9, CallsMinus
    <2>2. PICK l : l = <<m, held[m][o] + 1>>
      OBVIOUS
    <2>3. Locals(o)' = Locals(o) \cup {l} /\ l \notin Locals(o)
      BY <1>0, <1>3, <1>4, <1>10, <2>2, LocalsPlus
    <2> QED
      BY <1>8, <1>12, <2>1, <2>3, TokensCallToLocal
  <1>14. o \in Kept /\ ~Sealed(o)
    BY <1>3, <1>12, HolderKeeps DEF Sealed
  <1>15. FieldStep
    BY <1>2 DEF FieldStep
  <1>16. MutatorInv'
    <2>1. \A x \in Obj : held'[m][x] <= MaxHeld
      BY <1>0, <1>4, <1>10, HeldAssumption DEF MutatorInv
    <2>2. ~Operating(m)' /\ ~InGetClone(m)'
      BY <1>4 DEF Operating, InGetClone
    <2> QED
      BY <1>0, <1>2, <1>4, <1>5, <2>1, <2>2, OperatingObjects, HoldingStep
  <1> QED
    BY <1>0, <1>2, <1>4, <1>6, <1>11, <1>13, <1>14, <1>15, <1>16, MoveStep

\* Giving up what a field held.
LEMMA GiveUpOldStep ==
  ASSUME TypeInv, NEW m \in Owners, NEW old, GiveUpOld(m, old), UNCHANGED <<loopVars, waitVars>>
  PROVE  /\ tgt'[m] = old /\ pc'[m] \in {"dec", "idle"} /\ (Calling(m)' <=> old # Null)
         /\ ~Operating(m)' /\ ~InGetClone(m)' /\ OthersStay(m)
  <1>0. m \in Threads
    BY ThreadsAssumption DEF Owners
  <1>1. /\ tgt'[m] = old
        /\ pc'[m] = IF old # Null THEN "dec" ELSE "idle"
        /\ \A u \in Threads \ {m} : pc'[u] = pc[u] /\ ret'[u] = ret[u] /\ tgt'[u] = tgt[u]
    BY <1>0 DEF GiveUpOld, CallDecrement, Goto, TypeInv, VariablesTyped, RefCountTypeOK, CallTypeOK
  <1> QED
    BY <1>1 DEF Calling, Operating, InGetClone, OthersStay, loopVars, waitVars

\* The exchange of set_clone_object_field: the new reference is the field's,
\* the field's old one is given up.
LEMMA SetCloneSwapOwn ==
  ASSUME Inv, TypeInv', NEW m \in Mutators, SetCloneSwap(m)
  PROVE  OwnInv'
  <1> USE DEF Inv, OwnInv, LockInv
  <1>0. m \in Owners /\ m \in Threads /\ m # Main
    BY ThreadsAssumption DEF Owners
  <1>1. PICK p, s, o, old : p = par[m] /\ s = slot[m] /\ o = tgt[m] /\ old = field[p][s]
    OBVIOUS
  <1>2. /\ pc[m] = "swap" /\ ~lock_flag[p] /\ field' = [field EXCEPT ![p][s] = o]
        /\ par' = [par EXCEPT ![m] = Null]
        /\ GiveUpOld(m, old)
        /\ UNCHANGED <<state, count, async_release, suspected_object_list, loopVars, waitVars,
                       collectorVars, held>>
    BY <1>1 DEF SetCloneSwap
  <1>3. o \in Obj /\ p \in Obj /\ s \in Slots
    BY <1>0, <1>1, <1>2 DEF TypeInv, CallsOK, AccessorsOK
  <1>4. /\ field'[p][s] = o
        /\ \A q \in Obj, i \in Slots : ~(q = p /\ i = s) => field'[q][i] = field[q][i]
        /\ \A u \in Mutators \ {m} : par'[u] = par[u]
    BY <1>2, <1>3 DEF TypeInv, VariablesTyped, RefCountTypeOK, HeapTypeOK, Heaps
  <1>5. /\ tgt'[m] = old /\ pc'[m] \in {"dec", "idle"} /\ (Calling(m)' <=> old # Null)
        /\ ~Operating(m)' /\ ~InGetClone(m)' /\ OthersStay(m)
    BY <1>0, <1>2, GiveUpOldStep
  <1>6. OwnerStep(m)
    BY <1>2, <1>5 DEF OwnerStep, WaitLabels
  <1>7. /\ \A q, i : Carries(q, i)' <=> Carries(q, i)
        /\ \A u \in Threads \ {m} : Calling(u)' <=> Calling(u)
    BY <1>0, <1>2, <1>6, QuietCarries
  <1>8. Calling(m) /\ Operating(m)
    BY <1>2 DEF Calling, Operating
  <1>9. p \in Kept
    BY <1>1, <1>2, <1>3, <1>8, UsedKept DEF MutatorInv
  <1>10. Carries(p, s)
    BY <1>9 DEF Carries
  <1>11. o \in Kept /\ m \in Calls(o) /\ ~Sealed(o)
    <2>1. m \in Calls(o)
      BY <1>0, <1>1, <1>8 DEF Calls, Calling
    <2> QED
      BY <1>3, <2>1, HolderKeeps DEF Sealed
  <1>12. old # Null => old \in Kept /\ <<p, s>> \in Fields(old) /\ ~Sealed(old)
    <2>1. old # Null => old \in Kept /\ <<p, s>> \in Fields(old)
      BY <1>1, <1>3, <1>9, KeptClosed
    <2> QED
      BY <1>2, <1>3, <2>1 DEF Sealed
  <1>13. \A x : Locals(x)' = Locals(x)
    BY <1>2, LocalsSame
  <1>14. ASSUME NEW x \in Obj, x # o, x # old
         PROVE  SameTokens(x)
    <2>1. Fields(x)' = Fields(x)
      BY <1>1, <1>4, <1>7, <1>14, FieldsSame
    <2>2. Calls(x)' = Calls(x)
      BY <1>0, <1>1, <1>5, <1>7, <1>14, CallsSame DEF OthersStay
    <2> QED
      BY <1>13, <2>1, <2>2 DEF SameTokens
  <1>15. CASE o = old
    <2>1. Fields(o)' = Fields(o)
      BY <1>1, <1>4, <1>7, <1>15, FieldsSame
    <2>2. Calls(o)' = Calls(o)
      BY <1>0, <1>1, <1>3, <1>5, <1>7, <1>8, <1>15, NullAssumption, CallsSame DEF OthersStay
    <2>3. SameTokens(o)
      BY <1>13, <2>1, <2>2 DEF SameTokens
    <2> QED
      <3>1. \A x \in Obj : SameTokens(x) \/ (x \in Kept /\ ~Sealed(x) /\ Tokens(x)' = Tokens(x))
        BY <1>14, <1>15, <2>3
      <3>2. FieldStep
        BY <1>1, <1>4, <1>15 DEF FieldStep
      <3>3. MutatorInv'
        BY <1>0, <1>2, <1>4, <1>5, OperatingObjects, HoldingStep DEF MutatorInv
      <3> QED
        BY <1>0, <1>2, <1>5, <1>6, <3>1, <3>2, <3>3, MoveStep
  <1>16. CASE o # old
    <2>1. Tokens(o)' = Tokens(o)
      <3>1. Fields(o)' = Fields(o) \cup {<<p, s>>}
        BY <1>1, <1>3, <1>4, <1>7, <1>10, <1>16, FieldsPlus
      <3>2. <<p, s>> \notin Fields(o)
        BY <1>1, <1>3, <1>16, Membership
      <3>3. Calls(o)' = Calls(o) \ {m}
        BY <1>0, <1>5, <1>7, <1>16, CallsMinus DEF OthersStay
      <3>4. PICK e : e = <<p, s>>
        OBVIOUS
      <3> QED
        BY <1>11, <1>13, <3>1, <3>2, <3>3, <3>4, TokensCallToField
    <2>2. old # Null => Tokens(old)' = Tokens(old)
      <3> SUFFICES ASSUME old # Null PROVE Tokens(old)' = Tokens(old)
        OBVIOUS
      <3>1. Fields(old)' = Fields(old) \ {<<p, s>>}
        BY <1>1, <1>3, <1>4, <1>7, <1>16, FieldsMinus
      <3>2. Calls(old)' = Calls(old) \cup {m}
        BY <1>0, <1>5, <1>7, CallsPlus DEF OthersStay
      <3>3. m \notin Calls(old)
        BY <1>0, <1>1, <1>16 DEF Calls
      <3>4. PICK e : e = <<p, s>>
        OBVIOUS
      <3> QED
        BY <1>12, <1>13, <3>1, <3>2, <3>3, <3>4, TokensFieldToCall
    <2>3. \A x \in Obj : SameTokens(x) \/ (x \in Kept /\ ~Sealed(x) /\ Tokens(x)' = Tokens(x))
      BY <1>11, <1>12, <1>14, <2>1, <2>2, NullAssumption
    <2>4. FieldStep
      BY <1>2, <1>4, <1>9, <1>11 DEF FieldStep
    <2>5. MutatorInv'
      BY <1>0, <1>2, <1>4, <1>5, OperatingObjects, HoldingStep DEF MutatorInv
    <2> QED
      BY <1>0, <1>2, <1>5, <1>6, <2>3, <2>4, <2>5, MoveStep
  <1> QED
    BY <1>15, <1>16

\* set_move_object_field: the caller's reference becomes the field's, the
\* field's old one is given up.
LEMMA SetMoveOwn ==
  ASSUME Inv, TypeInv', NEW m \in Mutators, NEW p \in Obj, NEW s \in Slots, NEW o \in Obj,
         SetMove(m, p, s, o)
  PROVE  OwnInv'
  <1> USE DEF Inv, OwnInv, LockInv
  <1>0. m \in Owners /\ m \in Threads /\ m # Main
    BY ThreadsAssumption DEF Owners
  <1>1. PICK old : old = field[p][s]
    OBVIOUS
  <1>2. /\ pc[m] = "idle" /\ CanUse(m, p) /\ ~lock_flag[p] /\ field' = [field EXCEPT ![p][s] = o]
        /\ held[m][o] > (IF p = o THEN 1 ELSE 0)
        /\ held' = [held EXCEPT ![m][o] = @ - 1]
        /\ GiveUpOld(m, old)
        /\ UNCHANGED <<state, count, async_release, suspected_object_list, loopVars, waitVars,
                       collectorVars, par>>
    BY <1>1 DEF SetMove, Lose
  <1>3. held[m][o] \in Nat /\ held[m][o] > 0 /\ held[m][o] <= MaxHeld
    BY <1>0, <1>2 DEF TypeInv, VariablesTyped, MutatorInv
  <1>4. /\ field'[p][s] = o
        /\ \A q \in Obj, i \in Slots : ~(q = p /\ i = s) => field'[q][i] = field[q][i]
    BY <1>2 DEF TypeInv, VariablesTyped, RefCountTypeOK, HeapTypeOK, Heaps
  <1>5. /\ held'[m][o] = held[m][o] - 1
        /\ \A x \in Obj \ {o} : held'[m][x] = held[m][x]
        /\ \A u \in Owners \ {m} : \A x \in Obj : held'[u][x] = held[u][x]
    BY <1>0, <1>2 DEF TypeInv, VariablesTyped
  <1>6. /\ tgt'[m] = old /\ pc'[m] \in {"dec", "idle"} /\ (Calling(m)' <=> old # Null)
        /\ ~Operating(m)' /\ ~InGetClone(m)' /\ OthersStay(m)
    BY <1>0, <1>2, GiveUpOldStep
  <1>7. OwnerStep(m)
    BY <1>2, <1>6 DEF OwnerStep, WaitLabels
  <1>8. /\ \A q, i : Carries(q, i)' <=> Carries(q, i)
        /\ \A u \in Threads \ {m} : Calling(u)' <=> Calling(u)
    BY <1>0, <1>2, <1>7, QuietCarries
  <1>9. ~Calling(m) /\ p \in Kept
    BY <1>2, UsedKept DEF Calling, Operating, CanUse
  <1>10. Carries(p, s)
    BY <1>9 DEF Carries
  <1>11. o \in Kept /\ ~Sealed(o)
    BY <1>0, <1>3, HeldKept DEF Sealed
  <1>12. PICK l, e : l = <<m, held[m][o]>> /\ e = <<p, s>>
    OBVIOUS
  <1>13. Locals(o)' = Locals(o) \ {l} /\ l \in Locals(o)
    BY <1>0, <1>3, <1>5, <1>12, LocalsMinus
  <1>14. \A x \in Obj \ {o} : Locals(x)' = Locals(x)
    BY <1>0, <1>5, LocalsSame
  <1>15. old # Null => old \in Kept /\ e \in Fields(old) /\ ~Sealed(old)
    <2>1. old # Null => old \in Kept /\ <<p, s>> \in Fields(old)
      BY <1>1, <1>9, KeptClosed
    <2> QED
      BY <1>2, <1>12, <2>1 DEF Sealed
  <1>16. m \notin Calls(old)
    BY <1>9 DEF Calls, Calling
  <1>17. \A x : x # old => Calls(x)' = Calls(x)
    BY <1>0, <1>6, <1>8, <1>9, CallsSame DEF OthersStay
  <1>18. old # Null => Calls(old)' = Calls(old) \cup {m}
    BY <1>0, <1>6, <1>8, CallsPlus DEF OthersStay
  <1>19. ASSUME NEW x \in Obj, x # o, x # old
         PROVE  SameTokens(x)
    <2>1. Fields(x)' = Fields(x)
      BY <1>1, <1>4, <1>8, <1>19, FieldsSame
    <2> QED
      BY <1>14, <1>17, <1>19, <2>1 DEF SameTokens
  <1>20. Tokens(o)' = Tokens(o)
    <2>1. CASE o = old
      <3>1. Fields(o)' = Fields(o)
        BY <1>1, <1>4, <1>8, <2>1, FieldsSame
      <3> QED
        BY <1>13, <1>16, <1>18, <2>1, <3>1, NullAssumption, TokensLocalToCall
    <2>2. CASE o # old
      <3>1. Fields(o)' = Fields(o) \cup {e}
        BY <1>1, <1>4, <1>8, <1>10, <1>12, <2>2, FieldsPlus
      <3>2. e \notin Fields(o)
        BY <1>1, <1>12, <2>2, Membership
      <3> QED
        BY <1>13, <1>17, <2>2, <3>1, <3>2, TokensLocalToField
    <2> QED
      BY <2>1, <2>2
  <1>21. ASSUME old # Null, o # old
         PROVE  Tokens(old)' = Tokens(old)
    <2>1. Fields(old)' = Fields(old) \ {e}
      BY <1>1, <1>4, <1>8, <1>12, <1>21, FieldsMinus
    <2>2. old \in Obj \ {o}
      BY <1>15, <1>21 DEF Kept
    <2> QED
      BY <1>14, <1>15, <1>16, <1>18, <1>21, <2>1, <2>2, TokensFieldToCall
  <1>22. \A x \in Obj : SameTokens(x) \/ (x \in Kept /\ ~Sealed(x) /\ Tokens(x)' = Tokens(x))
    BY <1>11, <1>15, <1>19, <1>20, <1>21, NullAssumption
  <1>23. FieldStep
    BY <1>2, <1>4, <1>9, <1>11 DEF FieldStep
  <1>24. MutatorInv'
    <2>1. \A x \in Obj : held'[m][x] <= MaxHeld
      BY <1>0, <1>3, <1>5, HeldAssumption DEF MutatorInv
    <2> QED
      BY <1>0, <1>2, <1>5, <1>6, <2>1, OperatingObjects, HoldingStep
  <1> QED
    BY <1>0, <1>2, <1>6, <1>7, <1>22, <1>23, <1>24, MoveStep

\* get_move_object_field: the field's reference becomes the caller's.
LEMMA GetMoveOwn ==
  ASSUME Inv, TypeInv', NEW m \in Mutators, NEW p \in Obj, NEW s \in Slots, GetMove(m, p, s)
  PROVE  OwnInv'
  <1> USE DEF Inv, OwnInv, LockInv
  <1>0. m \in Owners /\ m \in Threads /\ m # Main
    BY ThreadsAssumption DEF Owners
  <1>1. PICK f : f = field[p][s]
    OBVIOUS
  <1>2. /\ pc[m] = "idle" /\ CanUse(m, p) /\ ~lock_flag[p] /\ f # Null /\ Holding < MaxHeld
        /\ field' = [field EXCEPT ![p][s] = Null]
        /\ held' = [held EXCEPT ![m][f] = @ + 1]
        /\ UNCHANGED <<state, count, async_release, suspected_object_list, callVars, collectorVars, par>>
    BY <1>1 DEF GetMove, Gain
  <1>3. p \in Kept
    BY <1>2, UsedKept DEF CanUse
  <1>4. f \in Kept /\ <<p, s>> \in Fields(f) /\ f \in Obj
    BY <1>1, <1>2, <1>3, KeptClosed DEF Kept
  <1>5. ~Sealed(f)
    BY <1>2, <1>4 DEF Sealed
  <1>6. held[m][f] \in Nat /\ held[m][f] < MaxHeld
    BY <1>0, <1>2, <1>4, HeldRoom DEF TypeInv, VariablesTyped
  <1>7. /\ field'[p][s] = Null
        /\ \A q \in Obj, i \in Slots : ~(q = p /\ i = s) => field'[q][i] = field[q][i]
    BY <1>2 DEF TypeInv, VariablesTyped, RefCountTypeOK, HeapTypeOK, Heaps
  <1>8. /\ held'[m][f] = held[m][f] + 1
        /\ \A x \in Obj \ {f} : held'[m][x] = held[m][x]
        /\ \A u \in Owners \ {m} : \A x \in Obj : held'[u][x] = held[u][x]
    BY <1>0, <1>2, <1>4 DEF TypeInv, VariablesTyped
  <1>9. pc' = pc /\ tgt' = tgt /\ ret' = ret /\ UNCHANGED <<loopVars, waitVars>>
    BY <1>2 DEF callVars
  <1>10. OwnerStep(m)
    BY <1>2, <1>9 DEF OwnerStep, OthersStay, loopVars, waitVars, WaitLabels
  <1>11. /\ \A q, i : Carries(q, i)' <=> Carries(q, i)
    BY <1>0, <1>2, <1>10, QuietCarries
  <1>12. \A x : Calls(x)' = Calls(x)
    BY <1>9, CallsSame DEF Calling, Operating
  <1>13. PICK l, e : l = <<m, held[m][f] + 1>> /\ e = <<p, s>>
    OBVIOUS
  <1>14. Locals(f)' = Locals(f) \cup {l} /\ l \notin Locals(f)
    BY <1>0, <1>4, <1>6, <1>8, <1>13, LocalsPlus
  <1>15. Fields(f)' = Fields(f) \ {e}
    BY <1>1, <1>2, <1>7, <1>11, <1>13, FieldsMinus
  <1>16. Tokens(f)' = Tokens(f)
    BY <1>4, <1>12, <1>13, <1>14, <1>15, TokensFieldToLocal
  <1>17. ASSUME NEW x \in Obj, x # f
         PROVE  SameTokens(x)
    <2>1. Fields(x)' = Fields(x)
      BY <1>1, <1>7, <1>11, <1>17, NullAssumption, FieldsSame
    <2>2. Locals(x)' = Locals(x)
      BY <1>0, <1>8, <1>17, LocalsSame
    <2> QED
      BY <1>12, <2>1, <2>2 DEF SameTokens
  <1>18. FieldStep
    BY <1>2, <1>3, <1>7 DEF FieldStep
  <1>19. MutatorInv'
    <2>1. \A x \in Obj : held'[m][x] <= MaxHeld
      BY <1>0, <1>6, <1>8, HeldAssumption DEF MutatorInv
    <2>2. ~Operating(m)' /\ ~InGetClone(m)' /\ OthersStay(m)
      BY <1>2, <1>9, <1>10 DEF Operating, InGetClone, OwnerStep
    <2> QED
      BY <1>0, <1>2, <1>8, <1>9, <2>1, <2>2, OperatingObjects, HoldingStep
  <1> QED
    <2>1. \A x \in Obj : SameTokens(x) \/ (x \in Kept /\ ~Sealed(x) /\ Tokens(x)' = Tokens(x))
      BY <1>4, <1>5, <1>16, <1>17
    <2>2. pc'[m] \notin {"cas", "insert"}
      BY <1>2, <1>9
    <2> QED
      BY <1>0, <1>2, <1>10, <1>18, <1>19, <2>1, <2>2, MoveStep

\* A reference in a local variable is given up.
LEMMA DropOwn ==
  ASSUME Inv, TypeInv', NEW m \in Owners, NEW o \in Obj, Drop(m, o)
  PROVE  OwnInv'
  <1> USE DEF Inv, OwnInv, LockInv
  <1>0. m \in Threads
    BY ThreadsAssumption DEF Owners
  <1>2. /\ pc[m] = "idle" /\ held[m][o] > 0
        /\ m = Main => \A n \in Mutators : pc[n] = "done"
        /\ held' = [held EXCEPT ![m][o] = @ - 1]
        /\ pc' = [pc EXCEPT ![m] = "dec"] /\ tgt' = [tgt EXCEPT ![m] = o]
        /\ ret' = [ret EXCEPT ![m] = "idle"]
        /\ UNCHANGED <<heapVars, suspected_object_list, loopVars, waitVars, collectorVars, par>>
    BY DEF Drop, Lose, CallDecrement, Goto
  <1>3. held[m][o] \in Nat /\ held[m][o] > 0 /\ held[m][o] <= MaxHeld
    BY <1>2 DEF TypeInv, VariablesTyped, MutatorInv
  <1>4. /\ pc'[m] = "dec" /\ tgt'[m] = o
        /\ \A u \in Threads \ {m} : pc'[u] = pc[u] /\ ret'[u] = ret[u] /\ tgt'[u] = tgt[u]
        /\ held'[m][o] = held[m][o] - 1
        /\ \A x \in Obj \ {o} : held'[m][x] = held[m][x]
        /\ \A u \in Owners \ {m} : \A x \in Obj : held'[u][x] = held[u][x]
    BY <1>0, <1>2 DEF TypeInv, VariablesTyped, RefCountTypeOK, CallTypeOK
  <1>5. OthersStay(m)
    BY <1>2, <1>4 DEF OthersStay, loopVars, waitVars
  <1>6. OwnerStep(m)
    BY <1>2, <1>4, <1>5 DEF OwnerStep, WaitLabels
  <1>7. UNCHANGED <<state, count, async_release, lock_flag, field>>
    BY <1>2 DEF heapVars
  <1>8. /\ \A q, i : Carries(q, i)' <=> Carries(q, i)
        /\ \A u \in Threads \ {m} : Calling(u)' <=> Calling(u)
    BY <1>2, <1>6, <1>7, QuietCarries
  <1>9. ~Calling(m) /\ Calling(m)' /\ ~Operating(m)' /\ ~InGetClone(m)'
    BY <1>2, <1>4 DEF Calling, Operating, InGetClone
  <1>10. \A x : Fields(x)' = Fields(x)
    BY <1>7, <1>8, FieldsSame
  <1>11. o \in Kept /\ ~Sealed(o)
    BY <1>3, HeldKept DEF Sealed
  <1>12. PICK l : l = <<m, held[m][o]>>
    OBVIOUS
  <1>13. Locals(o)' = Locals(o) \ {l} /\ l \in Locals(o)
    BY <1>3, <1>4, <1>12, LocalsMinus
  <1>14. Calls(o)' = Calls(o) \cup {m} /\ m \notin Calls(o)
    BY <1>0, <1>4, <1>8, <1>9, CallsPlus DEF Calls, Calling
  <1>15. Tokens(o)' = Tokens(o)
    BY <1>10, <1>13, <1>14, TokensLocalToCall
  <1>16. ASSUME NEW x \in Obj, x # o
         PROVE  SameTokens(x)
    <2>1. Calls(x)' = Calls(x)
      BY <1>0, <1>4, <1>8, <1>9, <1>16, CallsSame
    <2>2. Locals(x)' = Locals(x)
      BY <1>4, <1>16, LocalsSame
    <2> QED
      BY <1>10, <2>1, <2>2 DEF SameTokens
  <1>17. FieldStep
    BY <1>7 DEF FieldStep
  <1>18. MutatorInv'
    <2>1. \A x \in Obj : held'[m][x] <= MaxHeld
      BY <1>3, <1>4, HeldAssumption DEF MutatorInv
    <2> QED
      BY <1>0, <1>2, <1>4, <1>5, <1>9, <2>1, OperatingObjects, HoldingStep
  <1> QED
    <2>1. \A x \in Obj : SameTokens(x) \/ (x \in Kept /\ ~Sealed(x) /\ Tokens(x)' = Tokens(x))
      BY <1>11, <1>15, <1>16
    <2>2. pc'[m] \notin {"cas", "insert"}
      BY <1>4
    <2> QED
      BY <1>2, <1>6, <1>7, <1>17, <1>18, <2>1, <2>2, MoveStep

\* A thread returns.
LEMMA FinishOwn ==
  ASSUME Inv, TypeInv', NEW m \in Owners, Finish(m)
  PROVE  OwnInv'
  <1> USE DEF Inv, OwnInv, LockInv
  <1>0. m \in Threads
    BY ThreadsAssumption DEF Owners
  <1>2. /\ pc[m] = "idle" /\ pc' = [pc EXCEPT ![m] = "done"]
        /\ UNCHANGED <<heapVars, suspected_object_list, ret, tgt, loopVars, waitVars, collectorVars,
                       mutatorVars>>
    BY DEF Finish, Goto
  <1>3. /\ pc'[m] = "done" /\ \A u \in Threads \ {m} : pc'[u] = pc[u]
        /\ UNCHANGED <<state, count, async_release, field, held, par>>
    BY <1>0, <1>2 DEF TypeInv, VariablesTyped, RefCountTypeOK, CallTypeOK, heapVars, mutatorVars
  <1>5. OthersStay(m)
    BY <1>2, <1>3 DEF OthersStay, loopVars, waitVars
  <1>6. OwnerStep(m)
    BY <1>2, <1>3, <1>5 DEF OwnerStep, WaitLabels
  <1>8. /\ \A q, i : Carries(q, i)' <=> Carries(q, i)
        /\ \A u \in Threads \ {m} : Calling(u)' <=> Calling(u)
    BY <1>2, <1>3, <1>6, QuietCarries
  <1>9. ~Calling(m) /\ ~Calling(m)' /\ ~Operating(m)' /\ ~InGetClone(m)'
    BY <1>2, <1>3 DEF Calling, Operating, InGetClone
  <1>10. \A x : Fields(x)' = Fields(x)
    BY <1>3, <1>8, FieldsSame
  <1>11. \A x : Locals(x)' = Locals(x)
    BY <1>3, LocalsSame
  <1>12. \A x : Calls(x)' = Calls(x)
    BY <1>0, <1>2, <1>8, <1>9, CallsSame
  <1>13. \A x \in Obj : SameTokens(x)
    BY <1>10, <1>11, <1>12 DEF SameTokens
  <1>17. FieldStep
    BY <1>3 DEF FieldStep
  <1>18. MutatorInv'
    BY <1>0, <1>2, <1>3, <1>5, <1>9, OperatingObjects, HoldingStep DEF MutatorInv
  <1>19. pc'[m] \notin {"cas", "insert"}
    BY <1>3
  <1> QED
    BY <1>2, <1>3, <1>6, <1>13, <1>17, <1>18, <1>19, MoveStep

\* A new object has one reference, in a local.
LEMMA TokensPlusLocal ==
  ASSUME NEW o, NEW l, l \notin Locals(o), Fields(o)' = Fields(o), Locals(o)' = Locals(o) \cup {l},
         Calls(o)' = Calls(o)
  PROVE  Tokens(o)' = Tokens(o) + 1
  <1>1. /\ Cardinality(Fields(o)') = Cardinality(Fields(o))
        /\ Cardinality(Locals(o)') = Cardinality(Locals(o)) + 1
        /\ Cardinality(Calls(o)') = Cardinality(Calls(o))
    BY TokensFinite, PlusOne
  <1>2. /\ Cardinality(Fields(o)) \in Nat /\ Cardinality(Locals(o)) \in Nat
        /\ Cardinality(Calls(o)) \in Nat
    BY TokensFinite
  <1> QED
    BY ONLY <1>1, <1>2 DEF Tokens

\* An object whose fields a thread has still to give up is dying.
LEMMA OwedDying ==
  ASSUME HandsDying, FlowInv, NEW t \in Threads, NEW p \in Obj, NEW i, Owed(t, p, i)
  PROVE  p \in Dying /\ p \notin Kept /\ p \notin Condemned
  <1>1. \E k \in Kinds : Hand(t, k, p)
    BY DEF Owed, Hand, FlowInv, Kinds
  <1>2. count[p] = 0 /\ state[p] # "dead"
    BY <1>1 DEF HandsDying
  <1> QED
    BY <1>2 DEF Dying, Kept, Condemned

\* A dead cell is handed out: nobody refers to it.
LEMMA MallocOwn ==
  ASSUME Inv, TypeInv', NEW m \in Mutators, NEW o \in Obj, Malloc(m, o)
  PROVE  OwnInv'
  <1> USE DEF Inv, OwnInv, LockInv
  <1>0. m \in Owners /\ m \in Threads /\ m # Main
    BY ThreadsAssumption DEF Owners
  <1>1. /\ pc[m] = "idle" /\ state[o] = "dead"
        /\ field' = [field EXCEPT ![o] = [i \in Slots |-> Null]]
        /\ async_release' = [async_release EXCEPT ![o] = FALSE]
        /\ state' = [state EXCEPT ![o] = "live"]
        /\ count' = [count EXCEPT ![o] = 1]
        /\ held' = [held EXCEPT ![m][o] = @ + 1]
        /\ UNCHANGED <<suspected_object_list, callVars, collectorVars, par>>
    BY DEF Malloc, Gain
  <1>2. /\ state'[o] = "live" /\ count'[o] = 1 /\ ~async_release'[o]
        /\ \A i \in Slots : field'[o][i] = Null
        /\ \A x \in Obj \ {o} : /\ state'[x] = state[x] /\ count'[x] = count[x]
                                /\ async_release'[x] = async_release[x]
                                /\ \A i \in Slots : field'[x][i] = field[x][i]
    BY <1>1 DEF TypeInv, VariablesTyped, RefCountTypeOK, HeapTypeOK, Heaps
  <1>3. /\ held[m][o] \in Nat /\ held'[m][o] = held[m][o] + 1
        /\ \A x \in Obj \ {o} : held'[m][x] = held[m][x]
        /\ \A u \in Owners \ {m} : \A x \in Obj : held'[u][x] = held[u][x]
    BY <1>0, <1>1 DEF TypeInv, VariablesTyped
  <1>4. o \notin Kept /\ o \notin Condemned /\ o \notin Dying
    BY <1>1 DEF Kept, Condemned, Dying
  <1>5. held[m][o] = 0
    BY <1>0, <1>3, <1>4, HeldKept
  <1>6. Tokens(o) = 0
    BY <1>1 DEF CountInv, CountOK
  <1>7. pc' = pc /\ tgt' = tgt /\ ret' = ret /\ UNCHANGED <<loopVars, waitVars>>
    BY <1>1 DEF callVars
  <1>8. OwnerStep(m) /\ OthersStay(m)
    BY <1>1, <1>7 DEF OwnerStep, OthersStay, loopVars, waitVars, WaitLabels
  <1>9. DyingStay
    BY <1>2, <1>4 DEF DyingStay, Dying
  <1>10. /\ FlowInv' /\ HandsDying' /\ HandsApart' /\ SamePhase
         /\ \A u \in Threads : \A p, i : Owed(u, p, i)' <=> Owed(u, p, i)
    BY <1>0, <1>8, <1>9, OwnerFrame
  <1>11. /\ Condemned' = Condemned
         /\ \A p \in Obj \ {o} : (p \in Kept') <=> (p \in Kept)
    BY <1>2, <1>4 DEF Kept, Condemned
  <1>12. \A p, i : GaveUp(p, i)' <=> GaveUp(p, i)
    <2>1. InRelease' <=> InRelease
      BY <1>7 DEF InRelease
    <2> QED
      BY <1>1, <2>1 DEF GaveUp, collectorVars, rootVars
  <1>13. \A p \in Obj \ {o}, i \in Slots : Carries(p, i)' <=> Carries(p, i)
    BY <1>10, <1>11, <1>12 DEF Carries
  <1>14. \A i \in Slots : ~Carries(o, i)
    BY <1>4, OwedDying DEF Carries
  <1>15. \A x \in Obj : Fields(x)' = Fields(x)
    <2> SUFFICES ASSUME NEW x \in Obj PROVE Fields(x)' = Fields(x)
      OBVIOUS
    <2>1. \A p \in Obj, i \in Slots :
            (field'[p][i] = x /\ Carries(p, i)') <=> (field[p][i] = x /\ Carries(p, i))
      BY <1>2, <1>13, <1>14, NullAssumption
    <2> QED
      BY <2>1, FieldsSame
  <1>16. \A x : Calls(x)' = Calls(x)
    BY <1>7, CallsSame DEF Calling, Operating
  <1>17. PICK l : l = <<m, held[m][o] + 1>>
    OBVIOUS
  <1>18. Locals(o)' = Locals(o) \cup {l} /\ l \notin Locals(o)
    BY <1>0, <1>3, <1>5, <1>17, HeldAssumption, LocalsPlus
  <1>19. Tokens(o)' = 1
    BY <1>6, <1>15, <1>16, <1>18, TokensPlusLocal
  <1>20. ASSUME NEW x \in Obj, x # o
         PROVE  SameTokens(x)
    <2>1. Locals(x)' = Locals(x)
      BY <1>0, <1>3, <1>20, LocalsSame
    <2> QED
      BY <1>15, <1>16, <2>1 DEF SameTokens
  <1>21. CountInv'
    <2> SUFFICES ASSUME NEW x \in Obj PROVE CountOK(x)'
      BY DEF CountInv
    <2>1. CASE x = o
      BY <1>2, <1>19, <2>1, CountKept
    <2>2. CASE x # o
      BY <1>2, <1>11, <1>20, <2>2, CountFrame DEF CountInv
    <2> QED
      BY <2>1, <2>2
  <1>22. HeapStep(Null)
    <2>1. \A x \in Obj : SameLife(x)
      BY <1>1, <1>2 DEF SameLife
    <2>2. FieldStep
      BY <1>1, <1>2, <1>4 DEF FieldStep
    <2>3. ~Sealed(o)
      BY <1>4 DEF Sealed, Counted
    <2> QED
      BY <1>20, <2>1, <2>2, <2>3, NullAssumption DEF HeapStep
  <1>23. ListInv'
    <2>1. AsyncStep
      BY <1>1, <1>2 DEF AsyncStep
    <2>2. pc[m] # "insert" /\ pc'[m] # "insert" /\ pc'[m] \notin {"cas", "insert"}
      BY <1>1, <1>7
    <2> QED
      BY <1>0, <1>1, <1>8, <1>10, <1>22, <2>1, <2>2, ListStep
  <1>24. MutatorInv'
    <2>1. \A x \in Obj : held'[m][x] <= MaxHeld
      BY <1>0, <1>3, <1>5, HeldAssumption DEF MutatorInv
    <2>2. ~Operating(m)' /\ ~InGetClone(m)'
      BY <1>1, <1>7 DEF Operating, InGetClone
    <2> QED
      BY <1>0, <1>1, <1>3, <1>8, <2>1, <2>2, OperatingObjects, HoldingStep
  <1> QED
    BY <1>1, <1>10, <1>21, <1>22, <1>23, <1>24, Together

-----------------------------------------------------------------------------
(***************************************************************************)
(* decrement_reference_count and what it calls.                            *)
(***************************************************************************)
\* Thread t makes a step inside decrement_reference_count or leaves it.
DecrementStep(t) ==
  /\ OthersStay(t) /\ pc[t] \in DecrementLabels
  /\ \/ pc'[t] \in DecrementLabels /\ ret'[t] = ret[t]
     \/ pc'[t] = ret[t] /\ ret'[t] = "idle"
  /\ UNCHANGED <<collectorVars, mutatorVars, suspected_object_list, async_release>>

\* The conjuncts of FlowInv such a step can disturb.
LoopsOK(t) ==
  /\ pc[t] \notin WaitLabels => wg_check[t] = {} /\ wg_roots[t] = {} /\ wg_release[t] = {}
  /\ pc[t] \notin WaitLabels \cup {"nrm"} => dr_object[t] = Null
  /\ dr_object[t] = Null => dr_check[t] = {}
  /\ pc[t] = "wtg_done" => wg_check[t] = {}
  /\ pc[t] \in {"wtg", "wtg_null"} => wg_object[t] \in wg_release[t]
  /\ dr_index[t] >= 1 /\ wg_index[t] >= 1

\* Everything else such a step leaves as it is.
LEMMA DecrementFrame ==
  ASSUME Inv, NEW t \in Threads, DecrementStep(t), LoopsOK(t)'
  PROVE  /\ FlowInv' /\ SamePhase /\ MutatorInv'
         /\ \A p, i : GaveUp(p, i)' <=> GaveUp(p, i)
         /\ \A x : Locals(x)' = Locals(x)
         /\ pc[t] # "insert" /\ pc'[t] \notin {"cas", "insert"} /\ ~Operating(t)'
  <1> USE DEF Inv, OwnInv, LockInv
  <1>0. Collector \in Threads /\ Mutators \subseteq Threads /\ Main \notin Mutators
    BY ThreadsAssumption
  <1>1. ret[t] \in {"idle", "release_field"} /\ pc[t] \notin {"cas", "insert", "done"}
    BY DEF DecrementStep, DecrementLabels, WaitLabels, TypeInv, VariablesTyped, RefCountTypeOK, CallTypeOK,
       CallsOK, ReturnLabels
  <1>2. pc'[t] \notin {"cas", "insert", "unlock", "swap"}
    BY <1>1 DEF DecrementStep, DecrementLabels, WaitLabels
  <1>3. SamePhase
    BY <1>0 DEF DecrementStep, OthersStay, SamePhase, FlowInv
  <1>4. FlowInv'
    <2> SUFFICES ASSUME NEW u \in Threads
                 PROVE  /\ LoopsOK(u)'
                        /\ pc'[u] \in {"cas", "insert"} => ret'[u] \in {"unlock", "swap"}
                        /\ u = Collector /\ pc'[u] \in DecrementLabels => ret'[u] = "release_field"
      BY DEF FlowInv, LoopsOK
    <2>1. CASE u = t
      BY <1>1, <1>2, <2>1 DEF DecrementStep, FlowInv, DecrementLabels, WaitLabels
    <2>2. CASE u # t
      BY <2>2 DEF DecrementStep, OthersStay, FlowInv, LoopsOK
    <2> QED
      BY <2>1, <2>2
  <1>5. \A p, i : GaveUp(p, i)' <=> GaveUp(p, i)
    <2>1. InRelease' <=> InRelease
      BY <1>3 DEF SamePhase, InRelease, DecrementLabels, WaitLabels
    <2> QED
      BY <2>1 DEF DecrementStep, GaveUp, collectorVars, rootVars
  <1>6. held' = held /\ par' = par
    BY DEF DecrementStep, mutatorVars
  <1>7. \A x : Locals(x)' = Locals(x)
    BY <1>6, LocalsSame
  <1>8. ~Operating(t)' /\ ~InGetClone(t)'
    BY <1>2 DEF Operating, InGetClone
  <1>9. MutatorInv'
    <2>1. OthersStay(t)
      BY DEF DecrementStep
    <2>2. \A m \in Owners, o \in Obj : held[m][o] <= MaxHeld
      BY DEF MutatorInv
    <2> QED
      BY <1>0, <1>1, <1>6, <1>8, <2>1, <2>2, OperatingObjects, HoldingStep
  <1> QED
    BY <1>1, <1>2, <1>3, <1>4, <1>5, <1>7, <1>8, <1>9

\* What a thread has still to give up is in its hands.
LEMMA OwedHand ==
  ASSUME FlowInv, NEW t \in Threads, NEW p \in Obj, NEW i, Owed(t, p, i)
  PROVE  \E k \in Kinds : Hand(t, k, p)
  BY DEF Owed, Hand, FlowInv, Kinds

\* The hands after a step of thread t, in which it takes d into its hands.
LEMMA HandsStep ==
  ASSUME HandsDying, HandsApart, NEW t \in Threads, DecrementStep(t), NEW d,
         d \in Obj => d \in Kept,
         \A k \in Kinds, o \in Obj : Hand(t, k, o)' =>
           /\ o = d \/ \E l \in Kinds : Hand(t, l, o)
           /\ count'[o] = 0
           /\ k = "rel" => state'[o] = "process_gc"
           /\ k # "rel" => state'[o] = "live"
           /\ k \in {"cur", "check"} => ~Suspected(o)
           /\ \A l \in Kinds : Hand(t, l, o)' => k = l,
         \A o \in Dying : \/ state'[o] = state[o] /\ count'[o] = count[o]
                          \/ \E k \in Kinds : Hand(t, k, o)
  PROVE  HandsDying' /\ HandsApart'
  <1>1. \A u \in Threads \ {t} : \A k, o : Hand(u, k, o)' <=> Hand(u, k, o)
    BY OthersFrame DEF DecrementStep
  <1>2. \A o : Suspected(o)' <=> Suspected(o)
    BY DEF Suspected, DecrementStep
  <1>3. ASSUME NEW u \in Threads \ {t}, NEW k \in Kinds, NEW o \in Obj, Hand(u, k, o)
        PROVE  /\ o \in Dying /\ ~\E l \in Kinds : Hand(t, l, o)
               /\ o # d
    <2>1. o \in Dying
      BY <1>3 DEF HandsDying, Dying
    <2> QED
      BY <1>3, <2>1 DEF HandsApart, Dying, Kept
  <1>4. HandsDying'
    <2> SUFFICES ASSUME NEW u \in Threads, NEW k \in Kinds, NEW o \in Obj, Hand(u, k, o)'
                 PROVE  /\ count'[o] = 0
                        /\ k = "rel" => state'[o] = "process_gc"
                        /\ k # "rel" => state'[o] = "live"
                        /\ k \in {"cur", "check"} => ~Suspected(o)'
      BY DEF HandsDying
    <2>1. CASE u = t
      BY <1>2, <2>1
    <2>2. CASE u # t
      <3>1. Hand(u, k, o)
        BY <1>1, <2>2
      <3>2. state'[o] = state[o] /\ count'[o] = count[o]
        BY <1>3, <2>2, <3>1
      <3> QED
        BY <1>2, <3>1, <3>2 DEF HandsDying
    <2> QED
      BY <2>1, <2>2
  <1>5. HandsApart'
    <2> SUFFICES ASSUME NEW u \in Threads, NEW v \in Threads, NEW k \in Kinds, NEW l \in Kinds,
                        NEW o \in Obj, Hand(u, k, o)', Hand(v, l, o)'
                 PROVE  u = v /\ k = l
      BY DEF HandsApart
    <2>1. CASE u = t /\ v = t
      BY <2>1
    <2>2. CASE u # t /\ v # t
      BY <1>1, <2>2 DEF HandsApart
    <2>3. CASE u = t /\ v # t
      BY <1>1, <1>3, <2>3
    <2>4. CASE u # t /\ v = t
      BY <1>1, <1>3, <2>4
    <2> QED
      BY <2>1, <2>2, <2>3, <2>4
  <1> QED
    BY <1>4, <1>5

\* A dying object is handed on, no reference is given up.
LEMMA HandOverStep ==
  ASSUME Inv, TypeInv', NEW t \in Threads, DecrementStep(t), LoopsOK(t)',
         pc[t] # "dec", pc'[t] # "dec", count' = count, tgt' = tgt,
         \A o \in Obj : \/ state'[o] = state[o]
                        \/ /\ o \in Dying /\ state[o] # "waiting_for_gc"
                           /\ state'[o] # "dead" \/ ~Suspected(o),
         \A p \in Obj, i \in Slots :
           \/ field'[p][i] = field[p][i]
           \/ /\ field'[p][i] = Null /\ p \notin Kept /\ state[p] # "waiting_for_gc"
              /\ \A u \in Threads : ~Owed(u, p, i),
         \A p \in Obj, i \in Slots : field'[p][i] # Null => (Owed(t, p, i)' <=> Owed(t, p, i)),
         HandsDying', HandsApart'
  PROVE  OwnInv'
  <1> USE DEF Inv, OwnInv, LockInv
  <1>1. /\ FlowInv' /\ SamePhase /\ MutatorInv'
        /\ \A p, i : GaveUp(p, i)' <=> GaveUp(p, i)
        /\ \A x : Locals(x)' = Locals(x)
        /\ pc[t] # "insert" /\ pc'[t] \notin {"cas", "insert"} /\ ~Operating(t)'
    BY DecrementFrame
  <1>2. \A u \in Threads \ {t} : /\ \A p, i : Owed(u, p, i)' <=> Owed(u, p, i)
                                 /\ Calling(u)' <=> Calling(u)
    BY OthersFrame DEF DecrementStep
  <1>3. ~Calling(t) /\ ~Calling(t)'
    BY <1>1 DEF Calling, Operating, DecrementStep, DecrementLabels, WaitLabels
  <1>4. \A x : Calls(x)' = Calls(x)
    BY <1>2, <1>3, CallsSame
  <1>5. Kept' = Kept /\ Condemned' = Condemned
    BY DEF Kept, Condemned, Dying
  <1>6. \A p \in Obj, i \in Slots : field'[p][i] # Null => (Carries(p, i)' <=> Carries(p, i))
    BY <1>1, <1>2, <1>5 DEF Carries
  <1>7. \A p \in Obj, i \in Slots : field'[p][i] # field[p][i] => field'[p][i] = Null /\ ~Carries(p, i)
    BY DEF Carries, Condemned
  <1>8. \A x \in Obj : SameTokens(x)
    <2> SUFFICES ASSUME NEW x \in Obj PROVE SameTokens(x)
      OBVIOUS
    <2>1. Fields(x)' = Fields(x)
      BY <1>6, <1>7, NullAssumption, FieldsSame
    <2> QED
      BY <1>1, <1>4, <2>1 DEF SameTokens
  <1>9. CountInv'
    <2> SUFFICES ASSUME NEW o \in Obj PROVE CountOK(o)'
      BY DEF CountInv
    <2>1. CASE state'[o] = state[o]
      BY <1>5, <1>8, <2>1, CountFrame DEF CountInv
    <2>2. CASE state'[o] # state[o]
      BY <1>8, <2>2, CountZero DEF CountInv, Dying
    <2> QED
      BY <2>1, <2>2
  <1>10. HeapStep(Null)
    <2>1. \A x \in Obj : SameLife(x)
      BY DEF SameLife, Dying
    <2>2. FieldStep
      BY DEF FieldStep
    <2> QED
      BY <1>8, <2>1, <2>2, NullAssumption DEF HeapStep
  <1>11. ListInv'
    <2>1. AsyncStep /\ OthersStay(t) /\ UNCHANGED <<collectorVars, suspected_object_list>>
      BY DEF AsyncStep, DecrementStep, Dying
    <2> QED
      BY <1>1, <1>10, <2>1, ListStep
  <1> QED
    BY <1>1, <1>9, <1>10, <1>11, Together DEF DecrementStep

\* Which fields account for references once t has given up one to f, that of
\* field j of a dying object q if q is one.
LEMMA GiveUpCarries ==
  ASSUME Inv, NEW t \in Threads, DecrementStep(t), LoopsOK(t)', NEW f \in Kept, UNCHANGED state,
         count'[f] = count[f] - 1, \A x \in Obj \ {f} : count'[x] = count[x],
         NEW q, NEW j, q \in Obj => Owed(t, q, j),
         \A p \in Obj, i \in Slots :
           Owed(t, p, i)' <=> ((Owed(t, p, i) /\ ~(p = q /\ i = j)) \/ (p = f /\ count[f] = 1))
  PROVE  \A p \in Obj, i \in Slots : Carries(p, i)' <=> (Carries(p, i) /\ ~(p = q /\ i = j))
  <1> USE DEF Inv, OwnInv, LockInv
  <1>0. f \in Obj /\ count[f] \in Nat
    BY SizeAssumption DEF Kept, TypeInv, VariablesTyped, RefCountTypeOK, HeapTypeOK
  <1> SUFFICES ASSUME NEW p \in Obj, NEW i \in Slots
               PROVE  Carries(p, i)' <=> (Carries(p, i) /\ ~(p = q /\ i = j))
    OBVIOUS
  <1>1. GaveUp(p, i)' <=> GaveUp(p, i)
    BY DecrementFrame
  <1>2. \A u \in Threads \ {t} : Owed(u, p, i)' <=> Owed(u, p, i)
    BY OthersFrame DEF DecrementStep
  <1>3. Condemned' = Condemned
    BY <1>0 DEF Condemned, Kept
  <1>4. \A x \in Obj : x \in Kept' <=> (x \in Kept /\ ~(x = f /\ count[f] = 1))
    BY <1>0 DEF Kept
  <1>5. ASSUME p = q /\ i = j
        PROVE  /\ p \notin Kept /\ p \notin Condemned
               /\ \A u \in Threads \ {t} : ~Owed(u, p, i)
    <2>1. Owed(t, p, i)
      BY <1>5
    <2>2. p \notin Kept /\ p \notin Condemned
      BY <2>1, OwedDying
    <2>3. PICK k \in Kinds : Hand(t, k, p)
      BY <2>1, OwedHand
    <2>4. \A u \in Threads \ {t} : ~Owed(u, p, i)
      BY <2>3, OwedHand DEF HandsApart
    <2> QED
      BY <2>2, <2>4
  <1>6. CASE p = q /\ i = j
    <2>1. p # f
      BY <1>5, <1>6
    <2> QED
      BY <1>2, <1>3, <1>4, <1>5, <1>6, <2>1 DEF Carries
  <1>7. CASE ~(p = q /\ i = j)
    BY <1>1, <1>2, <1>3, <1>4, <1>7 DEF Carries
  <1> QED
    BY <1>6, <1>7

\* A reference to f is given up.
LEMMA GiveUpStep ==
  ASSUME Inv, TypeInv', NEW t \in Threads, DecrementStep(t), LoopsOK(t)', NEW f \in Kept,
         UNCHANGED <<state, field>>,
         count'[f] = count[f] - 1, \A x \in Obj \ {f} : count'[x] = count[x],
         Tokens(f)' = Tokens(f) - 1, \A x \in Obj \ {f} : SameTokens(x), ~Sealed(f),
         count[f] = 1 => \A p \in Obj, i \in Slots : <<p, i>> \in Fields(f) => p \in Dying,
         HandsDying', HandsApart'
  PROVE  OwnInv'
  <1> USE DEF Inv, OwnInv, LockInv
  <1>0. f \in Obj /\ count[f] \in Nat /\ count[f] > 0 /\ count[f] = Tokens(f) /\ state[f] = "live"
    BY TokensFinite DEF Kept, CountInv, CountOK
  <1>1. /\ FlowInv' /\ SamePhase /\ MutatorInv'
        /\ pc[t] # "insert" /\ pc'[t] \notin {"cas", "insert"}
    BY DecrementFrame
  <1>2. Condemned' = Condemned
    BY <1>0 DEF Condemned
  <1>3. CountInv'
    <2> SUFFICES ASSUME NEW o \in Obj PROVE CountOK(o)'
      BY DEF CountInv
    <2>1. CASE o = f
      BY <1>0, <2>1, CountKept
    <2>2. CASE o # f
      BY <1>2, <2>2, CountFrame DEF CountInv
    <2> QED
      BY <2>1, <2>2
  <1>4. PICK d : d = IF count[f] = 1 THEN f ELSE Null
    OBVIOUS
  <1>5. HeapStep(d)
    <2>1. \A x \in Obj \ {d} : SameLife(x)
      BY <1>0, <1>4 DEF SameLife
    <2>2. FieldStep
      BY DEF FieldStep
    <2>3. d \in Obj => LastReference(d)
      BY <1>0, <1>4, NullAssumption DEF LastReference
    <2> QED
      BY <2>1, <2>2, <2>3 DEF HeapStep
  <1>6. ListInv'
    <2>1. AsyncStep /\ OthersStay(t) /\ UNCHANGED <<collectorVars, suspected_object_list>>
      BY DEF AsyncStep, DecrementStep
    <2> QED
      BY <1>1, <1>5, <2>1, ListStep
  <1> QED
    BY <1>1, <1>3, <1>5, <1>6, Together DEF DecrementStep

\* What a thread that starts decrement_reference_count has in its hands.
LEMMA EmptyHanded ==
  ASSUME FlowInv, NEW t \in Threads, pc[t] \notin WaitLabels \cup {"nrm"}
  PROVE  \A o \in Obj : /\ \A k \in Kinds : ~Hand(t, k, o)
                        /\ \A i : ~Owed(t, o, i)
  BY NullAssumption DEF FlowInv, Hand, Owed, Kinds, WaitLabels

\* The argument's reference is given up.
LEMMA DecrementReferenceCountOwn ==
  ASSUME Inv, TypeInv', NEW t \in Threads, DecrementReferenceCount(t),
         UNCHANGED <<collectorVars, mutatorVars>>
  PROVE  OwnInv'
  <1> USE DEF Inv, OwnInv, LockInv
  <1>1. PICK o : o = tgt[t]
    OBVIOUS
  <1>2. /\ pc[t] = "dec" /\ o \in Obj
        /\ count' = [count EXCEPT ![o] = FetchSub(@)] /\ tgt' = [tgt EXCEPT ![t] = Null]
        /\ UNCHANGED <<state, async_release, lock_flag, field, suspected_object_list>>
    BY <1>1 DEF DecrementReferenceCount, TypeInv, CallsOK
  <1>3. t \in Calls(o)
    BY <1>1, <1>2 DEF Calls
  <1>4. o \in Kept /\ count[o] = Tokens(o) /\ ~Sealed(o)
    BY <1>2, <1>3, HolderKeeps DEF Sealed
  <1>5. count[o] > 0 /\ count[o] \in Nat /\ state[o] = "live"
    BY <1>4, TokensFinite DEF Kept
  <1>6. /\ count'[o] = count[o] - 1 /\ \A x \in Obj \ {o} : count'[x] = count[x]
        /\ tgt'[t] = Null /\ \A u \in Threads \ {t} : tgt'[u] = tgt[u]
    BY <1>2, <1>5 DEF FetchSub, TypeInv, VariablesTyped, RefCountTypeOK, HeapTypeOK, CallTypeOK
  <1>7. /\ dr_object[t] = Null /\ dr_check[t] = {} /\ wg_check[t] = {} /\ wg_roots[t] = {}
        /\ wg_release[t] = {} /\ dr_index[t] >= 1 /\ wg_index[t] >= 1
    BY <1>2 DEF FlowInv, WaitLabels
  <1>8. /\ \A u \in Threads \ {t} :
             /\ pc'[u] = pc[u] /\ ret'[u] = ret[u]
             /\ dr_object'[u] = dr_object[u] /\ dr_index'[u] = dr_index[u]
             /\ dr_check'[u] = dr_check[u]
             /\ wg_object'[u] = wg_object[u] /\ wg_index'[u] = wg_index[u]
             /\ wg_check'[u] = wg_check[u]
             /\ wg_release'[u] = wg_release[u] /\ wg_roots'[u] = wg_roots[u]
        /\ wg_check'[t] = {} /\ wg_roots'[t] = {} /\ wg_release'[t] = {} /\ dr_check'[t] = {}
        /\ dr_index'[t] >= 1 /\ wg_index'[t] >= 1
        /\ \/ count[o] # 1 /\ pc'[t] = ret[t] /\ ret'[t] = "idle" /\ dr_object'[t] = Null
           \/ /\ count[o] = 1 /\ Suspected(o) /\ pc'[t] = "wtg_mark" /\ ret'[t] = ret[t]
              /\ wg_object'[t] = o /\ dr_object'[t] = Null
           \/ /\ count[o] = 1 /\ ~Suspected(o) /\ pc'[t] = "nrm" /\ ret'[t] = ret[t]
              /\ dr_object'[t] = o /\ dr_index'[t] = 1
    <2> USE DEF TypeInv, VariablesTyped, RefCountTypeOK, CallTypeOK, LoopTypeOK, WaitTypeOK
    <2>1. CASE count[o] # 1
      <3>1. /\ pc' = [pc EXCEPT ![t] = ret[t]] /\ ret' = [ret EXCEPT ![t] = "idle"]
            /\ UNCHANGED <<loopVars, waitVars>>
        BY <1>1, <2>1 DEF DecrementReferenceCount, Return
      <3> QED
        BY <1>7, <2>1, <3>1 DEF loopVars, waitVars
    <2>2. CASE count[o] = 1 /\ Suspected(o)
      <3>1. /\ pc' = [pc EXCEPT ![t] = "wtg_mark"] /\ SetWait(t, o, 1, {}, {}, {})
            /\ UNCHANGED <<ret, loopVars>>
        BY <1>1, <2>2 DEF DecrementReferenceCount, Goto
      <3> QED
        BY <1>7, <2>2, <3>1 DEF loopVars, SetWait
    <2>3. CASE count[o] = 1 /\ ~Suspected(o)
      <3>1. /\ pc' = [pc EXCEPT ![t] = "nrm"] /\ SetLoop(t, o, 1, {})
            /\ UNCHANGED <<ret, waitVars>>
        BY <1>1, <2>3 DEF DecrementReferenceCount, Goto
      <3> QED
        BY <1>7, <2>3, <3>1 DEF waitVars, SetLoop
    <2> QED
      BY <2>1, <2>2, <2>3
  <1>9. ret[t] \in {"idle", "release_field"} /\ o # Null
    BY <1>2, NullAssumption DEF TypeInv, VariablesTyped, RefCountTypeOK, CallTypeOK, CallsOK, ReturnLabels
  <1>10. DecrementStep(t)
    BY <1>2, <1>6, <1>8 DEF DecrementStep, DecrementLabels, WaitLabels, OthersStay
  <1>11. LoopsOK(t)'
    BY <1>8, <1>9 DEF LoopsOK, WaitLabels
  <1>12. \A p \in Obj, i \in Slots : Owed(t, p, i)' <=> (p = o /\ count[o] = 1)
    BY <1>8, <1>9, NullAssumption DEF Owed, Slots
  <1>13. \A p \in Obj, i \in Slots : Carries(p, i)' <=> Carries(p, i)
    <2>1. \A p \in Obj, i \in Slots : ~Owed(t, p, i)
      BY <1>2, EmptyHanded DEF WaitLabels
    <2>2. \A p \in Obj, i \in Slots :
            Owed(t, p, i)' <=> ((Owed(t, p, i) /\ ~(p = Null /\ i = 1)) \/ (p = o /\ count[o] = 1))
      BY <1>12, <2>1
    <2>3. \A p \in Obj, i \in Slots : Carries(p, i)' <=> (Carries(p, i) /\ ~(p = Null /\ i = 1))
      BY <1>2, <1>4, <1>6, <1>10, <1>11, <2>2, NullAssumption, GiveUpCarries
    <2> QED
      BY <2>3, NullAssumption
  <1>14. \A x : Fields(x)' = Fields(x)
    BY <1>2, <1>13, FieldsSame
  <1>15. \A x : Locals(x)' = Locals(x)
    BY <1>10, <1>11, DecrementFrame
  <1>16. \A u \in Threads \ {t} : Calling(u)' <=> Calling(u)
    BY <1>10, OthersFrame DEF DecrementStep
  <1>17. Calls(o)' = Calls(o) \ {t}
    BY <1>6, <1>9, <1>16, CallsMinus
  <1>18. \A x \in Obj \ {o} : Calls(x)' = Calls(x)
    BY <1>1, <1>6, <1>16, NullAssumption, CallsSame
  <1>19. Tokens(o)' = Tokens(o) - 1
    BY <1>3, <1>14, <1>15, <1>17, TokensMinusCall
  <1>20. \A x \in Obj \ {o} : SameTokens(x)
    BY <1>14, <1>15, <1>18 DEF SameTokens
  <1>21. count[o] = 1 => \A p \in Obj, i \in Slots : <<p, i>> \in Fields(o) => p \in Dying
    BY <1>3, <1>4, OnlyToken
  <1>22. HandsDying' /\ HandsApart'
    <2>1. \A k \in Kinds, x \in Obj : Hand(t, k, x)' =>
            /\ x = o /\ count[o] = 1
            /\ k = IF Suspected(o) THEN "mark" ELSE "cur"
      BY <1>8, <1>9, NullAssumption DEF Hand, Kinds
    <2>2. \A x \in Dying : state'[x] = state[x] /\ count'[x] = count[x]
      BY <1>2, <1>5, <1>6 DEF Dying
    <2> QED
      BY <1>2, <1>4, <1>5, <1>6, <1>10, <2>1, <2>2, HandsStep
  <1> QED
    BY <1>2, <1>4, <1>6, <1>10, <1>11, <1>19, <1>20, <1>21, <1>22, GiveUpStep

\* What a thread has still to give up is a reference to an object in use.
LEMMA OwedField ==
  ASSUME Inv, NEW t \in Threads, NEW p \in Obj, NEW j \in Slots, Owed(t, p, j),
         NEW f, field[p][j] = f, f # Null
  PROVE  /\ f \in Kept /\ f \in Obj /\ <<p, j>> \in Fields(f)
         /\ count[f] = Tokens(f) /\ count[f] \in Nat /\ count[f] > 0 /\ state[f] = "live" /\ f # p
  <1> USE DEF Inv, OwnInv, LockInv
  <1>1. p \in Dying /\ p \notin Kept /\ p \notin Condemned
    BY OwedDying
  <1>2. Carries(p, j)
    BY DEF Carries
  <1>3. f \in Kept /\ <<p, j>> \in Fields(f) /\ count[f] = Tokens(f)
    BY <1>1, <1>2, CarriedKept
  <1> QED
    BY <1>1, <1>3, TokensFinite DEF Kept

\* The reference in field j of a dying object is given up.
LEMMA GiveUpFieldStep ==
  ASSUME Inv, TypeInv', NEW t \in Threads, DecrementStep(t), LoopsOK(t)',
         pc[t] # "dec", pc'[t] # "dec", UNCHANGED <<state, field, tgt>>,
         NEW p \in Obj, NEW j \in Slots, Owed(t, p, j), NEW f \in Obj, field[p][j] = f,
         count'[f] = count[f] - 1, \A x \in Obj \ {f} : count'[x] = count[x],
         \A q \in Obj, i \in Slots :
           Owed(t, q, i)' <=> ((Owed(t, q, i) /\ ~(q = p /\ i = j)) \/ (q = f /\ count[f] = 1)),
         HandsDying', HandsApart'
  PROVE  OwnInv'
  <1> USE DEF Inv, OwnInv, LockInv
  <1>1. /\ f \in Kept /\ f \in Obj /\ count[f] = Tokens(f) /\ <<p, j>> \in Fields(f)
    BY NullAssumption, OwedField
  <1>2. PICK e : e = <<p, j>>
    OBVIOUS
  <1>3. \A q \in Obj, i \in Slots : Carries(q, i)' <=> (Carries(q, i) /\ ~(q = p /\ i = j))
    <2>1. UNCHANGED state
      OBVIOUS
    <2> QED
      BY <1>1, <2>1, GiveUpCarries
  <1>4. Fields(f)' = Fields(f) \ {e}
    BY <1>2, <1>3, FieldsMinus
  <1>5. \A x \in Obj \ {f} : Fields(x)' = Fields(x)
    BY <1>3, FieldsSame
  <1>6. (\A x : Locals(x)' = Locals(x)) /\ ~Operating(t)'
    BY DecrementFrame
  <1>7. \A u \in Threads \ {t} : Calling(u)' <=> Calling(u)
    BY OthersFrame DEF DecrementStep
  <1>8. ~Calling(t) /\ ~Calling(t)'
    BY <1>6 DEF Calling, Operating, DecrementStep, DecrementLabels, WaitLabels
  <1>9. \A x : Calls(x)' = Calls(x)
    BY <1>7, <1>8, CallsSame
  <1>10. Tokens(f)' = Tokens(f) - 1
    BY <1>1, <1>2, <1>4, <1>6, <1>9, TokensMinusField
  <1>11. \A x \in Obj \ {f} : SameTokens(x)
    BY <1>5, <1>6, <1>9 DEF SameTokens
  <1>12. p \in Dying /\ p \notin Counted
    BY OwedDying DEF Counted
  <1>13. ~Sealed(f)
    BY <1>1, <1>12 DEF Sealed
  <1>14. count[f] = 1 => \A q \in Obj, i \in Slots : <<q, i>> \in Fields(f) => q \in Dying
    <2> SUFFICES ASSUME count[f] = 1, NEW q \in Obj, NEW i \in Slots, <<q, i>> \in Fields(f)
                 PROVE  q \in Dying
      OBVIOUS
    <2>1. Fields(f) = {<<p, j>>}
      BY <1>1, OnlyToken
    <2> QED
      BY <1>12, <2>1
  <1> QED
    BY <1>1, <1>10, <1>11, <1>13, <1>14, GiveUpStep

\* One field of an unsuspected dying object.
LEMMA DecrementFieldOwn ==
  ASSUME Inv, TypeInv', NEW t \in Threads, DecrementField(t),
         UNCHANGED <<collectorVars, mutatorVars>>
  PROVE  OwnInv'
  <1> USE DEF Inv, OwnInv, LockInv
  <1>1. PICK p, j, f, check : p = dr_object[t] /\ j = dr_index[t] /\ f = field[p][j] /\ check = dr_check[t]
    OBVIOUS
  <1>2. /\ pc[t] = "nrm" /\ p \in Obj /\ j \in Slots /\ check \in SUBSET Obj
        /\ wg_check[t] = {} /\ wg_roots[t] = {} /\ wg_release[t] = {} /\ wg_index[t] >= 1
        /\ UNCHANGED <<state, async_release, lock_flag, field, suspected_object_list, ret, tgt>>
    BY <1>1 DEF DecrementField, TypeInv, VariablesTyped, RefCountTypeOK, LoopTypeOK, CallsOK, FlowInv, WaitLabels
  <1>3. Owed(t, p, j) /\ p # Null
    BY <1>1, <1>2, NullAssumption DEF Owed, Slots
  <1>4. f # Null => /\ f \in Kept /\ f \in Obj /\ count[f] \in Nat /\ count[f] > 0
                    /\ state[f] = "live" /\ f # p
    <2>1. p \in Obj /\ j \in Slots /\ Owed(t, p, j) /\ field[p][j] = f
      BY <1>1, <1>2, <1>3
    <2> HIDE DEF Inv, OwnInv, LockInv
    <2> SUFFICES ASSUME f # Null
                 PROVE  /\ f \in Kept /\ f \in Obj /\ count[f] \in Nat /\ count[f] > 0
                        /\ state[f] = "live" /\ f # p
      OBVIOUS
    <2> QED
      BY ONLY <2>1, f # Null, Inv, t \in Threads, OwedField, Zenon
  <1>5. /\ \A u \in Threads \ {t} :
             /\ pc'[u] = pc[u] /\ ret'[u] = ret[u] /\ tgt'[u] = tgt[u]
             /\ dr_object'[u] = dr_object[u] /\ dr_index'[u] = dr_index[u]
             /\ dr_check'[u] = dr_check[u]
             /\ wg_object'[u] = wg_object[u] /\ wg_index'[u] = wg_index[u]
             /\ wg_check'[u] = wg_check[u]
             /\ wg_release'[u] = wg_release[u] /\ wg_roots'[u] = wg_roots[u]
        /\ wg_check'[t] = {} /\ wg_roots'[t] = {} /\ wg_release'[t] = {}
        /\ dr_object'[t] = p /\ dr_index'[t] = j + 1 /\ wg_index'[t] >= 1
        /\ \/ f = Null /\ count' = count /\ pc'[t] = "nrm" /\ dr_check'[t] = check
           \/ f # Null /\ count[f] # 1 /\ pc'[t] = "nrm" /\ dr_check'[t] = check
           \/ f # Null /\ count[f] = 1 /\ ~Suspected(f) /\ pc'[t] = "nrm" /\ dr_check'[t] = check \cup {f}
           \/ /\ f # Null /\ count[f] = 1 /\ Suspected(f) /\ pc'[t] = "wtg_mark"
              /\ dr_check'[t] = check /\ wg_object'[t] = f
    <2> USE DEF TypeInv, VariablesTyped, RefCountTypeOK, CallTypeOK, LoopTypeOK, WaitTypeOK
    <2>1. CASE f = Null
      <3>1. SetLoop(t, p, j + 1, check) /\ UNCHANGED <<count, waitVars, pc>>
        BY <1>1, <2>1 DEF DecrementField
      <3> QED
        BY <1>2, <2>1, <3>1 DEF waitVars, SetLoop
    <2>2. CASE f # Null /\ count[f] # 1
      <3>1. SetLoop(t, p, j + 1, check) /\ UNCHANGED <<waitVars, pc>>
        BY <1>1, <2>2 DEF DecrementField
      <3> QED
        BY <1>2, <2>2, <3>1 DEF waitVars, SetLoop
    <2>3. CASE f # Null /\ count[f] = 1 /\ ~Suspected(f)
      <3>1. SetLoop(t, p, j + 1, check \cup {f}) /\ UNCHANGED <<waitVars, pc>>
        BY <1>1, <2>3 DEF DecrementField
      <3> QED
        BY <1>2, <2>3, <3>1 DEF waitVars, SetLoop
    <2>4. CASE f # Null /\ count[f] = 1 /\ Suspected(f)
      <3>1. /\ SetLoop(t, p, j + 1, check) /\ SetWait(t, f, 1, {}, {}, {})
            /\ pc' = [pc EXCEPT ![t] = "wtg_mark"]
        BY <1>1, <2>4 DEF DecrementField, Goto
      <3> QED
        BY <1>2, <2>4, <3>1 DEF SetWait, SetLoop
    <2> QED
      BY <2>1, <2>2, <2>3, <2>4
  <1>6. DecrementStep(t)
    BY <1>2, <1>5 DEF DecrementStep, DecrementLabels, WaitLabels, OthersStay
  <1>7. LoopsOK(t)'
    BY <1>2, <1>3, <1>5 DEF LoopsOK, WaitLabels, Slots
  <1>8. pc[t] # "dec" /\ pc'[t] # "dec"
    BY <1>2, <1>5
  <1>9. /\ Hand(t, "cur", p) /\ count[p] = 0 /\ state[p] = "live" /\ ~Suspected(p)
        /\ \A q \in check : /\ q \in Obj /\ Hand(t, "check", q) /\ q # p
                            /\ count[q] = 0 /\ state[q] = "live" /\ ~Suspected(q)
    <2>1. Hand(t, "cur", p) /\ \A q \in check : Hand(t, "check", q)
      BY <1>1 DEF Hand
    <2>2. "cur" \in Kinds /\ "check" \in Kinds /\ "cur" # "check"
      BY DEF Kinds
    <2>3. \A q \in check : q # p
      BY <1>2, <2>1, <2>2 DEF HandsApart
    <2> QED
      BY <1>2, <2>1, <2>2, <2>3 DEF HandsDying
  <1>10. \A q \in Obj, i \in Slots :
           Owed(t, q, i)' <=> ((Owed(t, q, i) /\ ~(q = p /\ i = j)) \/ (f # Null /\ q = f /\ count[f] = 1))
    <2>1. \A q \in Obj, i \in Slots : Owed(t, q, i) <=> (q = p /\ i >= j) \/ q \in check
      BY <1>1, <1>2 DEF Owed
    <2>2. \A q \in Obj, i \in Slots :
            Owed(t, q, i)' <=> (q = p /\ i >= j + 1) \/ q \in check \/ (f # Null /\ q = f /\ count[f] = 1)
      BY <1>5 DEF Owed
    <2>3. \A i \in Slots : i >= j + 1 <=> i >= j /\ i # j
      BY <1>2 DEF Slots
    <2> QED
      BY <1>4, <1>9, <2>1, <2>2, <2>3
  <1>11. ASSUME NEW c, c = (f # Null /\ count[f] = 1)
         PROVE  \A k \in Kinds, o \in Obj : Hand(t, k, o)' <=>
                  \/ k = "cur" /\ o = p
                  \/ k = "check" /\ (o \in check \/ (c /\ o = f /\ ~Suspected(f)))
                  \/ k = "mark" /\ c /\ o = f /\ Suspected(f)
    BY <1>5, <1>11 DEF Hand
  <1>12. PICK c : c = (f # Null /\ count[f] = 1)
    OBVIOUS
  <1>13. \A k \in Kinds, o \in Obj : Hand(t, k, o)' <=>
                  \/ k = "cur" /\ o = p
                  \/ k = "check" /\ (o \in check \/ (c /\ o = f /\ ~Suspected(f)))
                  \/ k = "mark" /\ c /\ o = f /\ Suspected(f)
    BY <1>11, <1>12
  <1>14. CASE f = Null
    <2>1. HandsDying' /\ HandsApart'
      <3>1. \A k \in Kinds, o \in Obj : Hand(t, k, o)' =>
           /\ o = Null \/ \E l \in Kinds : Hand(t, l, o)
           /\ count'[o] = 0
           /\ k = "rel" => state'[o] = "process_gc"
           /\ k # "rel" => state'[o] = "live"
           /\ k \in {"cur", "check"} => ~Suspected(o)
           /\ \A l \in Kinds : Hand(t, l, o)' => k = l
        <4> SUFFICES ASSUME NEW k \in Kinds, NEW o \in Obj, Hand(t, k, o)'
                     PROVE  /\ \E l \in Kinds : Hand(t, l, o)
                            /\ count'[o] = 0 /\ k \in {"cur", "check"} /\ state'[o] = "live"
                            /\ ~Suspected(o)
                            /\ \A l \in Kinds : Hand(t, l, o)' => k = l
          OBVIOUS
        <4>1. (k = "cur" /\ o = p) \/ (k = "check" /\ o \in check)
          BY <1>12, <1>13, <1>14
        <4>2. \A l \in Kinds : Hand(t, l, o)' => (l = "cur" /\ o = p) \/ (l = "check" /\ o \in check)
          BY <1>12, <1>13, <1>14
        <4>3. state' = state /\ count' = count
          BY <1>2, <1>5, <1>14
        <4> QED
          BY <1>9, <4>1, <4>2, <4>3
      <3>2. \A o \in Dying : state'[o] = state[o] /\ count'[o] = count[o]
        BY <1>2, <1>5, <1>14
      <3> QED
        BY <1>6, <3>1, <3>2, NullAssumption, HandsStep
    <2>2. \A q \in Obj, i \in Slots : field'[q][i] # Null => (Owed(t, q, i)' <=> Owed(t, q, i))
      BY <1>1, <1>2, <1>10, <1>14
    <2> QED
      BY <1>2, <1>5, <1>6, <1>7, <1>8, <1>14, <2>1, <2>2, HandOverStep
  <1>15. CASE f # Null
    <2>1. count' = [count EXCEPT ![f] = FetchSub(@)]
      BY <1>1, <1>15 DEF DecrementField
    <2>2. count'[f] = count[f] - 1 /\ \A x \in Obj \ {f} : count'[x] = count[x]
      BY <1>4, <1>15, <2>1 DEF FetchSub, TypeInv, VariablesTyped, RefCountTypeOK, HeapTypeOK
    <2>3. HandsDying' /\ HandsApart'
      <3>1. \A q \in check : q # f
        BY <1>4, <1>9, <1>15
      <3>2. \A k \in Kinds, o \in Obj : Hand(t, k, o)' =>
           /\ o = f \/ \E l \in Kinds : Hand(t, l, o)
           /\ count'[o] = 0
           /\ k = "rel" => state'[o] = "process_gc"
           /\ k # "rel" => state'[o] = "live"
           /\ k \in {"cur", "check"} => ~Suspected(o)
           /\ \A l \in Kinds : Hand(t, l, o)' => k = l
        <4> SUFFICES ASSUME NEW k \in Kinds, NEW o \in Obj, Hand(t, k, o)'
                     PROVE  /\ o = f \/ \E l \in Kinds : Hand(t, l, o)
                            /\ count'[o] = 0 /\ k # "rel" /\ state'[o] = "live"
                            /\ k \in {"cur", "check"} => ~Suspected(o)
                            /\ \A l \in Kinds : Hand(t, l, o)' => k = l
          OBVIOUS
        <4>1. state' = state
          BY <1>2
        <4>2. CASE o = f
          <5>1. f \in Obj /\ f # p /\ f \notin check /\ count[f] \in Nat /\ state[f] = "live"
            BY <1>4, <1>15, <3>1
          <5>2. \A l \in Kinds : Hand(t, l, f)' =>
                  count[f] = 1 /\ l = IF Suspected(f) THEN "mark" ELSE "check"
            BY <1>12, <1>13, <5>1
          <5>3. count[f] = 1 /\ k = IF Suspected(f) THEN "mark" ELSE "check"
            BY <4>2, <5>2
          <5>4. count'[f] = 0 /\ state'[f] = "live"
            BY <2>2, <4>1, <5>1, <5>3
          <5> QED
            BY <4>2, <5>2, <5>3, <5>4
        <4>3. CASE o # f
          <5>1. \A l \in Kinds : Hand(t, l, o)' => (l = "cur" /\ o = p) \/ (l = "check" /\ o \in check)
            BY <1>13, <4>3
          <5>2. count'[o] = count[o]
            BY <2>2, <4>3
          <5> QED
            BY <1>9, <4>1, <5>1, <5>2
        <4> QED
          BY <4>2, <4>3
      <3>3. \A o \in Dying : state'[o] = state[o] /\ count'[o] = count[o]
        BY <1>2, <1>4, <1>15, <2>2 DEF Dying
      <3> QED
        BY <1>4, <1>6, <1>15, <3>2, <3>3, HandsStep
    <2>4. \A q \in Obj, i \in Slots :
           Owed(t, q, i)' <=> ((Owed(t, q, i) /\ ~(q = p /\ i = j)) \/ (q = f /\ count[f] = 1))
      BY <1>10, <1>15
    <2>5. p \in Obj /\ j \in Slots /\ f \in Obj /\ field[p][j] = f /\ Owed(t, p, j)
      BY <1>1, <1>2, <1>3, <1>4, <1>15
    <2>6. UNCHANGED <<state, field, tgt>>
      BY <1>2
    <2> QED
      BY <1>6, <1>7, <1>8, <2>2, <2>3, <2>4, <2>5, <2>6, GiveUpFieldStep
  <1> QED
    BY <1>14, <1>15

\* What SetLoop and SetWait do.
LEMMA SetLoopEffect ==
  ASSUME TypeInv, NEW t \in Threads, NEW o, NEW i, NEW check, SetLoop(t, o, i, check)
  PROVE  /\ dr_object'[t] = o /\ dr_index'[t] = i /\ dr_check'[t] = check
         /\ \A u \in Threads \ {t} : /\ dr_object'[u] = dr_object[u] /\ dr_index'[u] = dr_index[u]
                                     /\ dr_check'[u] = dr_check[u]
  BY DEF SetLoop, TypeInv, VariablesTyped, RefCountTypeOK, LoopTypeOK

\* What SetWait does to the locals of the thread.
LEMMA SetWaitEffect ==
  ASSUME TypeInv, NEW t \in Threads, NEW o, NEW i, NEW check, NEW release, NEW next,
         SetWait(t, o, i, check, release, next)
  PROVE  /\ wg_object'[t] = o /\ wg_index'[t] = i /\ wg_check'[t] = check
         /\ wg_release'[t] = release /\ wg_roots'[t] = next
         /\ \A u \in Threads \ {t} : /\ wg_object'[u] = wg_object[u] /\ wg_index'[u] = wg_index[u]
                                     /\ wg_check'[u] = wg_check[u]
                                     /\ wg_release'[u] = wg_release[u] /\ wg_roots'[u] = wg_roots[u]
  BY DEF SetWait, TypeInv, VariablesTyped, RefCountTypeOK, WaitTypeOK

\* A dying object that is not suspected goes back to the allocator.
LEMMA StoreDeadOwn ==
  ASSUME Inv, TypeInv', NEW t \in Threads, StoreDead(t), UNCHANGED <<collectorVars, mutatorVars>>
  PROVE  OwnInv'
  <1> USE DEF Inv, OwnInv, LockInv
  <1>1. PICK p, j, check : p = dr_object[t] /\ j = dr_index[t] /\ check = dr_check[t]
    OBVIOUS
  <1>2. /\ pc[t] = "nrm" /\ p \in Obj /\ j \notin Slots /\ check \in SUBSET Obj
        /\ wg_check[t] = {} /\ wg_roots[t] = {} /\ wg_release[t] = {} /\ wg_index[t] >= 1
        /\ state' = [state EXCEPT ![p] = "dead"]
        /\ UNCHANGED <<count, async_release, lock_flag, field, suspected_object_list, tgt, waitVars>>
    BY <1>1 DEF StoreDead, TypeInv, VariablesTyped, RefCountTypeOK, LoopTypeOK, CallsOK, FlowInv, WaitLabels
  <1>3. j \in Nat /\ j >= 1 /\ \A i \in Slots : ~(i >= j) /\ i >= 1
    BY <1>1, <1>2, SlotsAssumption DEF FlowInv, Slots, TypeInv, VariablesTyped, RefCountTypeOK, LoopTypeOK
  <1>4. PICK o, rest, after :
          /\ SetLoop(t, o, 1, rest)
          /\ \/ check = {} /\ o = Null /\ rest = {} /\ after = ret[t] /\ Return(t)
             \/ o \in check /\ rest = check \ {o} /\ after = "nrm" /\ UNCHANGED <<pc, ret>>
    BY <1>1 DEF StoreDead
  <1>5. /\ dr_object'[t] = o /\ dr_index'[t] = 1 /\ dr_check'[t] = rest
        /\ \A u \in Threads \ {t} : /\ dr_object'[u] = dr_object[u] /\ dr_index'[u] = dr_index[u]
                                    /\ dr_check'[u] = dr_check[u]
    BY <1>4, SetLoopEffect
  <1>6. /\ pc'[t] = after /\ \A u \in Threads \ {t} : pc'[u] = pc[u] /\ ret'[u] = ret[u]
        /\ \/ after = "nrm" /\ o \in check /\ rest = check \ {o} /\ ret'[t] = ret[t]
           \/ after = ret[t] /\ o = Null /\ check = {} /\ rest = {} /\ ret'[t] = "idle"
    BY <1>2, <1>4 DEF Return, TypeInv, VariablesTyped, RefCountTypeOK, CallTypeOK
  <1>7. after \in {"nrm", "idle", "release_field"}
    BY <1>2, <1>6 DEF TypeInv, VariablesTyped, RefCountTypeOK, CallTypeOK, CallsOK, ReturnLabels
  <1>8. /\ state'[p] = "dead" /\ \A x \in Obj \ {p} : state'[x] = state[x]
        /\ wg_check'[t] = {} /\ wg_roots'[t] = {} /\ wg_release'[t] = {} /\ wg_index'[t] >= 1
    BY <1>2 DEF TypeInv, VariablesTyped, RefCountTypeOK, HeapTypeOK, waitVars
  <1>9. DecrementStep(t)
    BY <1>2, <1>5, <1>6 DEF DecrementStep, DecrementLabels, WaitLabels, OthersStay, waitVars
  <1>10. LoopsOK(t)'
    BY <1>2, <1>5, <1>6, <1>7, <1>8, NullAssumption DEF LoopsOK, WaitLabels
  <1>11. /\ Hand(t, "cur", p) /\ count[p] = 0 /\ state[p] = "live" /\ ~Suspected(p)
         /\ \A q \in check : /\ q \in Obj /\ Hand(t, "check", q) /\ q # p
                             /\ count[q] = 0 /\ state[q] = "live" /\ ~Suspected(q)
    <2>1. Hand(t, "cur", p) /\ \A q \in check : Hand(t, "check", q)
      BY <1>1 DEF Hand
    <2>2. "cur" \in Kinds /\ "check" \in Kinds /\ "cur" # "check"
      BY DEF Kinds
    <2>3. \A q \in check : q # p
      BY <1>2, <2>1, <2>2 DEF HandsApart
    <2> QED
      BY <1>2, <2>1, <2>2, <2>3 DEF HandsDying
  <1>12. \A q \in Obj, i \in Slots : Owed(t, q, i)' <=> Owed(t, q, i)
    <2>1. \A q \in Obj, i \in Slots : Owed(t, q, i) <=> q \in check
      BY <1>1, <1>2, <1>3 DEF Owed
    <2>2. \A q \in Obj, i \in Slots : Owed(t, q, i)' <=> q = o \/ q \in rest
      BY <1>3, <1>5, <1>7, <1>6, <1>8 DEF Owed
    <2> QED
      BY <1>6, <2>1, <2>2, NullAssumption
  <1>13. \A k \in Kinds, q \in Obj : Hand(t, k, q)' <=> (k = "cur" /\ q = o) \/ (k = "check" /\ q \in rest)
    BY <1>5, <1>7, <1>6, <1>8 DEF Hand
  <1>14. HandsDying' /\ HandsApart'
    <2>1. \A k \in Kinds, q \in Obj : Hand(t, k, q)' =>
            /\ \E l \in Kinds : Hand(t, l, q)
            /\ count'[q] = 0 /\ state'[q] = "live" /\ ~Suspected(q) /\ k # "rel"
            /\ \A l \in Kinds : Hand(t, l, q)' => k = l
      <3> SUFFICES ASSUME NEW k \in Kinds, NEW q \in Obj, Hand(t, k, q)'
                   PROVE  /\ \E l \in Kinds : Hand(t, l, q)
                          /\ count'[q] = 0 /\ state'[q] = "live" /\ ~Suspected(q) /\ k # "rel"
                          /\ \A l \in Kinds : Hand(t, l, q)' => k = l
        OBVIOUS
      <3>1. q \in check /\ k # "rel" /\ \A l \in Kinds : Hand(t, l, q)' => k = l
        BY <1>6, <1>13, NullAssumption
      <3> QED
        BY <1>2, <1>8, <1>11, <3>1 DEF Kinds
    <2>2. \A q \in Dying : \/ state'[q] = state[q] /\ count'[q] = count[q]
                           \/ \E k \in Kinds : Hand(t, k, q)
      BY <1>2, <1>8, <1>11 DEF Dying, Kinds
    <2> QED
      BY <1>9, <2>1, <2>2, NullAssumption, HandsStep
  <1>15. \A x \in Obj : \/ state'[x] = state[x]
                        \/ /\ x \in Dying /\ state[x] # "waiting_for_gc"
                           /\ state'[x] # "dead" \/ ~Suspected(x)
    BY <1>2, <1>8, <1>11 DEF Dying
  <1>16. pc[t] # "dec" /\ pc'[t] # "dec"
    BY <1>2, <1>6, <1>7
  <1> QED
    BY <1>2, <1>9, <1>10, <1>12, <1>14, <1>15, <1>16, HandOverStep

\* A suspected dying object, or one below it, is taken up for the collector.
LEMMA WaitingMarkOwn ==
  ASSUME Inv, TypeInv', NEW t \in Threads, WaitingMark(t), UNCHANGED <<collectorVars, mutatorVars>>
  PROVE  OwnInv'
  <1> USE DEF Inv, OwnInv, LockInv
  <1>1. PICK p, check, release, next : /\ p = wg_object[t] /\ check = wg_check[t]
                                       /\ release = wg_release[t] /\ next = wg_roots[t]
    OBVIOUS
  <1>2. /\ pc[t] = "wtg_mark" /\ p \in Obj
        /\ state' = [state EXCEPT ![p] = "process_gc"]
        /\ pc' = [pc EXCEPT ![t] = "wtg"]
        /\ SetWait(t, p, 1, check, release \cup {p}, next)
        /\ UNCHANGED <<count, async_release, lock_flag, field, suspected_object_list, ret, tgt, loopVars>>
    BY <1>1 DEF WaitingMark, TypeInv, CallsOK, Goto
  <1>3. /\ wg_object'[t] = p /\ wg_index'[t] = 1 /\ wg_check'[t] = check
        /\ wg_release'[t] = release \cup {p} /\ wg_roots'[t] = next
        /\ \A u \in Threads \ {t} : /\ wg_object'[u] = wg_object[u] /\ wg_index'[u] = wg_index[u]
                                    /\ wg_check'[u] = wg_check[u]
                                    /\ wg_release'[u] = wg_release[u] /\ wg_roots'[u] = wg_roots[u]
    BY <1>2, SetWaitEffect
  <1>4. /\ pc'[t] = "wtg" /\ \A u \in Threads \ {t} : pc'[u] = pc[u]
        /\ state'[p] = "process_gc" /\ \A x \in Obj \ {p} : state'[x] = state[x]
        /\ dr_object' = dr_object /\ dr_index' = dr_index /\ dr_check' = dr_check
    BY <1>2 DEF TypeInv, VariablesTyped, RefCountTypeOK, CallTypeOK, HeapTypeOK, loopVars
  <1>5. DecrementStep(t)
    BY <1>2, <1>3, <1>4 DEF DecrementStep, DecrementLabels, WaitLabels, OthersStay
  <1>6. LoopsOK(t)'
    BY <1>2, <1>3, <1>4 DEF LoopsOK, WaitLabels, FlowInv
  <1>7. \A q \in Obj, i \in Slots : Owed(t, q, i)' <=> Owed(t, q, i)
    BY <1>1, <1>2, <1>3, <1>4 DEF Owed, Slots
  <1>8. \A k \in Kinds, q \in Obj :
          Hand(t, k, q)' <=> (Hand(t, k, q) /\ k # "mark") \/ (k = "rel" /\ q = p)
    BY <1>1, <1>2, <1>3, <1>4 DEF Hand
  <1>9. Hand(t, "mark", p) /\ "mark" \in Kinds /\ "rel" \in Kinds /\ "mark" # "rel"
    BY <1>1, <1>2 DEF Hand, Kinds
  <1>10. count[p] = 0 /\ state[p] = "live" /\ \A k \in Kinds : Hand(t, k, p) => k = "mark"
    BY <1>2, <1>9 DEF HandsDying, HandsApart
  <1>11. HandsDying' /\ HandsApart'
    <2>1. \A k \in Kinds, q \in Obj : Hand(t, k, q)' =>
           /\ q = Null \/ \E l \in Kinds : Hand(t, l, q)
           /\ count'[q] = 0
           /\ k = "rel" => state'[q] = "process_gc"
           /\ k # "rel" => state'[q] = "live"
           /\ k \in {"cur", "check"} => ~Suspected(q)
           /\ \A l \in Kinds : Hand(t, l, q)' => k = l
      <3> SUFFICES ASSUME NEW k \in Kinds, NEW q \in Obj, Hand(t, k, q)'
                   PROVE  /\ \E l \in Kinds : Hand(t, l, q)
                          /\ count[q] = 0
                          /\ k = "rel" => state'[q] = "process_gc"
                          /\ k # "rel" => state'[q] = "live"
                          /\ k \in {"cur", "check"} => ~Suspected(q)
                          /\ \A l \in Kinds : Hand(t, l, q)' => k = l
        BY <1>2
      <3>1. CASE q = p
        <4>1. \A l \in Kinds : Hand(t, l, p)' => l = "rel"
          BY <1>2, <1>8, <1>10
        <4> QED
          BY <1>4, <1>9, <1>10, <3>1, <4>1
      <3>2. CASE q # p
        <4>1. \A l \in Kinds : Hand(t, l, q)' => Hand(t, l, q)
          BY <1>8, <3>2
        <4>2. state'[q] = state[q]
          BY <1>4, <3>2
        <4> QED
          BY <4>1, <4>2 DEF HandsDying, HandsApart
      <3> QED
        BY <3>1, <3>2
    <2>2. \A q \in Dying : \/ state'[q] = state[q] /\ count'[q] = count[q]
                           \/ \E k \in Kinds : Hand(t, k, q)
      BY <1>2, <1>4, <1>9 DEF Dying
    <2> QED
      BY <1>5, <2>1, <2>2, NullAssumption, HandsStep
  <1>12. \A x \in Obj : \/ state'[x] = state[x]
                        \/ /\ x \in Dying /\ state[x] # "waiting_for_gc"
                           /\ state'[x] # "dead" \/ ~Suspected(x)
    BY <1>2, <1>4, <1>10 DEF Dying
  <1>13. pc[t] # "dec" /\ pc'[t] # "dec"
    BY <1>2, <1>4
  <1> QED
    BY <1>2, <1>5, <1>6, <1>7, <1>11, <1>12, <1>13, HandOverStep

\* One field of an object that is left for the collector.
LEMMA WaitingFieldOwn ==
  ASSUME Inv, TypeInv', NEW t \in Threads, WaitingField(t), UNCHANGED <<collectorVars, mutatorVars>>
  PROVE  OwnInv'
  <1> USE DEF Inv, OwnInv, LockInv
  <1>1. PICK p, j, f, check, release, next :
          /\ p = wg_object[t] /\ j = wg_index[t] /\ f = field[p][j] /\ check = wg_check[t]
          /\ release = wg_release[t] /\ next = wg_roots[t]
    OBVIOUS
  <1>2. /\ pc[t] = "wtg" /\ p \in Obj /\ j \in Slots /\ p \in release
        /\ UNCHANGED <<state, async_release, lock_flag, field, suspected_object_list, ret, tgt, loopVars>>
    BY <1>1 DEF WaitingField, TypeInv, CallsOK, FlowInv
  <1>3. Owed(t, p, j)
    BY <1>1, <1>2 DEF Owed, Slots
  <1>4. f # Null => /\ f \in Kept /\ f \in Obj /\ count[f] \in Nat /\ count[f] > 0
                    /\ state[f] = "live" /\ f # p
    <2>1. p \in Obj /\ j \in Slots /\ Owed(t, p, j) /\ field[p][j] = f
      BY <1>1, <1>2, <1>3
    <2> HIDE DEF Inv, OwnInv, LockInv
    <2> SUFFICES ASSUME f # Null
                 PROVE  /\ f \in Kept /\ f \in Obj /\ count[f] \in Nat /\ count[f] > 0
                        /\ state[f] = "live" /\ f # p
      OBVIOUS
    <2> QED
      BY ONLY <2>1, f # Null, Inv, t \in Threads, OwedField, Zenon
  <1>5. PICK after, n, checked, roots2 :
          /\ wg_object'[t] = p /\ wg_index'[t] = n /\ wg_check'[t] = checked
          /\ wg_release'[t] = release /\ wg_roots'[t] = roots2 /\ pc'[t] = after
          /\ \A u \in Threads \ {t} : /\ wg_object'[u] = wg_object[u] /\ wg_index'[u] = wg_index[u]
                                      /\ wg_check'[u] = wg_check[u]
                                      /\ wg_release'[u] = wg_release[u] /\ wg_roots'[u] = wg_roots[u]
                                      /\ pc'[u] = pc[u]
          /\ \/ f = Null /\ n = j + 1 /\ checked = check /\ roots2 = next /\ after = "wtg"
                /\ count' = count
             \/ f # Null /\ count[f] = 1 /\ ~Suspected(f) /\ n = j + 1 /\ checked = check \cup {f}
                /\ roots2 = next /\ after = "wtg"
             \/ f # Null /\ count[f] = 1 /\ Suspected(f) /\ n = j /\ checked = check
                /\ roots2 = next \cup {f} /\ after = "wtg_null"
             \/ f # Null /\ count[f] # 1 /\ n = j /\ checked = check /\ roots2 = next
                /\ after = "wtg_null"
    <2> USE DEF TypeInv, VariablesTyped, RefCountTypeOK, CallTypeOK
    <2>1. CASE f = Null
      <3>1. SetWait(t, p, j + 1, check, release, next) /\ UNCHANGED <<count, pc>>
        BY <1>1, <2>1 DEF WaitingField
      <3> QED
        BY <1>2, <2>1, <3>1, SetWaitEffect
    <2>2. CASE f # Null /\ count[f] = 1 /\ ~Suspected(f)
      <3>1. SetWait(t, p, j + 1, check \cup {f}, release, next) /\ UNCHANGED pc
        BY <1>1, <2>2 DEF WaitingField
      <3> QED
        BY <1>2, <2>2, <3>1, SetWaitEffect
    <2>3. CASE f # Null /\ count[f] = 1 /\ Suspected(f)
      <3>1. SetWait(t, p, j, check, release, next \cup {f}) /\ pc' = [pc EXCEPT ![t] = "wtg_null"]
        BY <1>1, <2>3 DEF WaitingField, Goto
      <3> QED
        BY <2>3, <3>1, SetWaitEffect
    <2>4. CASE f # Null /\ count[f] # 1
      <3>1. UNCHANGED waitVars /\ pc' = [pc EXCEPT ![t] = "wtg_null"]
        BY <1>1, <2>4 DEF WaitingField, Goto
      <3> QED
        BY <1>1, <2>4, <3>1 DEF waitVars
    <2> QED
      BY <2>1, <2>2, <2>3, <2>4
  <1>6. dr_object' = dr_object /\ dr_index' = dr_index /\ dr_check' = dr_check
    BY <1>2 DEF loopVars
  <1>7. DecrementStep(t)
    BY <1>2, <1>5, <1>6 DEF DecrementStep, DecrementLabels, WaitLabels, OthersStay
  <1>8. LoopsOK(t)'
    BY <1>2, <1>5, <1>6 DEF LoopsOK, WaitLabels, FlowInv, Slots
  <1>9. pc[t] # "dec" /\ pc'[t] # "dec"
    BY <1>2, <1>5
  <1>10. /\ Hand(t, "rel", p) /\ \A k \in Kinds : Hand(t, k, p) => k = "rel"
    <2>1. Hand(t, "rel", p) /\ "rel" \in Kinds
      BY <1>1, <1>2 DEF Hand, Kinds
    <2> QED
      BY <1>2, <2>1 DEF HandsApart
  <1>11. /\ p # dr_object[t] /\ p \notin dr_check[t] /\ p \notin check /\ p \notin next
    BY <1>1, <1>10 DEF Hand, Kinds
  <1>12. \A q \in Obj, i \in Slots :
           Owed(t, q, i)' <=> ((Owed(t, q, i) /\ ~(q = p /\ i = j)) \/ (f # Null /\ q = f /\ count[f] = 1))
    <2> SUFFICES ASSUME NEW q \in Obj, NEW i \in Slots
                 PROVE  Owed(t, q, i)' <=>
                          ((Owed(t, q, i) /\ ~(q = p /\ i = j)) \/ (f # Null /\ q = f /\ count[f] = 1))
      OBVIOUS
    <2>1. Owed(t, q, i) <=> \/ q = dr_object[t] /\ i >= dr_index[t]
                            \/ q \in dr_check[t] \/ q \in check \/ q \in next
                            \/ q = p /\ i >= j
      BY <1>1, <1>2 DEF Owed
    <2>2. Owed(t, q, i)' <=> \/ q = dr_object[t] /\ i >= dr_index[t]
                             \/ q \in dr_check[t] \/ q \in checked \/ q \in roots2
                             \/ q = p /\ after = "wtg" /\ i >= n
                             \/ q = p /\ after = "wtg_null" /\ i > n
      BY <1>5, <1>6 DEF Owed
    <2>3. (i >= j + 1 <=> i >= j /\ i # j) /\ (i > j <=> i >= j /\ i # j)
      BY <1>2 DEF Slots
    <2>4. CASE q = p
      BY <1>4, <1>5, <1>11, <2>1, <2>2, <2>3, <2>4
    <2>5. CASE q # p
      BY <1>5, <2>1, <2>2, <2>5
    <2> QED
      BY <2>4, <2>5
  <1>13. \A k \in Kinds, o \in Obj : Hand(t, k, o)' =>
           \/ Hand(t, k, o)
           \/ f # Null /\ count[f] = 1 /\ o = f /\ k = "wcheck"
           \/ f # Null /\ count[f] = 1 /\ o = f /\ k = "wroot" /\ Suspected(f)
    BY <1>1, <1>2, <1>5, <1>6 DEF Hand
  <1>14. f # Null => \A k \in Kinds : ~Hand(t, k, f)
    BY <1>4 DEF HandsDying
  <1>15. f # Null => \A k, l \in Kinds : Hand(t, k, f)' /\ Hand(t, l, f)' => k = l
    <2>1. f # Null /\ Suspected(f) => \A k \in Kinds : Hand(t, k, f)' => k = "wroot"
      BY <1>1, <1>2, <1>4, <1>5, <1>6, <1>14 DEF Hand
    <2>2. f # Null /\ ~Suspected(f) => \A k \in Kinds : Hand(t, k, f)' => k = "wcheck"
      BY <1>4, <1>13, <1>14
    <2> QED
      BY <2>1, <2>2
  <1>16. CASE f = Null
    <2>1. HandsDying' /\ HandsApart'
      <3>1. state' = state /\ count' = count
        BY <1>2, <1>5, <1>16
      <3>2. \A k \in Kinds, o \in Obj : Hand(t, k, o)' => Hand(t, k, o)
        BY <1>13, <1>16
      <3>3. \A k \in Kinds, o \in Obj : Hand(t, k, o)' =>
           /\ o = Null \/ \E l \in Kinds : Hand(t, l, o)
           /\ count'[o] = 0
           /\ k = "rel" => state'[o] = "process_gc"
           /\ k # "rel" => state'[o] = "live"
           /\ k \in {"cur", "check"} => ~Suspected(o)
           /\ \A l \in Kinds : Hand(t, l, o)' => k = l
        BY <3>1, <3>2 DEF HandsDying, HandsApart
      <3>4. \A o \in Dying : state'[o] = state[o] /\ count'[o] = count[o]
        BY <3>1
      <3> QED
        BY <1>7, <3>3, <3>4, NullAssumption, HandsStep
    <2>2. \A q \in Obj, i \in Slots : field'[q][i] # Null => (Owed(t, q, i)' <=> Owed(t, q, i))
      BY <1>1, <1>2, <1>12, <1>16
    <2> QED
      BY <1>2, <1>5, <1>7, <1>8, <1>9, <1>16, <2>1, <2>2, HandOverStep
  <1>17. CASE f # Null
    <2>1. count' = [count EXCEPT ![f] = FetchSub(@)]
      BY <1>1, <1>17 DEF WaitingField
    <2>2. count'[f] = count[f] - 1 /\ \A x \in Obj \ {f} : count'[x] = count[x]
      BY <1>4, <1>17, <2>1 DEF FetchSub, TypeInv, VariablesTyped, RefCountTypeOK, HeapTypeOK
    <2>3. HandsDying' /\ HandsApart'
      <3>1. state' = state
        BY <1>2
      <3>2. \A k \in Kinds, o \in Obj : Hand(t, k, o)' =>
           /\ o = f \/ \E l \in Kinds : Hand(t, l, o)
           /\ count'[o] = 0
           /\ k = "rel" => state'[o] = "process_gc"
           /\ k # "rel" => state'[o] = "live"
           /\ k \in {"cur", "check"} => ~Suspected(o)
           /\ \A l \in Kinds : Hand(t, l, o)' => k = l
        <4> SUFFICES ASSUME NEW k \in Kinds, NEW o \in Obj, Hand(t, k, o)'
                     PROVE  /\ o = f \/ \E l \in Kinds : Hand(t, l, o)
                            /\ count'[o] = 0
                            /\ k = "rel" => state[o] = "process_gc"
                            /\ k # "rel" => state[o] = "live"
                            /\ k \in {"cur", "check"} => ~Suspected(o)
                            /\ \A l \in Kinds : Hand(t, l, o)' => k = l
          BY <3>1
        <4>1. CASE o = f
          <5>1. count[f] = 1 /\ k \in {"wcheck", "wroot"}
            BY <1>13, <1>14, <1>17, <4>1
          <5>2. count'[f] = 0
            BY <2>2, <5>1
          <5> QED
            BY <1>4, <1>15, <1>17, <4>1, <5>1, <5>2
        <4>2. CASE o # f
          <5>1. \A l \in Kinds : Hand(t, l, o)' => Hand(t, l, o)
            BY <1>13, <4>2
          <5>2. count'[o] = count[o]
            BY <2>2, <4>2
          <5> QED
            BY <5>1, <5>2 DEF HandsDying, HandsApart
        <4> QED
          BY <4>1, <4>2
      <3>3. \A o \in Dying : state'[o] = state[o] /\ count'[o] = count[o]
        BY <1>4, <1>17, <2>2, <3>1 DEF Dying
      <3> QED
        BY <1>4, <1>7, <1>17, <3>2, <3>3, HandsStep
    <2>4. \A q \in Obj, i \in Slots :
           Owed(t, q, i)' <=> ((Owed(t, q, i) /\ ~(q = p /\ i = j)) \/ (q = f /\ count[f] = 1))
      BY <1>12, <1>17
    <2>5. p \in Obj /\ j \in Slots /\ f \in Obj /\ field[p][j] = f /\ Owed(t, p, j)
      BY <1>1, <1>2, <1>3, <1>4, <1>17
    <2>6. UNCHANGED <<state, field, tgt>>
      BY <1>2
    <2> QED
      BY <1>7, <1>8, <1>9, <2>2, <2>3, <2>4, <2>5, <2>6, GiveUpFieldStep
  <1> QED
    BY <1>16, <1>17

\* A step in which t's hands only get emptier or are renamed, and nothing else
\* happens to the objects.
LEMMA PassOnStep ==
  ASSUME Inv, TypeInv', NEW t \in Threads, DecrementStep(t), LoopsOK(t)',
         pc[t] # "dec", pc'[t] # "dec", UNCHANGED <<state, count, tgt>>,
         \A p \in Obj, i \in Slots :
           \/ field'[p][i] = field[p][i]
           \/ /\ field'[p][i] = Null /\ p \notin Kept /\ state[p] # "waiting_for_gc"
              /\ \A u \in Threads : ~Owed(u, p, i),
         \A p \in Obj, i \in Slots : Owed(t, p, i)' <=> Owed(t, p, i),
         \A k \in Kinds, o \in Obj : Hand(t, k, o)' =>
           \E l \in Kinds : /\ Hand(t, l, o)
                            /\ k = l \/ (k = "mark" /\ l \in {"wcheck", "wroot"}),
         \A k, l \in Kinds, o \in Obj : Hand(t, k, o)' /\ Hand(t, l, o)' => k = l
  PROVE  OwnInv'
  <1> USE DEF Inv, OwnInv, LockInv
  <1>1. HandsDying' /\ HandsApart'
    <2>1. \A k \in Kinds, o \in Obj : Hand(t, k, o)' =>
           /\ o = Null \/ \E l \in Kinds : Hand(t, l, o)
           /\ count'[o] = 0
           /\ k = "rel" => state'[o] = "process_gc"
           /\ k # "rel" => state'[o] = "live"
           /\ k \in {"cur", "check"} => ~Suspected(o)
           /\ \A l \in Kinds : Hand(t, l, o)' => k = l
      <3> SUFFICES ASSUME NEW k \in Kinds, NEW o \in Obj, Hand(t, k, o)'
                   PROVE  /\ \E l \in Kinds : Hand(t, l, o)
                          /\ count[o] = 0
                          /\ k = "rel" => state[o] = "process_gc"
                          /\ k # "rel" => state[o] = "live"
                          /\ k \in {"cur", "check"} => ~Suspected(o)
        OBVIOUS
      <3>1. PICK l \in Kinds : /\ Hand(t, l, o)
                               /\ k = l \/ (k = "mark" /\ l \in {"wcheck", "wroot"})
        OBVIOUS
      <3> QED
        BY <3>1 DEF HandsDying
    <2>2. \A o \in Dying : state'[o] = state[o] /\ count'[o] = count[o]
      OBVIOUS
    <2> QED
      BY <2>1, <2>2, NullAssumption, HandsStep
  <1>2. \A o \in Obj : state'[o] = state[o]
    OBVIOUS
  <1> QED
    BY <1>1, <1>2, HandOverStep

\* The field is cleared: its reference has been given up.
LEMMA WaitingNullOwn ==
  ASSUME Inv, TypeInv', NEW t \in Threads, WaitingNull(t), UNCHANGED <<collectorVars, mutatorVars>>
  PROVE  OwnInv'
  <1> USE DEF Inv, OwnInv, LockInv
  <1>1. PICK p, j, check, release, next :
          /\ p = wg_object[t] /\ j = wg_index[t] /\ check = wg_check[t]
          /\ release = wg_release[t] /\ next = wg_roots[t]
    OBVIOUS
  <1>2. /\ pc[t] = "wtg_null" /\ p \in Obj /\ j \in Slots /\ p \in release
        /\ field' = [field EXCEPT ![p][j] = Null]
        /\ SetWait(t, p, j + 1, check, release, next) /\ pc' = [pc EXCEPT ![t] = "wtg"]
        /\ UNCHANGED <<state, count, async_release, lock_flag, suspected_object_list, ret, tgt, loopVars>>
    BY <1>1 DEF WaitingNull, Goto, TypeInv, CallsOK, FlowInv
  <1>3. /\ wg_object'[t] = p /\ wg_index'[t] = j + 1 /\ wg_check'[t] = check
        /\ wg_release'[t] = release /\ wg_roots'[t] = next
        /\ \A u \in Threads \ {t} : /\ wg_object'[u] = wg_object[u] /\ wg_index'[u] = wg_index[u]
                                    /\ wg_check'[u] = wg_check[u]
                                    /\ wg_release'[u] = wg_release[u] /\ wg_roots'[u] = wg_roots[u]
    BY <1>2, SetWaitEffect
  <1>4. /\ pc'[t] = "wtg" /\ \A u \in Threads \ {t} : pc'[u] = pc[u]
        /\ \A q \in Obj, i \in Slots :
             field'[q][i] = IF q = p /\ i = j THEN Null ELSE field[q][i]
        /\ dr_object' = dr_object /\ dr_index' = dr_index /\ dr_check' = dr_check
    BY <1>2 DEF TypeInv, VariablesTyped, RefCountTypeOK, CallTypeOK, HeapTypeOK, Heaps, loopVars
  <1>5. DecrementStep(t)
    BY <1>2, <1>3, <1>4 DEF DecrementStep, DecrementLabels, WaitLabels, OthersStay
  <1>6. LoopsOK(t)'
    BY <1>2, <1>3, <1>4 DEF LoopsOK, WaitLabels, FlowInv, Slots
  <1>7. \A q \in Obj, i \in Slots : Owed(t, q, i)' <=> Owed(t, q, i)
    BY <1>1, <1>2, <1>3, <1>4 DEF Owed, Slots
  <1>8. \A k \in Kinds, q \in Obj : Hand(t, k, q)' <=> Hand(t, k, q)
    BY <1>1, <1>2, <1>3, <1>4 DEF Hand
  <1>9. Hand(t, "rel", p) /\ "rel" \in Kinds
    BY <1>1, <1>2 DEF Hand, Kinds
  <1>10. \A u \in Threads, k \in Kinds : Hand(u, k, p) => u = t /\ k = "rel"
    BY <1>2, <1>9 DEF HandsApart
  <1>11. state[p] = "process_gc" /\ p \notin Kept
    BY <1>2, <1>9 DEF HandsDying, Kept
  <1>12. \A u \in Threads : ~Owed(u, p, j)
    <2> SUFFICES ASSUME NEW u \in Threads, Owed(u, p, j) PROVE FALSE
      OBVIOUS
    <2>1. u = t
      BY <1>2, <1>10, OwedHand
    <2>2. p = dr_object[t] \/ p \in dr_check[t] \/ p \in wg_check[t] \/ p \in wg_roots[t]
      BY <1>1, <1>2, <2>1 DEF Owed, Slots
    <2> QED
      BY <1>10, <2>2 DEF Hand, Kinds
  <1>13. \A q \in Obj, i \in Slots :
           \/ field'[q][i] = field[q][i]
           \/ /\ field'[q][i] = Null /\ q \notin Kept /\ state[q] # "waiting_for_gc"
              /\ \A u \in Threads : ~Owed(u, q, i)
    BY <1>4, <1>11, <1>12
  <1>14. pc[t] # "dec" /\ pc'[t] # "dec"
    BY <1>2, <1>4
  <1>15. \A k, l \in Kinds, o \in Obj : Hand(t, k, o)' /\ Hand(t, l, o)' => k = l
    BY <1>8 DEF HandsApart
  <1> QED
    BY <1>2, <1>5, <1>6, <1>7, <1>8, <1>13, <1>14, <1>15, PassOnStep

\* The next object below a suspected one.
LEMMA WaitingPopOwn ==
  ASSUME Inv, TypeInv', NEW t \in Threads, WaitingPop(t), UNCHANGED <<collectorVars, mutatorVars>>
  PROVE  OwnInv'
  <1> USE DEF Inv, OwnInv, LockInv
  <1>1. PICK p, j, check, release, next :
          /\ p = wg_object[t] /\ j = wg_index[t] /\ check = wg_check[t]
          /\ release = wg_release[t] /\ next = wg_roots[t]
    OBVIOUS
  <1>2. /\ pc[t] = "wtg" /\ p \in Obj /\ j \notin Slots /\ p \in release
        /\ UNCHANGED <<state, count, async_release, lock_flag, field, suspected_object_list, ret, tgt,
                       loopVars>>
    BY <1>1 DEF WaitingPop, TypeInv, CallsOK, FlowInv, heapVars
  <1>3. j \in Nat /\ j >= 1 /\ \A i \in Slots : ~(i >= j)
    BY <1>1, <1>2, SlotsAssumption DEF FlowInv, Slots, TypeInv, VariablesTyped, RefCountTypeOK, WaitTypeOK
  <1>4. PICK o, rest, after :
          /\ wg_object'[t] = o /\ wg_index'[t] = j /\ wg_check'[t] = rest
          /\ wg_release'[t] = release /\ wg_roots'[t] = next /\ pc'[t] = after
          /\ \A u \in Threads \ {t} : /\ wg_object'[u] = wg_object[u] /\ wg_index'[u] = wg_index[u]
                                      /\ wg_check'[u] = wg_check[u]
                                      /\ wg_release'[u] = wg_release[u] /\ wg_roots'[u] = wg_roots[u]
                                      /\ pc'[u] = pc[u]
          /\ \/ check = {} /\ o = p /\ rest = {} /\ after = "wtg_done"
             \/ o \in check /\ rest = check \ {o} /\ after = "wtg_mark"
    <2> USE DEF TypeInv, VariablesTyped, RefCountTypeOK, CallTypeOK
    <2>1. CASE check = {} /\ pc' = [pc EXCEPT ![t] = "wtg_done"] /\ UNCHANGED waitVars
      BY <1>1, <2>1 DEF waitVars
    <2>2. ASSUME NEW o \in check, SetWait(t, o, j, check \ {o}, release, next),
                 pc' = [pc EXCEPT ![t] = "wtg_mark"]
          PROVE  /\ wg_object'[t] = o /\ wg_index'[t] = j /\ wg_check'[t] = check \ {o}
                 /\ wg_release'[t] = release /\ wg_roots'[t] = next /\ pc'[t] = "wtg_mark"
                 /\ \A u \in Threads \ {t} :
                      /\ wg_object'[u] = wg_object[u] /\ wg_index'[u] = wg_index[u]
                      /\ wg_check'[u] = wg_check[u]
                      /\ wg_release'[u] = wg_release[u] /\ wg_roots'[u] = wg_roots[u]
                      /\ pc'[u] = pc[u]
      BY <2>2, SetWaitEffect
    <2>3. \/ check = {} /\ pc' = [pc EXCEPT ![t] = "wtg_done"] /\ UNCHANGED waitVars
          \/ \E o \in check : /\ SetWait(t, o, j, check \ {o}, release, next)
                              /\ pc' = [pc EXCEPT ![t] = "wtg_mark"]
      BY <1>1 DEF WaitingPop, Goto
    <2> QED
      BY <2>1, <2>2, <2>3
  <1>5. dr_object' = dr_object /\ dr_index' = dr_index /\ dr_check' = dr_check
    BY <1>2 DEF loopVars
  <1>6. DecrementStep(t)
    BY <1>2, <1>4, <1>5 DEF DecrementStep, DecrementLabels, WaitLabels, OthersStay
  <1>7. LoopsOK(t)'
    BY <1>2, <1>3, <1>4, <1>5 DEF LoopsOK, WaitLabels, FlowInv
  <1>8. \A q \in Obj, i \in Slots : Owed(t, q, i)' <=> Owed(t, q, i)
    BY <1>1, <1>2, <1>3, <1>4, <1>5 DEF Owed
  <1>9. \A k \in Kinds, q \in Obj : Hand(t, k, q)' =>
          \/ Hand(t, k, q) /\ ~(k = "wcheck" /\ q = o /\ after = "wtg_mark")
          \/ k = "mark" /\ q = o /\ after = "wtg_mark" /\ Hand(t, "wcheck", q)
    BY <1>1, <1>2, <1>4, <1>5 DEF Hand
  <1>10. \A k \in Kinds, q \in Obj : Hand(t, k, q)' =>
           \E l \in Kinds : /\ Hand(t, l, q)
                            /\ k = l \/ (k = "mark" /\ l \in {"wcheck", "wroot"})
    BY <1>9 DEF Kinds
  <1>11. \A k, l \in Kinds, q \in Obj : Hand(t, k, q)' /\ Hand(t, l, q)' => k = l
    BY <1>9 DEF HandsApart, Kinds
  <1>12. pc[t] # "dec" /\ pc'[t] # "dec"
    BY <1>2, <1>4
  <1> QED
    BY <1>2, <1>6, <1>7, <1>8, <1>10, <1>11, <1>12, PassOnStep

\* The object is left for the collector.
LEMMA StoreWaitingOwn ==
  ASSUME Inv, TypeInv', NEW t \in Threads, StoreWaiting(t), UNCHANGED <<collectorVars, mutatorVars>>
  PROVE  OwnInv'
  <1> USE DEF Inv, OwnInv, LockInv
  <1>1. PICK p, j, check, release, next :
          /\ p = wg_object[t] /\ j = wg_index[t] /\ check = wg_check[t]
          /\ release = wg_release[t] /\ next = wg_roots[t]
    OBVIOUS
  <1>2. PICK o \in release : /\ state' = [state EXCEPT ![o] = "waiting_for_gc"]
                             /\ SetWait(t, p, j, check, release \ {o}, next)
    BY <1>1 DEF StoreWaiting
  <1>3. /\ pc[t] = "wtg_done" /\ o \in Obj
        /\ UNCHANGED <<count, async_release, lock_flag, field, suspected_object_list, pc, ret, tgt,
                       loopVars>>
    BY <1>1, <1>2 DEF StoreWaiting, TypeInv, VariablesTyped, RefCountTypeOK, WaitTypeOK
  <1>4. /\ wg_object'[t] = p /\ wg_index'[t] = j /\ wg_check'[t] = check
        /\ wg_release'[t] = release \ {o} /\ wg_roots'[t] = next
        /\ \A u \in Threads \ {t} : /\ wg_object'[u] = wg_object[u] /\ wg_index'[u] = wg_index[u]
                                    /\ wg_check'[u] = wg_check[u]
                                    /\ wg_release'[u] = wg_release[u] /\ wg_roots'[u] = wg_roots[u]
    BY <1>2, SetWaitEffect
  <1>5. /\ pc'[t] = "wtg_done" /\ \A u \in Threads \ {t} : pc'[u] = pc[u]
        /\ state'[o] = "waiting_for_gc" /\ \A x \in Obj \ {o} : state'[x] = state[x]
        /\ dr_object' = dr_object /\ dr_index' = dr_index /\ dr_check' = dr_check
    BY <1>2, <1>3 DEF TypeInv, VariablesTyped, RefCountTypeOK, HeapTypeOK, loopVars
  <1>6. DecrementStep(t)
    BY <1>3, <1>4, <1>5 DEF DecrementStep, DecrementLabels, WaitLabels, OthersStay
  <1>7. LoopsOK(t)'
    BY <1>1, <1>3, <1>4, <1>5 DEF LoopsOK, WaitLabels, FlowInv
  <1>8. \A q \in Obj, i \in Slots : Owed(t, q, i)' <=> Owed(t, q, i)
    BY <1>1, <1>3, <1>4, <1>5 DEF Owed
  <1>9. \A k \in Kinds, q \in Obj : Hand(t, k, q)' => Hand(t, k, q) /\ ~(k = "rel" /\ q = o)
    BY <1>1, <1>3, <1>4, <1>5 DEF Hand
  <1>10. Hand(t, "rel", o) /\ "rel" \in Kinds
    BY <1>1, <1>2 DEF Hand, Kinds
  <1>11. count[o] = 0 /\ state[o] = "process_gc" /\ \A k \in Kinds : Hand(t, k, o) => k = "rel"
    BY <1>3, <1>10 DEF HandsDying, HandsApart
  <1>12. HandsDying' /\ HandsApart'
    <2>1. \A k \in Kinds, q \in Obj : Hand(t, k, q)' =>
           /\ q = Null \/ \E l \in Kinds : Hand(t, l, q)
           /\ count'[q] = 0
           /\ k = "rel" => state'[q] = "process_gc"
           /\ k # "rel" => state'[q] = "live"
           /\ k \in {"cur", "check"} => ~Suspected(q)
           /\ \A l \in Kinds : Hand(t, l, q)' => k = l
      <3> SUFFICES ASSUME NEW k \in Kinds, NEW q \in Obj, Hand(t, k, q)'
                   PROVE  /\ \E l \in Kinds : Hand(t, l, q)
                          /\ count[q] = 0
                          /\ k = "rel" => state'[q] = "process_gc"
                          /\ k # "rel" => state'[q] = "live"
                          /\ k \in {"cur", "check"} => ~Suspected(q)
                          /\ \A l \in Kinds : Hand(t, l, q)' => k = l
        BY <1>3
      <3>1. Hand(t, k, q) /\ q # o
        BY <1>9, <1>11
      <3>2. state'[q] = state[q]
        BY <1>5, <3>1
      <3>3. \A l \in Kinds : Hand(t, l, q)' => k = l
        BY <1>9, <3>1 DEF HandsApart
      <3> QED
        BY <3>1, <3>2, <3>3 DEF HandsDying
    <2>2. \A q \in Dying : \/ state'[q] = state[q] /\ count'[q] = count[q]
                           \/ \E k \in Kinds : Hand(t, k, q)
      BY <1>3, <1>5, <1>10 DEF Dying
    <2> QED
      BY <1>6, <2>1, <2>2, NullAssumption, HandsStep
  <1>13. \A x \in Obj : \/ state'[x] = state[x]
                        \/ /\ x \in Dying /\ state[x] # "waiting_for_gc"
                           /\ state'[x] # "dead" \/ ~Suspected(x)
    BY <1>3, <1>5, <1>11 DEF Dying
  <1>14. pc[t] # "dec" /\ pc'[t] # "dec"
    BY <1>3, <1>5
  <1> QED
    BY <1>3, <1>6, <1>7, <1>8, <1>12, <1>13, <1>14, HandOverStep

\* The next suspected object, or back into the loop that called.
LEMMA WaitingNextRootOwn ==
  ASSUME Inv, TypeInv', NEW t \in Threads, WaitingNextRoot(t), UNCHANGED <<collectorVars, mutatorVars>>
  PROVE  OwnInv'
  <1> USE DEF Inv, OwnInv, LockInv
  <1>1. PICK next : next = wg_roots[t]
    OBVIOUS
  <1>2. /\ pc[t] = "wtg_done" /\ wg_release[t] = {} /\ wg_check[t] = {}
        /\ UNCHANGED <<state, count, async_release, lock_flag, field, suspected_object_list, tgt,
                       loopVars>>
    BY DEF WaitingNextRoot, FlowInv, heapVars
  <1>3. PICK o, rest, after :
          /\ wg_object'[t] = o /\ wg_index'[t] = 1 /\ wg_check'[t] = {}
          /\ wg_release'[t] = {} /\ wg_roots'[t] = rest /\ pc'[t] = after
          /\ \A u \in Threads \ {t} : /\ wg_object'[u] = wg_object[u] /\ wg_index'[u] = wg_index[u]
                                      /\ wg_check'[u] = wg_check[u]
                                      /\ wg_release'[u] = wg_release[u] /\ wg_roots'[u] = wg_roots[u]
                                      /\ pc'[u] = pc[u] /\ ret'[u] = ret[u]
          /\ \/ o \in next /\ rest = next \ {o} /\ after = "wtg_mark" /\ ret'[t] = ret[t]
             \/ /\ next = {} /\ o = Null /\ rest = {}
                /\ \/ dr_object[t] # Null /\ after = "nrm" /\ ret'[t] = ret[t]
                   \/ dr_object[t] = Null /\ after = ret[t] /\ ret'[t] = "idle"
    <2> USE DEF TypeInv, VariablesTyped, RefCountTypeOK, CallTypeOK
    <2>1. ASSUME NEW o \in next, SetWait(t, o, 1, {}, {}, next \ {o}),
                 pc' = [pc EXCEPT ![t] = "wtg_mark"], UNCHANGED ret
          PROVE  /\ wg_object'[t] = o /\ wg_index'[t] = 1 /\ wg_check'[t] = {}
                 /\ wg_release'[t] = {} /\ wg_roots'[t] = next \ {o} /\ pc'[t] = "wtg_mark"
                 /\ ret'[t] = ret[t]
                 /\ \A u \in Threads \ {t} :
                      /\ wg_object'[u] = wg_object[u] /\ wg_index'[u] = wg_index[u]
                      /\ wg_check'[u] = wg_check[u]
                      /\ wg_release'[u] = wg_release[u] /\ wg_roots'[u] = wg_roots[u]
                      /\ pc'[u] = pc[u] /\ ret'[u] = ret[u]
      BY <2>1, SetWaitEffect
    <2>2. CASE next = {} /\ SetWait(t, Null, 1, {}, {}, {}) /\ dr_object[t] # Null
               /\ pc' = [pc EXCEPT ![t] = "nrm"] /\ UNCHANGED ret
      BY <2>2, SetWaitEffect
    <2>3. CASE next = {} /\ SetWait(t, Null, 1, {}, {}, {}) /\ dr_object[t] = Null
               /\ pc' = [pc EXCEPT ![t] = ret[t]] /\ ret' = [ret EXCEPT ![t] = "idle"]
      BY <2>3, SetWaitEffect
    <2>4. \/ \E o \in next : /\ SetWait(t, o, 1, {}, {}, next \ {o})
                             /\ pc' = [pc EXCEPT ![t] = "wtg_mark"] /\ UNCHANGED ret
          \/ next = {} /\ SetWait(t, Null, 1, {}, {}, {}) /\ dr_object[t] # Null
               /\ pc' = [pc EXCEPT ![t] = "nrm"] /\ UNCHANGED ret
          \/ next = {} /\ SetWait(t, Null, 1, {}, {}, {}) /\ dr_object[t] = Null
               /\ pc' = [pc EXCEPT ![t] = ret[t]] /\ ret' = [ret EXCEPT ![t] = "idle"]
      BY <1>1 DEF WaitingNextRoot, Goto, Return
    <2> QED
      BY <2>1, <2>2, <2>3, <2>4
  <1>4. dr_object' = dr_object /\ dr_index' = dr_index /\ dr_check' = dr_check
    BY <1>2 DEF loopVars
  <1>5. after \in {"wtg_mark", "nrm", "idle", "release_field"}
    BY <1>2, <1>3 DEF TypeInv, VariablesTyped, RefCountTypeOK, CallTypeOK, CallsOK, ReturnLabels
  <1>6. DecrementStep(t)
    BY <1>2, <1>3, <1>4 DEF DecrementStep, DecrementLabels, WaitLabels, OthersStay
  <1>7. LoopsOK(t)'
    BY <1>3, <1>4, <1>5 DEF LoopsOK, WaitLabels, FlowInv
  <1>8. \A q \in Obj, i \in Slots : Owed(t, q, i)' <=> Owed(t, q, i)
    BY <1>1, <1>2, <1>3, <1>4, <1>5, NullAssumption DEF Owed
  <1>9. \A k \in Kinds, q \in Obj : Hand(t, k, q)' =>
          \/ Hand(t, k, q) /\ ~(k = "wroot" /\ q = o)
          \/ k = "mark" /\ q = o /\ Hand(t, "wroot", q)
    BY <1>1, <1>2, <1>3, <1>4, <1>5, NullAssumption DEF Hand
  <1>10. \A k \in Kinds, q \in Obj : Hand(t, k, q)' =>
           \E l \in Kinds : /\ Hand(t, l, q)
                            /\ k = l \/ (k = "mark" /\ l \in {"wcheck", "wroot"})
    BY <1>9 DEF Kinds
  <1>11. \A k, l \in Kinds, q \in Obj : Hand(t, k, q)' /\ Hand(t, l, q)' => k = l
    BY <1>9 DEF HandsApart, Kinds
  <1>12. pc[t] # "dec" /\ pc'[t] # "dec"
    BY <1>2, <1>3, <1>5
  <1> QED
    BY <1>2, <1>6, <1>7, <1>8, <1>10, <1>11, <1>12, PassOnStep

-----------------------------------------------------------------------------
(***************************************************************************)
(* The rest of increment_reference_count.                                  *)
(***************************************************************************)
\* It is a mutator that suspects an object, and it has a reference to it.
LEMMA SuspectFrame ==
  ASSUME Inv, TypeInv', NEW t \in Threads, pc[t] \in {"cas", "insert"}, OthersStay(t), tgt' = tgt,
         \/ pc'[t] = "insert" /\ ret'[t] = ret[t]
         \/ pc'[t] = ret[t] /\ ret'[t] = "idle",
         \A x \in Obj : x # tgt[t] => async_release'[x] = async_release[x],
         UNCHANGED <<state, count, field, loopVars, waitVars, collectorVars, mutatorVars>>
  PROVE  /\ tgt[t] \in Kept /\ HeapStep(Null) /\ SamePhase
         /\ ListInv' => OwnInv'
  <1> USE DEF Inv, OwnInv, LockInv
  <1>1. ret[t] \in {"unlock", "swap"} /\ t \in Mutators /\ t \in Owners /\ t # Main
        /\ Main \notin Mutators
    BY ThreadsAssumption DEF FlowInv, TypeInv, CallsOK, Owners
  <1>2. PICK o : o = tgt[t]
    OBVIOUS
  <1>3. o \in Obj /\ Operating(t)
    BY <1>2 DEF TypeInv, CallsOK, Operating
  <1>4. t \in Calls(o)
    BY <1>2, <1>3 DEF Calls
  <1>5. o \in Kept
    BY <1>3, <1>4, HolderKeeps
  <1>6. OwnerStep(t)
    BY <1>1 DEF OwnerStep, WaitLabels
  <1>7. DyingStay
    BY <1>2, <1>5 DEF DyingStay, Dying, Kept
  <1>8. /\ FlowInv' /\ HandsDying' /\ HandsApart' /\ SamePhase
        /\ \A u \in Threads : \A p, i : Owed(u, p, i)' <=> Owed(u, p, i)
        /\ \A u \in Threads \ {t} : Calling(u)' <=> Calling(u)
    BY <1>1, <1>6, <1>7, OwnerFrame
  <1>9. Calling(t) /\ Calling(t)' /\ (InGetClone(t)' => InGetClone(t))
    BY <1>1, <1>3 DEF Calling, Operating, InGetClone
  <1>10. Kept' = Kept /\ Condemned' = Condemned
    BY DEF Kept, Condemned
  <1>11. \A p, i : GaveUp(p, i)' <=> GaveUp(p, i)
    <2>1. InRelease' <=> InRelease
      BY <1>8 DEF SamePhase, InRelease, DecrementLabels, WaitLabels
    <2> QED
      BY <2>1 DEF GaveUp, collectorVars, rootVars
  <1>12. \A p, i : Carries(p, i)' <=> Carries(p, i)
    BY <1>8, <1>10, <1>11 DEF Carries
  <1>13. held' = held /\ par' = par
    BY DEF mutatorVars
  <1>14. \A x : SameTokens(x)
    <2>1. \A x : Fields(x)' = Fields(x)
      BY <1>12, FieldsSame
    <2>2. \A x : Locals(x)' = Locals(x)
      BY <1>13, LocalsSame
    <2>3. \A x : Calls(x)' = Calls(x)
      BY <1>8, <1>9, CallsSame
    <2> QED
      BY <2>1, <2>2, <2>3 DEF SameTokens
  <1>15. CountInv'
    <2> SUFFICES ASSUME NEW x \in Obj PROVE CountOK(x)'
      BY DEF CountInv
    <2> QED
      BY <1>10, <1>14, CountFrame DEF CountInv
  <1>16. HeapStep(Null)
    <2>1. \A x \in Obj : SameLife(x)
      BY DEF SameLife
    <2> QED
      BY <1>14, <2>1, NullAssumption DEF HeapStep, FieldStep
  <1>17. MutatorInv'
    <2>1. \A x \in Obj : held'[t][x] <= MaxHeld
      BY <1>1, <1>13 DEF MutatorInv
    <2>2. pc[t] # "done" /\ (par'[t] = Module \/ held'[t][par'[t]] > 0)
      BY <1>1, <1>3, <1>13 DEF MutatorInv
    <2>3. InGetClone(t)' => held'[t][tgt'[t]] < MaxHeld
      BY <1>1, <1>9, <1>13 DEF MutatorInv
    <2> QED
      BY <1>1, <1>13, <2>1, <2>2, <2>3, OperatingObjects, HoldingStep
  <1>18. ListInv' => OwnInv'
    BY <1>8, <1>15, <1>16, <1>17, Together
  <1> QED
    BY <1>2, <1>5, <1>8, <1>16, <1>18

\* The object's async_release flag is claimed, or was set before.
LEMMA ClaimAsyncReleaseOwn ==
  ASSUME Inv, TypeInv', NEW t \in Threads, ClaimAsyncRelease(t),
         UNCHANGED <<collectorVars, mutatorVars>>
  PROVE  OwnInv'
  <1> USE DEF Inv, OwnInv, LockInv
  <1>1. PICK o : o = tgt[t]
    OBVIOUS
  <1>2. /\ pc[t] = "cas" /\ o \in Obj /\ o \in CyclicType
        /\ UNCHANGED <<state, count, lock_flag, field, suspected_object_list, tgt, loopVars, waitVars>>
    BY <1>1 DEF ClaimAsyncRelease, TypeInv, CallsOK, ListInv
  <1>3. CASE /\ ~async_release[o] /\ async_release' = [async_release EXCEPT ![o] = TRUE]
             /\ pc' = [pc EXCEPT ![t] = "insert"] /\ UNCHANGED ret
    <2>1. /\ pc'[t] = "insert" /\ \A u \in Threads \ {t} : pc'[u] = pc[u]
          /\ async_release'[o] /\ \A x \in Obj \ {o} : async_release'[x] = async_release[x]
      BY <1>2, <1>3 DEF TypeInv, VariablesTyped, RefCountTypeOK, CallTypeOK, HeapTypeOK
    <2>2. OthersStay(t)
      BY <1>2, <1>3, <2>1 DEF OthersStay, loopVars, waitVars
    <2>3. tgt[t] \in Kept /\ SamePhase /\ (ListInv' => OwnInv')
      BY <1>1, <1>2, <1>3, <2>1, <2>2, SuspectFrame
    <2>4. state[o] = "live"
      BY <1>1, <2>3 DEF Kept
    <2>5. /\ Suspected(o)' /\ ~Suspected(o)
          /\ \A x \in Obj \ {o} : Suspected(x)' <=> Suspected(x)
      BY <1>2, <1>3, <2>1 DEF Suspected
    <2>6. /\ roots' = roots /\ pending' = pending /\ root' = root /\ release_objects' = release_objects
          /\ releasing' = releasing /\ suspected_object_list' = suspected_object_list /\ state' = state
          /\ tgt' = tgt
      BY <1>2 DEF collectorVars, rootVars
    <2>7. /\ pc'[Collector] \in {"red", "red_read", "gray", "red_unlock", "check"} =>
               pc[Collector] \in {"red", "red_read", "gray", "red_unlock", "check"}
          /\ pc'[Collector] = "idle" => pc[Collector] = "idle"
          /\ InRelease' => InRelease
      BY <2>3 DEF SamePhase, DecrementLabels, WaitLabels, InRelease
    <2>8. {tgt[u] : u \in {v \in Threads : pc[v] = "insert"}}' =
            {tgt[u] : u \in {v \in Threads : pc[v] = "insert"}} \cup {o}
      <3>1. \A u \in Threads : pc'[u] = "insert" <=> pc[u] = "insert" \/ u = t
        BY <1>2, <2>1
      <3> QED
        BY <1>1, <2>6, <3>1
    <2>9. SuspectedTracked'
      <3>1. {x \in Obj : state[x] # "dead" /\ Suspected(x)}' =
              {x \in Obj : state[x] # "dead" /\ Suspected(x)} \cup {o}
        BY <1>2, <2>4, <2>5, <2>6
      <3> QED
        BY <2>6, <2>8, <3>1 DEF ListInv, SuspectedTracked
    <2>10. ASSUME NEW u \in Threads
           PROVE  /\ pc'[u] = "cas" => tgt'[u] \in CyclicType
                  /\ pc'[u] = "insert" => Suspected(tgt[u])'
      <3>1. CASE u = t
        BY <1>1, <2>1, <2>5, <2>6, <3>1 DEF Suspected
      <3>2. CASE u # t
        <4>1. pc'[u] = pc[u]
          BY <2>1, <3>2
        <4>2. PICK x : x = tgt[u]
          OBVIOUS
        <4>3. pc[u] = "insert" => x \in Obj /\ Suspected(x)
          BY <4>2 DEF TypeInv, CallsOK, ListInv
        <4>4. pc[u] = "insert" => Suspected(x)'
          BY <2>5, <4>3
        <4> QED
          BY <2>6, <4>1, <4>2, <4>4 DEF ListInv, Suspected
      <3> QED
        BY <3>1, <3>2
    <2>11. ListInv'
      BY <2>6, <2>7, <2>9, <2>10 DEF ListInv
    <2> QED
      BY <2>3, <2>11
  <1>4. CASE async_release[o] /\ Return(t) /\ UNCHANGED async_release
    <2>1. /\ pc'[t] = ret[t] /\ ret'[t] = "idle"
          /\ \A u \in Threads \ {t} : pc'[u] = pc[u] /\ ret'[u] = ret[u]
      BY <1>4 DEF Return, TypeInv, VariablesTyped, RefCountTypeOK, CallTypeOK
    <2>2. OthersStay(t)
      BY <1>2, <2>1 DEF OthersStay, loopVars, waitVars
    <2>3. HeapStep(Null) /\ SamePhase /\ (ListInv' => OwnInv')
      BY <1>2, <1>4, <2>1, <2>2, SuspectFrame
    <2>4. pc'[t] \notin {"cas", "insert"}
      BY <1>2, <2>1 DEF FlowInv
    <2>5. AsyncStep
      BY <1>2, <1>4 DEF AsyncStep
    <2>6. ListInv'
      BY <1>2, <2>2, <2>3, <2>4, <2>5, ListStep
    <2> QED
      BY <2>3, <2>6
  <1> QED
    BY <1>1, <1>3, <1>4 DEF ClaimAsyncRelease, Goto

\* The object is put on the list of suspected objects.
LEMMA AddSuspectedObjectOwn ==
  ASSUME Inv, TypeInv', NEW t \in Threads, AddSuspectedObject(t),
         UNCHANGED <<collectorVars, mutatorVars>>
  PROVE  OwnInv'
  <1> USE DEF Inv, OwnInv, LockInv
  <1>1. PICK o : o = tgt[t]
    OBVIOUS
  <1>2. /\ pc[t] = "insert" /\ o \in Obj /\ Suspected(o) /\ Return(t)
        /\ suspected_object_list' = suspected_object_list \cup {o}
        /\ UNCHANGED <<state, count, async_release, lock_flag, field, tgt, loopVars, waitVars>>
    BY <1>1 DEF AddSuspectedObject, TypeInv, CallsOK, ListInv, heapVars
  <1>3. /\ pc'[t] = ret[t] /\ ret'[t] = "idle"
        /\ \A u \in Threads \ {t} : pc'[u] = pc[u] /\ ret'[u] = ret[u]
    BY <1>2 DEF Return, TypeInv, VariablesTyped, RefCountTypeOK, CallTypeOK
  <1>4. OthersStay(t)
    BY <1>2, <1>3 DEF OthersStay, loopVars, waitVars
  <1>5. tgt[t] \in Kept /\ SamePhase /\ (ListInv' => OwnInv')
    BY <1>2, <1>3, <1>4, SuspectFrame
  <1>6. state[o] = "live" /\ pc'[t] \notin {"cas", "insert"}
    BY <1>1, <1>2, <1>3, <1>5 DEF Kept, FlowInv
  <1>7. /\ roots' = roots /\ pending' = pending /\ root' = root /\ release_objects' = release_objects
        /\ releasing' = releasing /\ state' = state /\ tgt' = tgt /\ async_release' = async_release
    BY <1>2 DEF collectorVars, rootVars
  <1>8. /\ pc'[Collector] \in {"red", "red_read", "gray", "red_unlock", "check"} =>
             pc[Collector] \in {"red", "red_read", "gray", "red_unlock", "check"}
        /\ pc'[Collector] = "idle" => pc[Collector] = "idle"
        /\ InRelease' => InRelease
    BY <1>5 DEF SamePhase, DecrementLabels, WaitLabels, InRelease
  <1>9. {tgt[u] : u \in {v \in Threads : pc[v] = "insert"}} \subseteq
          {tgt[u] : u \in {v \in Threads : pc[v] = "insert"}}' \cup {o}
    <2>1. \A u \in Threads : pc[u] = "insert" => pc'[u] = "insert" \/ u = t
      BY <1>3
    <2> QED
      BY <1>1, <1>7, <2>1
  <1>10. \A x : Suspected(x)' <=> Suspected(x)
    BY <1>7 DEF Suspected
  <1>11. SuspectedTracked'
    BY <1>2, <1>6, <1>7, <1>9, <1>10 DEF ListInv, SuspectedTracked
  <1>12. \A u \in Threads : /\ pc'[u] = "cas" => tgt'[u] \in CyclicType
                            /\ pc'[u] = "insert" => Suspected(tgt[u])'
    BY <1>3, <1>6, <1>7 DEF ListInv, Suspected
  <1>13. \A x \in release_objects : x # o
    BY <1>6 DEF ReleaseInv
  <1>14. ListInv'
    BY <1>2, <1>7, <1>8, <1>11, <1>12, <1>13 DEF ListInv
  <1> QED
    BY <1>5, <1>14

\* Every step of increment_ and decrement_reference_count, in any thread.
LEMMA RefCountOwn ==
  ASSUME Inv, TypeInv', NEW t \in Threads, RefCountStep(t), UNCHANGED <<collectorVars, mutatorVars>>
  PROVE  OwnInv'
  BY ClaimAsyncReleaseOwn, AddSuspectedObjectOwn, DecrementReferenceCountOwn, DecrementFieldOwn,
     StoreDeadOwn, WaitingMarkOwn, WaitingFieldOwn, WaitingNullOwn, WaitingPopOwn, StoreWaitingOwn,
     WaitingNextRootOwn DEF RefCountStep

-----------------------------------------------------------------------------
(***************************************************************************)
(* The collector.                                                          *)
(***************************************************************************)
\* A step of gc_collect itself, outside of the procedures it calls: it writes
\* no field, count or flag, and leaves objects that die elsewhere alone.
CollectorMoves ==
  /\ UNCHANGED <<count, field, async_release, loopVars, waitVars, mutatorVars>>
  /\ OthersStay(Collector)
  /\ pc[Collector] \in CollectorLabels /\ pc'[Collector] \in CollectorLabels \cup {"dec"}
  /\ pc'[Collector] = "dec" => ret'[Collector] = "release_field"
  /\ \A o \in Obj : /\ state[o] \in {"live", "process_gc"} /\ count[o] = 0 => state'[o] = state[o]
                    /\ state'[o] # "dead" => state[o] # "dead"

\* The other threads see nothing of it.
LEMMA CollectorFrame ==
  ASSUME OwnInv, CollectorMoves
  PROVE  /\ HandsDying' /\ HandsApart' /\ FlowInv' /\ MutatorInv' /\ AcyclicInv'
         /\ \A u \in Threads : \A p, i : Owed(u, p, i)' <=> Owed(u, p, i)
         /\ \A o : Locals(o)' = Locals(o)
         /\ pc'[Collector] # "dec" => \A o : Calls(o)' = Calls(o)
         /\ {tgt[u] : u \in {v \in Threads : pc[v] = "insert"}}' =
              {tgt[u] : u \in {v \in Threads : pc[v] = "insert"}}
         /\ \A o : Suspected(o)' <=> Suspected(o)
         /\ \A u \in Threads : /\ pc'[u] = "cas" => tgt'[u] \in CyclicType
                               /\ pc'[u] = "insert" => Suspected(tgt[u])'
  <1> USE DEF OwnInv
  <1>0. /\ Collector \in Threads /\ Collector \notin Mutators /\ Mutators \subseteq Threads
        /\ Collector \notin Owners
    BY ThreadsAssumption DEF Owners
  <1>1. /\ count' = count /\ field' = field /\ async_release' = async_release
        /\ dr_object' = dr_object /\ dr_index' = dr_index /\ dr_check' = dr_check
        /\ wg_object' = wg_object /\ wg_index' = wg_index /\ wg_check' = wg_check
        /\ wg_release' = wg_release /\ wg_roots' = wg_roots
        /\ held' = held /\ par' = par
    BY DEF CollectorMoves, loopVars, waitVars, mutatorVars
  <1>2. /\ pc[Collector] \notin WaitLabels \cup {"nrm", "dec", "cas", "insert", "unlock", "swap", "done"}
        /\ pc'[Collector] \notin WaitLabels \cup {"nrm", "cas", "insert", "unlock", "swap", "done"}
        /\ pc'[Collector] \in DecrementLabels => ret'[Collector] = "release_field"
    BY DEF CollectorMoves, CollectorLabels, WaitLabels, DecrementLabels
  <1>3. \A u \in Threads \ {Collector} :
           /\ pc'[u] = pc[u] /\ ret'[u] = ret[u] /\ tgt'[u] = tgt[u]
    BY DEF CollectorMoves, OthersStay
  <1>4. \A u \in Threads \ {Collector} :
           /\ \A p, i : Owed(u, p, i)' <=> Owed(u, p, i)
           /\ \A k, o : Hand(u, k, o)' <=> Hand(u, k, o)
           /\ Calling(u)' <=> Calling(u)
    BY OthersFrame DEF CollectorMoves
  <1>5. /\ \A p, i : Owed(Collector, p, i)' <=> Owed(Collector, p, i)
        /\ \A k, o : Hand(Collector, k, o)' <=> Hand(Collector, k, o)
    BY ONLY <1>1, <1>2 DEF Owed, Hand, WaitLabels
  <1>6. \A u \in Threads : /\ \A p, i : Owed(u, p, i)' <=> Owed(u, p, i)
                           /\ \A k, o : Hand(u, k, o)' <=> Hand(u, k, o)
    BY <1>4, <1>5
  <1>7. HandsApart'
    BY <1>6 DEF HandsApart
  <1>8. \A o : Suspected(o)' <=> Suspected(o)
    BY <1>1 DEF Suspected
  <1>9. HandsDying'
    <2> SUFFICES ASSUME NEW u \in Threads, NEW k \in Kinds, NEW o \in Obj, Hand(u, k, o)
                 PROVE  /\ count'[o] = 0
                        /\ k = "rel" => state'[o] = "process_gc"
                        /\ k # "rel" => state'[o] = "live"
                        /\ k \in {"cur", "check"} => ~Suspected(o)'
      BY <1>6 DEF HandsDying
    <2>1. /\ count[o] = 0
          /\ k = "rel" => state[o] = "process_gc"
          /\ k # "rel" => state[o] = "live"
          /\ k \in {"cur", "check"} => ~Suspected(o)
      BY DEF HandsDying
    <2> QED
      BY <1>1, <1>8, <2>1 DEF CollectorMoves
  <1>10. FlowInv'
    <2> SUFFICES ASSUME NEW u \in Threads
                 PROVE  (/\ pc[u] \notin WaitLabels => wg_check[u] = {} /\ wg_roots[u] = {} /\ wg_release[u] = {}
                         /\ pc[u] \notin WaitLabels \cup {"nrm"} => dr_object[u] = Null
                         /\ dr_object[u] = Null => dr_check[u] = {}
                         /\ pc[u] = "wtg_done" => wg_check[u] = {}
                         /\ pc[u] \in {"wtg", "wtg_null"} => wg_object[u] \in wg_release[u]
                         /\ pc[u] \in {"cas", "insert"} => ret[u] \in {"unlock", "swap"}
                         /\ u = Collector /\ pc[u] \in DecrementLabels => ret[u] = "release_field"
                         /\ dr_index[u] >= 1 /\ wg_index[u] >= 1)'
      BY DEF FlowInv
    <2>1. CASE u = Collector
      BY <1>1, <1>2, <2>1 DEF FlowInv, WaitLabels
    <2>2. CASE u # Collector
      BY <1>1, <1>3, <2>2 DEF FlowInv
    <2> QED
      BY <2>1, <2>2
  <1>11. MutatorInv'
    <2>1. \A m \in Mutators : /\ pc'[m] = pc[m] /\ tgt'[m] = tgt[m]
                              /\ Operating(m)' <=> Operating(m)
                              /\ InGetClone(m)' <=> InGetClone(m)
      BY <1>0, <1>3 DEF Operating, InGetClone
    <2> QED
      BY <1>1, <2>1 DEF MutatorInv
  <1>12. AcyclicInv'
    <2>1. \A o \in Obj : (o \in Dying)' => o \in Dying
      BY <1>1 DEF Dying, CollectorMoves
    <2>2. \A o \in Obj : Apart(o, {}) => Apart(o, {})'
      BY <1>1 DEF Apart
    <2> QED
      BY <2>1, <2>2 DEF AcyclicInv, Dying
  <1>13. \A o : Locals(o)' = Locals(o)
    BY <1>1, LocalsSame
  <1>14. ASSUME pc'[Collector] # "dec", NEW o
         PROVE  Calls(o)' = Calls(o)
    <2>1. ~Calling(Collector) /\ ~Calling(Collector)'
      BY <1>2, <1>14 DEF Calling, Operating
    <2> QED
      BY <1>3, <1>4, <2>1, CallsSame
  <1>15. {tgt[u] : u \in {v \in Threads : pc[v] = "insert"}}' =
           {tgt[u] : u \in {v \in Threads : pc[v] = "insert"}}
    <2>1. \A u \in Threads : pc'[u] = "insert" <=> pc[u] = "insert"
      BY <1>2, <1>3
    <2>2. \A u \in Threads : pc[u] = "insert" => tgt'[u] = tgt[u]
      BY <1>2, <1>3
    <2> QED
      BY <2>1, <2>2
  <1>16. ASSUME NEW u \in Threads
         PROVE  /\ pc'[u] = "cas" => tgt'[u] \in CyclicType
                /\ pc'[u] = "insert" => Suspected(tgt[u])'
    <2>1. CASE u = Collector
      BY <1>2, <2>1
    <2>2. CASE u # Collector
      <3>1. pc'[u] = pc[u] /\ tgt'[u] = tgt[u]
        BY <1>3, <2>2
      <3> QED
        BY <1>1, <3>1 DEF ListInv, Suspected
    <2> QED
      BY <2>1, <2>2
  <1> QED
    BY <1>6, <1>7, <1>8, <1>9, <1>10, <1>11, <1>12, <1>13, <1>14, <1>15, <1>16

\* Nobody works on an object that waits for the collector.
LEMMA WaitingNotOwed ==
  ASSUME FlowInv, HandsDying, NEW p \in Obj, state[p] = "waiting_for_gc"
  PROVE  \A t \in Threads : \A i : ~Owed(t, p, i)
  <1> SUFFICES ASSUME NEW t \in Threads, NEW i, Owed(t, p, i) PROVE FALSE
    OBVIOUS
  <1>1. \A k \in Kinds : ~Hand(t, k, p)
    BY DEF HandsDying, Kinds
  <1>2. /\ p # dr_object[t] /\ p \notin dr_check[t] /\ p \notin wg_check[t] /\ p \notin wg_roots[t]
        /\ p \notin wg_release[t] /\ ~(p = wg_object[t] /\ pc[t] = "wtg_mark")
    BY <1>1 DEF Hand, Kinds
  <1>3. p = wg_object[t] /\ pc[t] \in {"wtg", "wtg_null"}
    BY <1>2 DEF Owed
  <1> QED
    BY <1>2, <1>3 DEF FlowInv

\* Where the collector goes, and whether it is in the release.
LEMMA CollectorGoes ==
  ASSUME TypeInv, NEW label \in CollectorLabels, pc[Collector] \in CollectorLabels,
         CollectorGoto(label) \/ (UNCHANGED callVars /\ pc[Collector] = label)
  PROVE  /\ pc'[Collector] = label /\ ret' = ret /\ OthersStay(Collector)
         /\ UNCHANGED <<loopVars, waitVars>>
         /\ ret[Collector] # "release_field"
         /\ InRelease <=> pc[Collector] \in {"release", "release_field", "kill"}
         /\ InRelease' <=> label \in {"release", "release_field", "kill"}
  <1>1. ret[Collector] # "release_field"
    BY DEF TypeInv, CollectorOK, CollectorLabels
  <1>2. /\ pc'[Collector] = label /\ ret' = ret /\ UNCHANGED <<tgt, loopVars, waitVars>>
        /\ \A u \in Threads \ {Collector} : pc'[u] = pc[u]
    BY CollectorAssumption
       DEF CollectorGoto, Goto, callVars, TypeInv, VariablesTyped, RefCountTypeOK, CallTypeOK
  <1>3. OthersStay(Collector)
    BY <1>2 DEF OthersStay, loopVars, waitVars
  <1> QED
    BY <1>1, <1>2, <1>3 DEF InRelease

\* A step that changes no object and gives up no field.
LEMMA QuietStep ==
  ASSUME OwnInv, CollectorMoves, state' = state, pc'[Collector] # "dec",
         \A p \in Condemned, i \in Slots : GaveUp(p, i)' <=> GaveUp(p, i)
  PROVE  /\ Kept' = Kept /\ Condemned' = Condemned /\ Counted' = Counted
         /\ \A o : SameTokens(o)
         /\ RedInv' /\ GrayInv' /\ ReleaseInv' /\ ListInv' => OwnInv'
  <1> USE DEF OwnInv
  <1>1. count' = count /\ field' = field
    BY DEF CollectorMoves
  <1>2. Kept' = Kept /\ Condemned' = Condemned
    BY <1>1 DEF Kept, Condemned
  <1>3. /\ HandsDying' /\ HandsApart' /\ FlowInv' /\ MutatorInv' /\ AcyclicInv'
        /\ \A u \in Threads : \A p, i : Owed(u, p, i)' <=> Owed(u, p, i)
        /\ \A o : Locals(o)' = Locals(o) /\ Calls(o)' = Calls(o)
    BY CollectorFrame
  <1>4. \A p \in Obj, i \in Slots : Carries(p, i)' <=> Carries(p, i)
    BY <1>2, <1>3 DEF Carries
  <1>5. \A o : SameTokens(o)
    <2>1. \A o : Fields(o)' = Fields(o)
      BY <1>1, <1>4, FieldsSame
    <2> QED
      BY <1>3, <2>1 DEF SameTokens
  <1>6. CountInv'
    <2> SUFFICES ASSUME NEW o \in Obj PROVE CountOK(o)'
      BY DEF CountInv
    <2> QED
      BY <1>1, <1>2, <1>5, CountFrame DEF CountInv
  <1> QED
    BY <1>2, <1>3, <1>5, <1>6 DEF Counted

\* A step before the release.
LEMMA MarkingStep ==
  ASSUME Inv, NEW label \in {"idle", "next_root", "red", "red_read", "gray", "red_unlock", "check"},
         CollectorGoto(label) \/ (UNCHANGED callVars /\ pc[Collector] = label),
         pc[Collector] \in {"idle", "next_root", "red", "red_read", "gray", "red_unlock", "check"},
         UNCHANGED <<state, count, field, async_release, mutatorVars>>
  PROVE  /\ pc'[Collector] = label /\ ret' = ret /\ ret[Collector] # "release_field"
         /\ ~InRelease /\ ~InRelease'
         /\ Kept' = Kept /\ Condemned' = Condemned /\ Counted' = Counted
         /\ \A o : SameTokens(o)
         /\ CollectorMoves
         /\ RedInv' /\ GrayInv' /\ ReleaseInv' /\ ListInv' => OwnInv'
  <1> USE DEF Inv, LockInv
  <1>1. label \in CollectorLabels /\ pc[Collector] \in CollectorLabels
    BY DEF CollectorLabels
  <1>2. /\ pc'[Collector] = label /\ ret' = ret /\ OthersStay(Collector)
        /\ UNCHANGED <<loopVars, waitVars>> /\ ret[Collector] # "release_field"
        /\ ~InRelease /\ ~InRelease'
    BY <1>1, CollectorGoes
  <1>3. CollectorMoves
    BY <1>1, <1>2 DEF CollectorMoves, CollectorLabels
  <1>4. \A p, i : GaveUp(p, i)' <=> GaveUp(p, i)
    BY <1>2 DEF GaveUp
  <1>5. pc'[Collector] # "dec" /\ state' = state
    BY <1>2
  <1> QED
    BY <1>2, <1>3, <1>4, <1>5, QuietStep

\* The lists of suspected objects in a step that leaves them alone.
LEMMA ListsStay ==
  ASSUME OwnInv, CollectorMoves, UNCHANGED <<suspected_object_list, roots>>,
         release_objects \subseteq release_objects', pending' \subseteq pending,
         \A o \in Obj : state'[o] = "dead" <=> state[o] = "dead",
         ~InRelease', pc'[Collector] # "idle",
         pc'[Collector] \in {"red", "red_read", "gray", "red_unlock", "check"} => root' \in roots
  PROVE  ListInv'
  <1> USE DEF OwnInv
  <1>1. /\ {tgt[u] : u \in {v \in Threads : pc[v] = "insert"}}' =
             {tgt[u] : u \in {v \in Threads : pc[v] = "insert"}}
        /\ \A o : Suspected(o)' <=> Suspected(o)
        /\ \A u \in Threads : /\ pc'[u] = "cas" => tgt'[u] \in CyclicType
                              /\ pc'[u] = "insert" => Suspected(tgt[u])'
    BY CollectorFrame
  <1>2. SuspectedTracked'
    BY <1>1 DEF ListInv, SuspectedTracked
  <1> QED
    BY <1>1, <1>2 DEF ListInv

\* gc_collect takes the list.
LEMMA MoveListOwn ==
  ASSUME Inv, MoveList, UNCHANGED mutatorVars
  PROVE  OwnInv'
  <1> USE DEF Inv, OwnInv, LockInv
  <1>0. /\ pc[Collector] = "idle" /\ CollectorGoto("next_root")
        /\ roots' = suspected_object_list /\ pending' = suspected_object_list
        /\ suspected_object_list' = {}
        /\ UNCHANGED <<state, count, field, async_release, release_objects, releasing>>
        /\ root' = root /\ todo' = todo /\ current' = current /\ idx' = idx /\ counted' = counted
        /\ is_cyclic_root' = is_cyclic_root /\ cycle_objects' = cycle_objects
        /\ non_cycle_objects' = non_cycle_objects
    BY DEF MoveList, CollectorAt, heapVars, rootVars
  <1>1. /\ pc'[Collector] = "next_root" /\ ret' = ret /\ ret[Collector] # "release_field"
        /\ ~InRelease /\ ~InRelease' /\ Condemned' = Condemned /\ CollectorMoves
        /\ RedInv' /\ GrayInv' /\ ReleaseInv' /\ ListInv' => OwnInv'
    BY <1>0, MarkingStep
  <1>2. RedInv' /\ GrayInv'
    BY <1>1 DEF RedInv, GrayInv
  <1>3. ReleaseInv'
    BY <1>0, <1>1 DEF ReleaseInv
  <1>4. /\ {tgt[u] : u \in {v \in Threads : pc[v] = "insert"}}' =
             {tgt[u] : u \in {v \in Threads : pc[v] = "insert"}}
        /\ \A o : Suspected(o)' <=> Suspected(o)
        /\ \A u \in Threads : /\ pc'[u] = "cas" => tgt'[u] \in CyclicType
                              /\ pc'[u] = "insert" => Suspected(tgt[u])'
    BY <1>1, CollectorFrame
  <1>5. SuspectedTracked'
    BY <1>0, <1>4 DEF ListInv, SuspectedTracked
  <1>6. ListInv'
    BY <1>0, <1>1, <1>4, <1>5 DEF ListInv
  <1> QED
    BY <1>1, <1>2, <1>3, <1>6

\* A suspected object that has no references is on no cycle.
LEMMA SuspectedObject ==
  ASSUME Inv, NEW r \in suspected_object_list \cup roots
  PROVE  /\ r \in Obj /\ state[r] # "dead"
         /\ r \notin Counted => r \in Dying /\ Apart(r, {})
  <1> USE DEF Inv, OwnInv, LockInv
  <1>1. r \in Obj /\ state[r] # "dead"
    BY DEF ListInv, SuspectedTracked
  <1>2. count[r] \in Nat /\ state[r] \in ObjectState /\ CountOK(r)
    BY <1>1, SizeAssumption DEF TypeInv, VariablesTyped, RefCountTypeOK, HeapTypeOK, CountInv
  <1>3. r \notin Counted => r \in Dying
    BY <1>1, <1>2 DEF CountOK, Dying, Counted, Kept, Condemned, ObjectState
  <1> QED
    BY <1>1, <1>3 DEF AcyclicInv

\* The next root.
LEMMA BeginRootOwn ==
  ASSUME Inv, BeginRoot, UNCHANGED mutatorVars
  PROVE  OwnInv'
  <1> USE DEF Inv, OwnInv, LockInv
  <1>0. PICK r \in pending :
          /\ pc[Collector] = "next_root" /\ CollectorGoto("red")
          /\ pending' = pending \ {r} /\ root' = r /\ current' = r /\ seen' = {r}
          /\ UNCHANGED <<state, count, field, async_release, suspected_object_list, roots, todo, idx,
                         is_cyclic_root, cycle_objects, counted, count_map, non_cycle_objects,
                         release_objects, releasing>>
    BY DEF BeginRoot, CollectorAt, heapVars
  <1>1. /\ pc'[Collector] = "red" /\ ret' = ret /\ ret[Collector] # "release_field"
        /\ ~InRelease /\ ~InRelease' /\ Condemned' = Condemned /\ Counted' = Counted /\ CollectorMoves
        /\ RedInv' /\ GrayInv' /\ ReleaseInv' /\ ListInv' => OwnInv'
    BY <1>0, MarkingStep
  <1>2. r \in Obj /\ r \in roots /\ (r \notin Counted => Apart(r, {}))
    <2>1. r \in roots
      BY DEF ListInv
    <2> QED
      BY <2>1, SuspectedObject
  <1>3. todo = {} /\ cycle_objects = {} /\ counted = {} /\ ~is_cyclic_root /\ idx = 1
    BY <1>0, <1>1 DEF ReleaseInv
  <1>4. ReachLocked'
    BY <1>0 DEF ReachLocked
  <1>5. r \notin Counted => Apart(root, seen \ {root})'
    <2>1. {r} \ {r} = {}
      OBVIOUS
    <2> QED
      BY <1>0, <1>2, <2>1 DEF Apart
  <1>6. RedInv'
    BY <1>0, <1>1, <1>3, <1>4, <1>5 DEF RedInv
  <1>7. GrayInv'
    BY <1>1 DEF GrayInv
  <1>8. ReleaseInv'
    BY <1>0, <1>1 DEF ReleaseInv
  <1>9. ListInv'
    BY <1>0, <1>1, <1>2, ListsStay
  <1> QED
    BY <1>1, <1>6, <1>7, <1>8, <1>9

\* object_lock on the next object of the traversal.
LEMMA RedLockOwn ==
  ASSUME Inv, RedLock, UNCHANGED mutatorVars
  PROVE  OwnInv'
  <1> USE DEF Inv, OwnInv, LockInv
  <1>0. /\ pc[Collector] = "red" /\ CollectorGoto("red_read")
        /\ cycle_objects' = cycle_objects \cup {current}
        /\ UNCHANGED <<state, count, async_release, field, suspected_object_list, roots, pending, root,
                       todo, current, idx, seen, is_cyclic_root, counted, count_map,
                       non_cycle_objects, release_objects, releasing>>
    BY DEF RedLock, CollectorAt
  <1>1. /\ pc'[Collector] = "red_read" /\ ret' = ret /\ ret[Collector] # "release_field"
        /\ ~InRelease /\ ~InRelease' /\ Condemned' = Condemned /\ Counted' = Counted /\ CollectorMoves
        /\ RedInv' /\ GrayInv' /\ ReleaseInv' /\ ListInv' => OwnInv'
    BY <1>0, MarkingStep
  <1>2. /\ root \in seen /\ seen = cycle_objects \cup todo \cup {current} /\ counted = {}
        /\ root \in Counted =>
             /\ seen \subseteq Counted /\ ReachLocked
             /\ is_cyclic_root => \E c \in cycle_objects : root \in Children(field, c)
             /\ \A c \in cycle_objects, i \in Slots :
                  (c # current \/ i < idx) => field[c][i] \in seen \cup {Null}
        /\ root \notin Counted => ~is_cyclic_root /\ Apart(root, seen \ {root})
    BY <1>0 DEF RedInv
  <1>3. idx = 1
    BY <1>0, <1>1 DEF ReleaseInv
  <1>4. ReachLocked => ReachLocked'
    <2> SUFFICES ASSUME ReachLocked, NEW C \in SUBSET Obj, root \in C,
                        \A c \in C \cap (cycle_objects \cup {current}) :
                          Children(field, c) \cap seen \subseteq C
                 PROVE  seen \subseteq C
      BY <1>0 DEF ReachLocked
    <2>1. \A c \in C \cap cycle_objects : Children(field, c) \cap seen \subseteq C
      OBVIOUS
    <2> QED
      BY <2>1 DEF ReachLocked
  <1>5. root \notin Counted => Apart(root, seen \ {root})'
    BY <1>0, <1>2 DEF Apart
  <1>6. \A c \in cycle_objects', i \in Slots : root \in Counted =>
          ((c # current \/ i < idx) => field[c][i] \in seen \cup {Null})
    BY <1>0, <1>2, <1>3 DEF Slots
  <1>7. RedInv'
    BY <1>0, <1>1, <1>2, <1>4, <1>5, <1>6 DEF RedInv
  <1>8. GrayInv'
    BY <1>1 DEF GrayInv
  <1>9. ReleaseInv'
    BY <1>0, <1>1 DEF ReleaseInv
  <1>10. ListInv'
    <2>1. root \in roots
      BY <1>0 DEF ListInv
    <2> QED
      BY <1>0, <1>1, <2>1, ListsStay
  <1> QED
    BY <1>1, <1>7, <1>8, <1>9, <1>10

\* A field of a locked object.
LEMMA RedReadOwn ==
  ASSUME Inv, RedRead, UNCHANGED mutatorVars
  PROVE  OwnInv'
  <1> USE DEF Inv, OwnInv, LockInv
  <1>a. PICK f : f = field[current][idx]
    OBVIOUS
  <1>0. /\ pc[Collector] = "red_read" /\ idx \in Slots /\ idx' = idx + 1
        /\ UNCHANGED <<state, count, async_release, field, suspected_object_list, callVars, roots, pending,
                       root, current, cycle_objects, counted, count_map, non_cycle_objects,
                       release_objects, releasing>>
        /\ \/ /\ f # Null /\ f \notin seen
              /\ seen' = seen \cup {f} /\ todo' = todo \cup {f} /\ is_cyclic_root' = is_cyclic_root
           \/ /\ f = Null \/ f \in seen
              /\ is_cyclic_root' = (is_cyclic_root \/ f = root) /\ seen' = seen /\ todo' = todo
    BY <1>a DEF RedRead, CollectorAt, heapVars
  <1>1. /\ pc'[Collector] = "red_read" /\ ret' = ret /\ ret[Collector] # "release_field"
        /\ ~InRelease /\ ~InRelease' /\ Condemned' = Condemned /\ Counted' = Counted /\ CollectorMoves
        /\ RedInv' /\ GrayInv' /\ ReleaseInv' /\ ListInv' => OwnInv'
    BY <1>0, MarkingStep
  <1>2. /\ root \in seen /\ seen = cycle_objects \cup todo \cup {current} /\ counted = {}
        /\ current \in cycle_objects
        /\ root \in Counted =>
             /\ seen \subseteq Counted /\ ReachLocked
             /\ is_cyclic_root => \E c \in cycle_objects : root \in Children(field, c)
             /\ \A c \in cycle_objects, i \in Slots :
                  (c # current \/ i < idx) => field[c][i] \in seen \cup {Null}
        /\ root \notin Counted => ~is_cyclic_root /\ Apart(root, seen \ {root})
    BY <1>0 DEF RedInv
  <1>3. root \in Obj /\ current \in Obj /\ root # Null /\ idx \in Nat
    BY <1>0, NullAssumption DEF TypeInv, CollectorOK, Slots
  <1>4. f # Null => f \in Children(field, current)
    BY <1>0, <1>a DEF Children
  <1>5. seen' \subseteq seen \cup {f} /\ seen \subseteq seen' /\ f \in seen' \cup {Null}
    BY <1>0
  <1>b. is_cyclic_root' => is_cyclic_root \/ f = root
    BY <1>0, Zenon
  <1>c. /\ seen' = cycle_objects \cup todo' \cup {current}
        /\ root' = root /\ current' = current /\ idx' = idx + 1 /\ cycle_objects' = cycle_objects
        /\ field' = field /\ counted' = {} /\ root \in seen'
    BY <1>0, <1>2
  <1>6. ASSUME root \in Counted
        PROVE  RedInv'
    <2>1. f \in seen' => f \in Counted
      <3>1. current \in Counted /\ (f # Null => f \in Counted)
        BY <1>0, <1>1, <1>2, <1>6, <1>a, CountedClosed
      <3> QED
        BY <1>0, <1>2, <1>6, <3>1
    <2>2. seen' \subseteq Counted
      BY <1>2, <1>5, <1>6, <2>1
    <2>3. ReachLocked'
      <3> SUFFICES ASSUME NEW C \in SUBSET Obj, root \in C,
                          \A c \in C \cap cycle_objects : Children(field, c) \cap seen' \subseteq C
                   PROVE  seen' \subseteq C
        BY <1>0 DEF ReachLocked
      <3>1. \A c \in C \cap cycle_objects : Children(field, c) \cap seen \subseteq C
        BY <1>5
      <3>2. seen \subseteq C
        BY <1>2, <1>6, <3>1 DEF ReachLocked
      <3>3. current \in C \cap cycle_objects
        BY <1>2, <3>2
      <3> QED
        BY <1>0, <1>4, <1>5, <3>2, <3>3
    <2>4. is_cyclic_root' => \E c \in cycle_objects : root \in Children(field, c)
      BY <1>2, <1>3, <1>4, <1>6, <1>b
    <2>5. \A c \in cycle_objects, i \in Slots :
            (c # current \/ i < idx + 1) => field[c][i] \in seen' \cup {Null}
      <3> SUFFICES ASSUME NEW c \in cycle_objects, NEW i \in Slots, c # current \/ i < idx + 1
                   PROVE  field[c][i] \in seen' \cup {Null}
        OBVIOUS
      <3>1. CASE c = current /\ i = idx
        BY <1>a, <1>5, <3>1
      <3>2. CASE ~(c = current /\ i = idx)
        <4>1. c # current \/ i < idx
          BY <1>3, <3>2 DEF Slots
        <4> QED
          BY <1>2, <1>5, <1>6, <4>1
      <3> QED
        BY <3>1, <3>2
    <2> QED
      BY <1>1, <1>2, <1>6, <1>c, <2>2, <2>3, <2>4, <2>5 DEF RedInv
  <1>7. ASSUME root \notin Counted
        PROVE  RedInv'
    <2>1. PICK C \in SUBSET Obj : /\ Closed(field, C) /\ Children(field, root) \subseteq C
                                  /\ seen \ {root} \subseteq C /\ root \notin C
      BY <1>2, <1>7 DEF Apart
    <2>2. f # Null => f \in C
      <3>1. CASE current = root
        BY <1>4, <2>1, <3>1
      <3>2. CASE current # root
        <4>1. current \in C
          BY <1>2, <2>1, <3>2
        <4> QED
          BY <1>4, <2>1, <4>1 DEF Closed
      <3> QED
        BY <3>1, <3>2
    <2>3. ~is_cyclic_root'
      BY <1>2, <1>3, <1>7, <1>b, <2>1, <2>2
    <2>4. seen' \ {root} \subseteq C
      BY <1>0, <2>1, <2>2
    <2>5. Apart(root, seen \ {root})'
      BY <1>0, <2>1, <2>4 DEF Apart
    <2> QED
      BY <1>1, <1>2, <1>7, <1>c, <2>3, <2>5 DEF RedInv
  <1>8. GrayInv'
    BY <1>1 DEF GrayInv
  <1>9. ReleaseInv'
    BY <1>0, <1>1, <1>3 DEF ReleaseInv
  <1>10. ListInv'
    <2>1. root \in roots
      BY <1>0 DEF ListInv
    <2> QED
      BY <1>0, <1>1, <2>1, ListsStay
  <1> QED
    BY <1>1, <1>6, <1>7, <1>8, <1>9, <1>10

\* The next object, or the end of the traversal.
LEMMA RedNextOwn ==
  ASSUME Inv, RedNext, UNCHANGED mutatorVars
  PROVE  OwnInv'
  <1> USE DEF Inv, OwnInv, LockInv
  <1>0. /\ pc[Collector] = "red_read" /\ idx \notin Slots /\ idx' = 1
        /\ UNCHANGED <<state, count, async_release, field, suspected_object_list, roots, pending, root,
                       seen, is_cyclic_root, cycle_objects, counted, count_map, non_cycle_objects,
                       release_objects, releasing>>
    BY DEF RedNext, CollectorAt, heapVars
  <1>2. /\ root \in seen /\ seen = cycle_objects \cup todo \cup {current} /\ counted = {}
        /\ current \in cycle_objects
        /\ root \in Counted =>
             /\ seen \subseteq Counted /\ ReachLocked
             /\ is_cyclic_root => \E c \in cycle_objects : root \in Children(field, c)
             /\ \A c \in cycle_objects, i \in Slots :
                  (c # current \/ i < idx) => field[c][i] \in seen \cup {Null}
        /\ root \notin Counted => ~is_cyclic_root /\ Apart(root, seen \ {root})
    BY <1>0 DEF RedInv
  <1>3. root \in Counted =>
          \A c \in cycle_objects, i \in Slots : field[c][i] \in seen \cup {Null}
    <2>1. \A i \in Slots : i < idx
      BY <1>0, SlotsAssumption DEF TypeInv, VariablesTyped, CollectorTypeOK, ReleaseInv, Slots
    <2> QED
      BY <1>2, <2>1
  <1>4. root \in roots
    BY <1>0 DEF ListInv
  <1>5. CASE \E o \in todo : current' = o /\ todo' = todo \ {o} /\ CollectorGoto("red")
    <2>1. PICK o \in todo : current' = o /\ todo' = todo \ {o} /\ CollectorGoto("red")
      BY <1>5
    <2>2. /\ pc'[Collector] = "red" /\ ret' = ret /\ ret[Collector] # "release_field"
          /\ ~InRelease /\ ~InRelease' /\ Condemned' = Condemned /\ Counted' = Counted /\ CollectorMoves
          /\ RedInv' /\ GrayInv' /\ ReleaseInv' /\ ListInv' => OwnInv'
      BY <1>0, <2>1, MarkingStep
    <2>3. ReachLocked => ReachLocked'
      BY <1>0 DEF ReachLocked
    <2>4. Apart(root, seen \ {root}) => Apart(root, seen \ {root})'
      BY <1>0 DEF Apart
    <2>5. seen' = cycle_objects' \cup todo' \cup {current'}
      BY <1>0, <1>2, <2>1
    <2>6. RedInv'
      BY <1>0, <1>2, <1>3, <2>2, <2>3, <2>4, <2>5 DEF RedInv
    <2>7. GrayInv'
      BY <2>2 DEF GrayInv
    <2>8. ReleaseInv'
      BY <1>0, <2>2 DEF ReleaseInv
    <2>9. ListInv'
      BY <1>0, <1>4, <2>2, ListsStay
    <2> QED
      BY <2>2, <2>6, <2>7, <2>8, <2>9
  <1>6. CASE /\ todo = {} /\ current' = Null /\ todo' = todo
             /\ CollectorGoto(IF is_cyclic_root THEN "gray" ELSE "red_unlock")
    <2>0. PICK label : label = IF is_cyclic_root THEN "gray" ELSE "red_unlock"
      OBVIOUS
    <2>1. label \in {"gray", "red_unlock"} /\ CollectorGoto(label) /\ (label = "gray" => is_cyclic_root)
      BY <1>6, <2>0
    <2>2. /\ pc'[Collector] = label /\ ret' = ret /\ ret[Collector] # "release_field"
          /\ ~InRelease /\ ~InRelease' /\ Condemned' = Condemned /\ Counted' = Counted /\ CollectorMoves
          /\ RedInv' /\ GrayInv' /\ ReleaseInv' /\ ListInv' => OwnInv'
      BY <1>0, <2>1, MarkingStep
    <2>3. RedInv'
      BY <2>1, <2>2 DEF RedInv
    <2>4. cycle_objects = seen
      BY <1>2, <1>6
    <2>5. GrayInv'
      <3> SUFFICES ASSUME label = "gray" PROVE GrayInv'
        BY <2>2 DEF GrayInv
      <3>1. root \in Counted
        BY <1>2, <2>1
      <3>2. ReachLocked'
        BY <1>0, <1>2, <3>1 DEF ReachLocked
      <3>3. Closed(field, cycle_objects)
        BY <1>3, <2>4, <3>1 DEF Closed, Children
      <3>4. \E c \in cycle_objects : root \in Children(field, c)
        BY <1>2, <2>1, <3>1
      <3> QED
        BY <1>0, <1>2, <2>2, <2>4, <3>1, <3>2, <3>3, <3>4 DEF GrayInv
    <2>6. ReleaseInv'
      BY <1>0, <2>1, <2>2 DEF ReleaseInv
    <2>7. ListInv'
      BY <1>0, <1>4, <2>1, <2>2, ListsStay
    <2> QED
      BY <2>2, <2>3, <2>5, <2>6, <2>7
  <1> QED
    BY <1>5, <1>6 DEF RedNext

\* The fields of the locked objects that hold o are among the references to o.
LEMMA InsideFields ==
  ASSUME Inv, ~InRelease, cycle_objects \subseteq Counted, NEW o \in cycle_objects
  PROVE  /\ EdgesTo(field, cycle_objects, o) \subseteq Fields(o)
         /\ Cardinality(EdgesTo(field, cycle_objects, o)) <= count[o]
         /\ Cardinality(EdgesTo(field, cycle_objects, o)) = count[o] =>
              /\ Fields(o) = EdgesTo(field, cycle_objects, o)
              /\ Locals(o) = {} /\ Calls(o) = {}
  <1> USE DEF Inv, OwnInv, LockInv
  <1>1. PICK E : E = EdgesTo(field, cycle_objects, o)
    OBVIOUS
  <1>2. o \in Obj /\ o # Null
    BY NullAssumption DEF Counted, Kept, Condemned
  <1>3. E \subseteq Fields(o)
    <2>1. \A p \in cycle_objects, i \in Slots : field[p][i] = o => <<p, i>> \in Fields(o)
      BY <1>2, CountedClosed
    <2> QED
      BY <1>1, <2>1 DEF EdgesTo
  <1>4. /\ IsFiniteSet(Fields(o)) /\ Cardinality(Fields(o)) \in Nat /\ Cardinality(Locals(o)) \in Nat
        /\ Cardinality(Calls(o)) \in Nat /\ IsFiniteSet(Locals(o)) /\ IsFiniteSet(Calls(o))
    BY TokensFinite
  <1>5. /\ IsFiniteSet(E) /\ Cardinality(E) <= Cardinality(Fields(o))
        /\ Cardinality(E) = Cardinality(Fields(o)) => E = Fields(o)
    BY ONLY <1>3, <1>4, FS_Subset
  <1>6. Cardinality(E) \in Nat
    BY <1>5, FS_CardinalityType
  <1>7. Tokens(o) <= count[o] /\ count[o] \in Nat
    BY <1>2, SizeAssumption DEF CountInv, CountOK, TypeInv, VariablesTyped, RefCountTypeOK, HeapTypeOK
  <1>8. Cardinality(E) <= count[o]
    BY ONLY <1>4, <1>5, <1>6, <1>7 DEF Tokens
  <1>9. Cardinality(E) = count[o] =>
          /\ Cardinality(E) = Cardinality(Fields(o))
          /\ Cardinality(Locals(o)) = 0 /\ Cardinality(Calls(o)) = 0
    BY ONLY <1>4, <1>5, <1>6, <1>7 DEF Tokens
  <1>10. /\ Cardinality(Locals(o)) = 0 => Locals(o) = {}
         /\ Cardinality(Calls(o)) = 0 => Calls(o) = {}
    BY ONLY <1>4, FS_EmptySet
  <1> QED
    BY ONLY <1>1, <1>3, <1>5, <1>8, <1>9, <1>10

\* The count of one of the objects is loaded.
LEMMA GrayLoadOwn ==
  ASSUME Inv, GrayLoad, UNCHANGED mutatorVars
  PROVE  OwnInv'
  <1> USE DEF Inv, OwnInv, LockInv
  <1>0. PICK o \in cycle_objects \ counted :
          /\ pc[Collector] = "gray" /\ counted' = counted \cup {o}
          /\ count_map' = [count_map EXCEPT ![o] = count[o]]
          /\ UNCHANGED <<state, count, async_release, field, suspected_object_list, callVars, roots, pending,
                         root, todo, current, idx, seen, is_cyclic_root, cycle_objects,
                         non_cycle_objects, release_objects, releasing>>
    BY DEF GrayLoad, CollectorAt, heapVars
  <1>1. /\ pc'[Collector] = "gray" /\ ret' = ret /\ ret[Collector] # "release_field"
        /\ ~InRelease /\ ~InRelease' /\ Condemned' = Condemned /\ Counted' = Counted /\ CollectorMoves
        /\ \A x : SameTokens(x)
        /\ RedInv' /\ GrayInv' /\ ReleaseInv' /\ ListInv' => OwnInv'
    BY <1>0, MarkingStep
  <1>2. RedInv'
    BY <1>1 DEF RedInv
  <1>3. /\ root \in cycle_objects /\ cycle_objects = seen /\ seen \subseteq Counted /\ ReachLocked
        /\ \E c \in cycle_objects : root \in Children(field, c)
        /\ Closed(field, cycle_objects)
        /\ counted \subseteq cycle_objects
    BY <1>0 DEF GrayInv
  <1>4. o \in Obj /\ count_map'[o] = count[o] /\ \A x \in counted : count_map'[x] = count_map[x]
    BY <1>0 DEF TypeInv, VariablesTyped, CollectorTypeOK
  <1>5. ReachLocked'
    BY <1>0, <1>3 DEF ReachLocked
  <1>6. \A x \in counted \cup {o} :
          /\ Cardinality(EdgesTo(field, cycle_objects, x)) <= count_map'[x]
          /\ Cardinality(EdgesTo(field, cycle_objects, x)) = count_map'[x] =>
               /\ Fields(x)' = EdgesTo(field, cycle_objects, x)
               /\ Locals(x)' = {} /\ Calls(x)' = {}
    <2> SUFFICES ASSUME NEW x \in counted \cup {o}
                 PROVE  /\ Cardinality(EdgesTo(field, cycle_objects, x)) <= count_map'[x]
                        /\ Cardinality(EdgesTo(field, cycle_objects, x)) = count_map'[x] =>
                             /\ Fields(x)' = EdgesTo(field, cycle_objects, x)
                             /\ Locals(x)' = {} /\ Calls(x)' = {}
      OBVIOUS
    <2>1. CASE x = o
      BY <1>1, <1>3, <1>4, <2>1, InsideFields DEF SameTokens
    <2>2. CASE x \in counted
      BY <1>0, <1>1, <1>4, <2>2 DEF SameTokens, GrayInv
    <2> QED
      BY <2>1, <2>2
  <1>7. GrayInv'
    BY <1>0, <1>1, <1>3, <1>5, <1>6 DEF GrayInv
  <1>8. ReleaseInv'
    BY <1>0, <1>1 DEF ReleaseInv
  <1>9. ListInv'
    <2>1. root \in roots
      BY <1>0 DEF ListInv
    <2> QED
      BY <1>0, <1>1, <2>1, ListsStay
  <1> QED
    BY <1>1, <1>2, <1>7, <1>8, <1>9

\* The condemned objects of the traversal are referred to by each other only.
LEMMA WhiteApart ==
  ASSUME Inv, pc[Collector] = "gray", counted = cycle_objects
  PROVE  /\ White \subseteq Counted
         /\ \A w \in White : /\ Locals(w) = {} /\ Calls(w) = {}
                             /\ \A p \in Obj, i \in Slots : <<p, i>> \in Fields(w) => p \in White
  <1> USE DEF Inv, OwnInv, LockInv
  <1>1. PICK S, R : /\ S = {o \in cycle_objects : ExternalCount(o) # 0}
                    /\ R = Reachable(field, S)
    OBVIOUS
  <1>2. White = cycle_objects \ R
    BY <1>1 DEF White
  <1>3. cycle_objects \subseteq Counted /\ Counted \subseteq Obj
    BY DEF GrayInv, Counted, Kept, Condemned
  <1>4. S \subseteq R
    BY <1>1, <1>3 DEF Reachable
  <1>5. \A p \in R : Children(field, p) \cap Obj \subseteq R
    BY <1>1 DEF Reachable, Closed
  <1>6. ASSUME NEW w \in White
        PROVE  /\ Locals(w) = {} /\ Calls(w) = {}
               /\ \A p \in Obj, i \in Slots : <<p, i>> \in Fields(w) => p \in White
    <2>1. w \in cycle_objects /\ w \notin R /\ w \in Obj /\ w # Null
      BY <1>2, <1>3, NullAssumption
    <2>2. ExternalCount(w) = 0
      BY <1>1, <1>4, <2>1
    <2>3. PICK n : n = Cardinality(EdgesTo(field, cycle_objects, w))
      OBVIOUS
    <2>4. n \in Nat
      <3>1. EdgesTo(field, cycle_objects, w) \subseteq Fields(w)
        BY <1>3, <2>1, InsideFields DEF InRelease, TypeInv, CollectorOK
      <3>2. IsFiniteSet(EdgesTo(field, cycle_objects, w))
        BY <3>1, TokensFinite, FS_Subset
      <3> QED
        BY <2>3, <3>2, FS_CardinalityType
    <2>5. count_map[w] \in Nat
      BY <2>1, SizeAssumption DEF TypeInv, VariablesTyped, CollectorTypeOK
    <2>6. count_map[w] = n
      BY <2>2, <2>3, <2>4, <2>5 DEF ExternalCount
    <2>7. Fields(w) = EdgesTo(field, cycle_objects, w) /\ Locals(w) = {} /\ Calls(w) = {}
      BY <2>1, <2>3, <2>6 DEF GrayInv
    <2>8. ASSUME NEW p \in Obj, NEW i \in Slots, <<p, i>> \in Fields(w)
          PROVE  p \in White
      <3>1. p \in cycle_objects /\ field[p][i] = w
        BY <2>7, <2>8 DEF EdgesTo
      <3>2. w \in Children(field, p) \cap Obj
        BY <2>1, <3>1 DEF Children
      <3> QED
        BY <1>2, <1>5, <2>1, <3>1, <3>2
    <2> QED
      BY <2>7, <2>8
  <1> QED
    BY <1>2, <1>3, <1>6

\* What the marking passes found unreferenced is condemned.
LEMMA MarkWhiteOwn ==
  ASSUME Inv, MarkWhite, UNCHANGED mutatorVars
  PROVE  OwnInv'
  <1> USE DEF Inv, OwnInv, LockInv
  <1>a. PICK W : W = White
    OBVIOUS
  <1>0. /\ pc[Collector] = "gray" /\ counted = cycle_objects /\ CollectorGoto("red_unlock")
        /\ state' = [o \in Obj |-> IF o \in W THEN "waiting_for_gc" ELSE state[o]]
        /\ release_objects' = release_objects \cup W
        /\ UNCHANGED <<count, async_release, field, suspected_object_list, roots, pending, root, todo,
                       current, idx, seen, is_cyclic_root, cycle_objects, counted, count_map,
                       non_cycle_objects, releasing>>
    BY <1>a DEF MarkWhite, CollectorAt, rootVars
  <1>1. /\ pc'[Collector] = "red_unlock" /\ ret' = ret /\ OthersStay(Collector)
        /\ UNCHANGED <<loopVars, waitVars>> /\ ret[Collector] # "release_field"
        /\ ~InRelease /\ ~InRelease'
    <2>1. "red_unlock" \in CollectorLabels /\ pc[Collector] \in CollectorLabels
      BY <1>0 DEF CollectorLabels
    <2>2. /\ pc'[Collector] = "red_unlock" /\ ret' = ret /\ OthersStay(Collector)
          /\ UNCHANGED <<loopVars, waitVars>> /\ ret[Collector] # "release_field"
          /\ InRelease <=> pc[Collector] \in {"release", "release_field", "kill"}
          /\ InRelease' <=> "red_unlock" \in {"release", "release_field", "kill"}
      BY <1>0, <2>1, CollectorGoes
    <2> QED
      BY <1>0, <2>2
  <1>2. /\ W \subseteq Counted /\ Counted \subseteq Obj
        /\ \A w \in W : /\ Locals(w) = {} /\ Calls(w) = {}
                        /\ \A p \in Obj, i \in Slots : <<p, i>> \in Fields(w) => p \in W
    BY <1>0, <1>a, WhiteApart DEF Counted, Kept, Condemned
  <1>3. \A o \in Obj : /\ o \in W => state'[o] = "waiting_for_gc"
                       /\ o \notin W => state'[o] = state[o]
    BY <1>0
  <1>4. CollectorMoves
    <2>1. \A o \in Obj : /\ state[o] \in {"live", "process_gc"} /\ count[o] = 0 => state'[o] = state[o]
                         /\ state'[o] # "dead" => state[o] # "dead"
      BY <1>2, <1>3 DEF Counted, Kept, Condemned
    <2> QED
      BY <1>0, <1>1, <2>1 DEF CollectorMoves, CollectorLabels
  <1>5. /\ HandsDying' /\ HandsApart' /\ FlowInv' /\ MutatorInv' /\ AcyclicInv'
        /\ \A u \in Threads : \A p, i : Owed(u, p, i)' <=> Owed(u, p, i)
        /\ \A o : Locals(o)' = Locals(o) /\ Calls(o)' = Calls(o)
    BY <1>1, <1>4, CollectorFrame
  <1>6. Kept' = Kept \ W /\ Condemned' = Condemned \cup W
    <2>1. \A o \in Obj : o \in W => count[o] > 0
      BY <1>2 DEF Counted, Kept, Condemned
    <2> QED
      BY <1>0, <1>2, <1>3, <2>1 DEF Kept, Condemned
  <1>7. \A p \in Obj, i \in Slots : Carries(p, i)' <=> Carries(p, i)
    <2>1. \A p, i : ~GaveUp(p, i) /\ ~GaveUp(p, i)'
      BY <1>1 DEF GaveUp
    <2> QED
      BY <1>2, <1>5, <1>6, <2>1 DEF Carries, Counted
  <1>8. \A o : SameTokens(o)
    <2>1. \A o : Fields(o)' = Fields(o)
      BY <1>0, <1>7, FieldsSame
    <2> QED
      BY <1>5, <2>1 DEF SameTokens
  <1>9. CountInv'
    <2> SUFFICES ASSUME NEW o \in Obj PROVE CountOK(o)'
      BY DEF CountInv
    <2>1. CountOK(o) /\ Tokens(o)' = Tokens(o) /\ count'[o] = count[o]
      BY <1>0, <1>8 DEF CountInv, SameTokens, Tokens
    <2>2. CASE o \in W
      <3>1. /\ Locals(o)' = {} /\ Calls(o)' = {}
            /\ \A p \in Obj, i \in Slots : <<p, i>> \in Fields(o)' => p \in Condemned'
        BY <1>2, <1>6, <1>8, <2>2 DEF SameTokens
      <3>2. state'[o] = "waiting_for_gc" /\ o \notin Kept'
        BY <1>3, <1>6, <2>2
      <3> QED
        BY <2>1, <3>1, <3>2 DEF CountOK
    <2>3. CASE o \notin W
      <3>1. state'[o] = state[o] /\ (o \in Kept' <=> o \in Kept) /\ (o \in Condemned' <=> o \in Condemned)
        BY <1>3, <1>6, <2>3
      <3>2. o \in Condemned =>
              /\ Locals(o)' = {} /\ Calls(o)' = {}
              /\ \A p \in Obj, i \in Slots : <<p, i>> \in Fields(o)' => p \in Condemned'
        BY <1>6, <1>8, <2>1 DEF SameTokens, CountOK
      <3> QED
        BY <2>1, <3>1, <3>2 DEF CountOK
    <2> QED
      BY <2>2, <2>3
  <1>10. RedInv' /\ GrayInv'
    BY <1>1 DEF RedInv, GrayInv
  <1>11. ReleaseInv'
    <2>1. \A o \in release_objects \cup W : o \in Obj /\ state'[o] = "waiting_for_gc"
      BY <1>2, <1>3 DEF ReleaseInv, TypeInv, VariablesTyped, CollectorTypeOK
    <2>2. \A o \in release_objects \cup W : count[o] = 0 =>
            Children(field, o) \subseteq release_objects \cup W
      BY <1>0, <1>2 DEF ReleaseInv, Counted, Kept, Condemned
    <2>3. Condemned' \subseteq release_objects \cup W /\ releasing \subseteq release_objects \cup W
      BY <1>6 DEF ReleaseInv
    <2> QED
      BY <1>0, <1>1, <2>1, <2>2, <2>3 DEF ReleaseInv
  <1>12. ListInv'
    <2>1. root \in roots
      BY <1>0 DEF ListInv
    <2>2. \A o \in Obj : state'[o] = "dead" <=> state[o] = "dead"
      BY <1>2, <1>3 DEF Counted, Kept, Condemned
    <2> QED
      BY <1>0, <1>1, <1>4, <2>1, <2>2, ListsStay
  <1> QED
    BY <1>5, <1>9, <1>10, <1>11, <1>12

\* Everything is unlocked.
LEMMA UnlockAllOwn ==
  ASSUME Inv, UnlockAll, UNCHANGED mutatorVars
  PROVE  OwnInv'
  <1> USE DEF Inv, OwnInv, LockInv
  <1>0. /\ pc[Collector] = "red_unlock"
        /\ UNCHANGED <<state, count, async_release, field, suspected_object_list, roots, pending,
                       release_objects, releasing>>
    BY DEF UnlockAll, CollectorAt
  <1>1. CASE CollectorGoto("next_root") /\ ForgetRoot
    <2>1. /\ pc'[Collector] = "next_root" /\ ret' = ret /\ ret[Collector] # "release_field"
          /\ ~InRelease /\ ~InRelease' /\ Condemned' = Condemned /\ CollectorMoves
          /\ RedInv' /\ GrayInv' /\ ReleaseInv' /\ ListInv' => OwnInv'
      BY <1>0, <1>1, MarkingStep
    <2>2. RedInv' /\ GrayInv'
      BY <2>1 DEF RedInv, GrayInv
    <2>3. ReleaseInv'
      BY <1>0, <1>1, <2>1 DEF ReleaseInv, ForgetRoot
    <2>4. ListInv'
      BY <1>0, <2>1, ListsStay
    <2> QED
      BY <2>1, <2>2, <2>3, <2>4
  <1>2. CASE /\ CollectorGoto("check") /\ todo' = {root} /\ cycle_objects' = {}
             /\ UNCHANGED <<root, current, idx, seen, is_cyclic_root, counted, count_map,
                            non_cycle_objects>>
    <2>1. /\ pc'[Collector] = "check" /\ ret' = ret /\ ret[Collector] # "release_field"
          /\ ~InRelease /\ ~InRelease' /\ Condemned' = Condemned /\ CollectorMoves
          /\ RedInv' /\ GrayInv' /\ ReleaseInv' /\ ListInv' => OwnInv'
      BY <1>0, <1>2, MarkingStep
    <2>2. RedInv' /\ GrayInv'
      BY <2>1 DEF RedInv, GrayInv
    <2>3. ReleaseInv'
      BY <1>0, <1>2, <2>1 DEF ReleaseInv
    <2>4. ListInv'
      <3>1. root \in roots
        BY <1>0 DEF ListInv
      <3> QED
        BY <1>0, <1>2, <2>1, <3>1, ListsStay
    <2> QED
      BY <2>1, <2>2, <2>3, <2>4
  <1> QED
    BY <1>1, <1>2 DEF UnlockAll

\* One object below a root that is on no cycle: the root is left alone, all
\* that was found is condemned, or the search goes on.
LEMMA CheckWaitingOwn ==
  ASSUME Inv, CheckWaiting, UNCHANGED mutatorVars
  PROVE  OwnInv'
  <1> USE DEF Inv, OwnInv, LockInv
  <1>a. PICK o \in todo :
          \/ /\ state[o] # "waiting_for_gc" /\ CollectorGoto("next_root") /\ ForgetRoot
             /\ release_objects' = release_objects
          \/ /\ state[o] = "waiting_for_gc"
             /\ (todo \ {o}) \cup (Children(field, o) \ (non_cycle_objects \cup {o})) = {}
             /\ release_objects' = release_objects \cup (non_cycle_objects \cup {o})
             /\ CollectorGoto("next_root") /\ ForgetRoot
          \/ /\ state[o] = "waiting_for_gc"
             /\ non_cycle_objects' = non_cycle_objects \cup {o}
             /\ todo' = (todo \ {o}) \cup (Children(field, o) \ (non_cycle_objects \cup {o}))
             /\ UNCHANGED <<callVars, root, current, idx, seen, is_cyclic_root,
                            cycle_objects, counted, count_map, release_objects>>
    BY DEF CheckWaiting
  <1>b. PICK found, rest : /\ found = non_cycle_objects \cup {o}
                           /\ rest = (todo \ {o}) \cup (Children(field, o) \ found)
    OBVIOUS
  <1>0. /\ o \in todo /\ found = non_cycle_objects \cup {o}
        /\ rest = (todo \ {o}) \cup (Children(field, o) \ found)
        /\ \/ /\ state[o] # "waiting_for_gc" /\ CollectorGoto("next_root") /\ ForgetRoot
              /\ release_objects' = release_objects
           \/ /\ state[o] = "waiting_for_gc" /\ rest = {}
              /\ release_objects' = release_objects \cup found
              /\ CollectorGoto("next_root") /\ ForgetRoot
           \/ /\ state[o] = "waiting_for_gc" /\ non_cycle_objects' = found /\ todo' = rest
              /\ UNCHANGED <<callVars, root, current, idx, seen, is_cyclic_root,
                             cycle_objects, counted, count_map, release_objects>>
    BY <1>a, <1>b, Zenon
  <1>1. /\ pc[Collector] = "check" /\ o \in Obj
        /\ UNCHANGED <<state, count, field, async_release, suspected_object_list, roots, pending, releasing>>
    BY DEF CheckWaiting, CollectorAt, heapVars, TypeInv, VariablesTyped, CollectorTypeOK
  <1>2. \A x \in non_cycle_objects : /\ state[x] = "waiting_for_gc"
                                     /\ Children(field, x) \subseteq non_cycle_objects \cup todo
    BY <1>1 DEF ReleaseInv
  <1>3. \A x \in found : Children(field, x) \subseteq found \cup rest
    BY <1>0, <1>2
  <1>4. CASE CollectorGoto("next_root") /\ ForgetRoot
    <2>1. /\ pc'[Collector] = "next_root" /\ ret' = ret /\ ret[Collector] # "release_field"
          /\ ~InRelease /\ ~InRelease' /\ Condemned' = Condemned /\ CollectorMoves
          /\ RedInv' /\ GrayInv' /\ ReleaseInv' /\ ListInv' => OwnInv'
      BY <1>1, <1>4, MarkingStep
    <2>2. RedInv' /\ GrayInv'
      BY <2>1 DEF RedInv, GrayInv
    <2>3. /\ release_objects \subseteq release_objects'
          /\ \A x \in release_objects' \ release_objects :
               x \in found /\ state[x] = "waiting_for_gc" /\ Children(field, x) \subseteq release_objects'
      <3>1. CASE release_objects' = release_objects
        BY <3>1
      <3>2. CASE release_objects' # release_objects
        <4>1. state[o] = "waiting_for_gc" /\ rest = {} /\ release_objects' = release_objects \cup found
          BY <1>0, <3>2
        <4>2. \A x \in found : state[x] = "waiting_for_gc"
          BY <1>0, <1>2, <4>1
        <4> QED
          BY <1>3, <4>1, <4>2
      <3> QED
        BY <3>1, <3>2
    <2>4. \A x \in release_objects' :
            state[x] = "waiting_for_gc" /\ (count[x] = 0 => Children(field, x) \subseteq release_objects')
      <3>1. \A x \in release_objects :
              state[x] = "waiting_for_gc" /\ (count[x] = 0 => Children(field, x) \subseteq release_objects)
        BY <1>1 DEF ReleaseInv
      <3> QED
        BY <2>3, <3>1
    <2>5. ReleaseInv'
      BY <1>1, <1>4, <2>1, <2>3, <2>4 DEF ReleaseInv, ForgetRoot
    <2>6. ListInv'
      BY <1>1, <2>1, <2>3, ListsStay
    <2> QED
      BY <2>1, <2>2, <2>5, <2>6
  <1>5. CASE /\ state[o] = "waiting_for_gc" /\ non_cycle_objects' = found /\ todo' = rest
             /\ UNCHANGED <<callVars, root, current, idx, seen, is_cyclic_root,
                            cycle_objects, counted, count_map, release_objects>>
    <2>1. /\ pc'[Collector] = "check" /\ ret' = ret /\ ret[Collector] # "release_field"
          /\ ~InRelease /\ ~InRelease' /\ Condemned' = Condemned /\ CollectorMoves
          /\ RedInv' /\ GrayInv' /\ ReleaseInv' /\ ListInv' => OwnInv'
      BY <1>1, <1>5, MarkingStep
    <2>2. RedInv' /\ GrayInv'
      BY <2>1 DEF RedInv, GrayInv
    <2>3. \A x \in found : state[x] = "waiting_for_gc"
      BY <1>0, <1>2, <1>5
    <2>4. ReleaseInv'
      BY <1>1, <1>3, <1>5, <2>1, <2>3 DEF ReleaseInv
    <2>5. ListInv'
      <3>1. root \in roots
        BY <1>1 DEF ListInv
      <3> QED
        BY <1>1, <1>5, <2>1, <3>1, ListsStay
    <2> QED
      BY <2>1, <2>2, <2>4, <2>5
  <1> QED
    BY <1>0, <1>4, <1>5

\* A step of the release that gives up no field, with a list left alone.
LEMMA ReleasePhase ==
  ASSUME Inv, NEW label \in {"release", "release_field", "kill"},
         CollectorGoto(label),
         pc[Collector] \in {"next_root", "release", "release_field", "kill"},
         UNCHANGED <<state, count, field, async_release, mutatorVars>>,
         \A p \in Condemned, i \in Slots : GaveUp(p, i)' <=> GaveUp(p, i)
  PROVE  /\ pc'[Collector] = label /\ ret' = ret /\ ret[Collector] # "release_field"
         /\ InRelease'
         /\ Kept' = Kept /\ Condemned' = Condemned
         /\ CollectorMoves
         /\ ReleaseInv' /\ ListInv' => OwnInv'
  <1> USE DEF Inv, LockInv
  <1>1. label \in CollectorLabels /\ pc[Collector] \in CollectorLabels
    BY DEF CollectorLabels
  <1>2. /\ pc'[Collector] = label /\ ret' = ret /\ OthersStay(Collector)
        /\ UNCHANGED <<loopVars, waitVars>> /\ ret[Collector] # "release_field" /\ InRelease'
    BY <1>1, CollectorGoes
  <1>3. CollectorMoves
    BY <1>1, <1>2 DEF CollectorMoves, CollectorLabels
  <1>4. pc'[Collector] # "dec" /\ state' = state
    BY <1>2
  <1>5. /\ Kept' = Kept /\ Condemned' = Condemned
        /\ RedInv' /\ GrayInv' /\ ReleaseInv' /\ ListInv' => OwnInv'
    BY <1>3, <1>4, QuietStep
  <1>6. RedInv' /\ GrayInv'
    BY <1>2 DEF RedInv, GrayInv
  <1> QED
    BY <1>2, <1>3, <1>5, <1>6

\* The lists of suspected objects in a step of the release.
LEMMA ListsShrink ==
  ASSUME OwnInv, CollectorMoves, pending' = {}, roots' \subseteq roots,
         suspected_object_list' \subseteq suspected_object_list,
         \A o \in suspected_object_list \cup roots :
           o \in suspected_object_list' \cup roots' \/ o \in release_objects',
         \A o \in release_objects : o \in release_objects' \/ state'[o] = "dead",
         \A o \in release_objects' \ releasing' : o \notin roots' \cup suspected_object_list',
         \A o \in Obj : state'[o] = "dead" => state[o] = "dead" \/ o \notin roots' \cup suspected_object_list',
         pc'[Collector] \notin {"idle", "red", "red_read", "gray", "red_unlock", "check"}
  PROVE  ListInv'
  <1> USE DEF OwnInv
  <1>1. /\ {tgt[u] : u \in {v \in Threads : pc[v] = "insert"}}' =
             {tgt[u] : u \in {v \in Threads : pc[v] = "insert"}}
        /\ \A o : Suspected(o)' <=> Suspected(o)
        /\ \A u \in Threads : /\ pc'[u] = "cas" => tgt'[u] \in CyclicType
                              /\ pc'[u] = "insert" => Suspected(tgt[u])'
    BY CollectorFrame
  <1>2. \A o \in Obj : state'[o] # "dead" => state[o] # "dead"
    BY DEF CollectorMoves
  <1>3. SuspectedTracked'
    BY <1>1, <1>2 DEF ListInv, SuspectedTracked
  <1> QED
    BY <1>1, <1>3 DEF ListInv

\* All roots are visited: what was condemned is released.
LEMMA EndRootsOwn ==
  ASSUME Inv, EndRoots, UNCHANGED mutatorVars
  PROVE  OwnInv'
  <1> USE DEF Inv, OwnInv, LockInv
  <1>0. /\ pc[Collector] = "next_root" /\ pending = {} /\ releasing' = release_objects
        /\ CollectorGoto("release")
        /\ UNCHANGED <<state, count, async_release, field, suspected_object_list, roots, pending, todo,
                       current, idx, is_cyclic_root, cycle_objects, counted, non_cycle_objects,
                       release_objects>>
    BY DEF EndRoots, CollectorAt, heapVars, rootVars
  <1>1. ~InRelease
    BY <1>0 DEF InRelease, TypeInv, CollectorOK
  <1>2. \A p \in Condemned, i \in Slots : GaveUp(p, i)' <=> GaveUp(p, i)
    BY <1>0, <1>1 DEF GaveUp, ReleaseInv
  <1>3. /\ pc'[Collector] = "release" /\ ret' = ret /\ ret[Collector] # "release_field"
        /\ InRelease' /\ Condemned' = Condemned /\ CollectorMoves
        /\ ReleaseInv' /\ ListInv' => OwnInv'
    BY <1>0, <1>2, ReleasePhase
  <1>4. ReleaseInv'
    BY <1>0, <1>3 DEF ReleaseInv
  <1>5. ListInv'
    BY <1>0, <1>3, ListsShrink
  <1> QED
    BY <1>3, <1>4, <1>5

\* The next object to release is taken off the lists.
LEMMA EraseReleasedOwn ==
  ASSUME Inv, EraseReleased, UNCHANGED mutatorVars
  PROVE  OwnInv'
  <1> USE DEF Inv, OwnInv, LockInv
  <1>0. PICK o \in releasing :
          /\ pc[Collector] = "release" /\ CollectorGoto("release_field")
          /\ releasing' = releasing \ {o} /\ current' = o /\ roots' = roots \ {o}
          /\ suspected_object_list' =
               IF Suspected(o) THEN suspected_object_list \ {o} ELSE suspected_object_list
          /\ UNCHANGED <<state, count, async_release, field, pending, todo, idx, is_cyclic_root,
                         cycle_objects, counted, non_cycle_objects, release_objects>>
    BY DEF EraseReleased, CollectorAt, heapVars
  <1>1. InRelease /\ current = Null /\ idx = 1 /\ ret[Collector] # "release_field"
    BY <1>0 DEF InRelease, ReleaseInv, TypeInv, CollectorOK
  <1>2. o \in release_objects /\ o \in Obj /\ releasing \subseteq release_objects
    BY <1>0 DEF ReleaseInv, TypeInv, VariablesTyped, CollectorTypeOK
  <1>3. InRelease'
    BY <1>0, CollectorAssumption
       DEF InRelease, CollectorGoto, Goto, TypeInv, VariablesTyped, RefCountTypeOK, CallTypeOK
  <1>4. \A p \in Condemned, i \in Slots : GaveUp(p, i)' <=> GaveUp(p, i)
    <2> SUFFICES ASSUME NEW p \in Condemned, NEW i \in Slots PROVE GaveUp(p, i)' <=> GaveUp(p, i)
      OBVIOUS
    <2>1. p # Null /\ ~(i < 1)
      BY NullAssumption DEF Condemned, Slots
    <2> QED
      BY <1>0, <1>1, <1>3, <2>1 DEF GaveUp
  <1>5. /\ pc'[Collector] = "release_field" /\ ret' = ret /\ ret[Collector] # "release_field"
        /\ InRelease' /\ Condemned' = Condemned /\ CollectorMoves
        /\ ReleaseInv' /\ ListInv' => OwnInv'
    BY <1>0, <1>4, ReleasePhase
  <1>6. ReleaseInv'
    BY <1>0, <1>1, <1>2, <1>5 DEF ReleaseInv
  <1>7. ListInv'
    <2>1. /\ suspected_object_list' = suspected_object_list \ {o}
          /\ \A x \in release_objects \ releasing : x \notin roots \cup suspected_object_list
      BY <1>0, <1>1 DEF ListInv, SuspectedTracked
    <2>2. \A x \in release_objects' \ releasing' : x \notin roots' \cup suspected_object_list'
      BY <1>0, <2>1
    <2>3. \A x \in suspected_object_list \cup roots :
             x \in suspected_object_list' \cup roots' \/ x \in release_objects'
      BY <1>0, <1>2, <2>1
    <2>4. pending' = {}
      BY <1>0, <1>1 DEF ListInv
    <2> QED
      BY <1>0, <1>5, <2>1, <2>2, <2>3, <2>4, ListsShrink
  <1> QED
    BY <1>5, <1>6, <1>7

\* All fields of the object are given up.
LEMMA ReleaseNextOwn ==
  ASSUME Inv, ReleaseNext, UNCHANGED mutatorVars
  PROVE  OwnInv'
  <1> USE DEF Inv, OwnInv, LockInv
  <1>0. /\ pc[Collector] = "release_field" /\ idx \notin Slots /\ idx' = 1 /\ current' = Null
        /\ CollectorGoto("release")
        /\ UNCHANGED <<state, count, async_release, field, suspected_object_list, roots, pending, todo,
                       is_cyclic_root, cycle_objects, counted, non_cycle_objects,
                       release_objects, releasing>>
    BY DEF ReleaseNext, CollectorAt, heapVars
  <1>1. InRelease /\ InRelease'
    BY <1>0, CollectorAssumption
       DEF InRelease, CollectorGoto, Goto, TypeInv, VariablesTyped, RefCountTypeOK, CallTypeOK
  <1>2. \A i \in Slots : i < idx
    BY <1>0, SlotsAssumption DEF TypeInv, VariablesTyped, CollectorTypeOK, ReleaseInv, Slots
  <1>3. \A p \in Condemned, i \in Slots : GaveUp(p, i)' <=> GaveUp(p, i)
    BY <1>0, <1>1, <1>2, NullAssumption DEF GaveUp, Condemned
  <1>4. /\ pc'[Collector] = "release" /\ ret' = ret /\ ret[Collector] # "release_field"
        /\ InRelease' /\ Condemned' = Condemned /\ CollectorMoves
        /\ ReleaseInv' /\ ListInv' => OwnInv'
    BY <1>0, <1>3, ReleasePhase
  <1>5. ReleaseInv'
    BY <1>0, <1>1, <1>4 DEF ReleaseInv
  <1>6. ListInv'
    BY <1>0, <1>1, <1>4, ListsShrink DEF ListInv
  <1> QED
    BY <1>4, <1>5, <1>6

\* All objects have given up their fields.
LEMMA EndReleaseOwn ==
  ASSUME Inv, EndRelease, UNCHANGED mutatorVars
  PROVE  OwnInv'
  <1> USE DEF Inv, OwnInv, LockInv
  <1>0. /\ pc[Collector] = "release" /\ releasing = {} /\ CollectorGoto("kill")
        /\ UNCHANGED <<state, count, async_release, field, suspected_object_list, roots, pending, todo,
                       current, idx, is_cyclic_root, cycle_objects, counted, non_cycle_objects,
                       release_objects, releasing>>
    BY DEF EndRelease, CollectorAt, heapVars, collectorVars, rootVars
  <1>1. InRelease /\ InRelease'
    BY <1>0, CollectorAssumption
       DEF InRelease, CollectorGoto, Goto, TypeInv, VariablesTyped, RefCountTypeOK, CallTypeOK
  <1>2. \A p \in Condemned, i \in Slots : GaveUp(p, i)' <=> GaveUp(p, i)
    BY <1>0, <1>1 DEF GaveUp
  <1>3. /\ pc'[Collector] = "kill" /\ ret' = ret /\ ret[Collector] # "release_field"
        /\ InRelease' /\ Condemned' = Condemned /\ CollectorMoves
        /\ ReleaseInv' /\ ListInv' => OwnInv'
    BY <1>0, <1>2, ReleasePhase
  <1>4. ReleaseInv'
    BY <1>0, <1>3 DEF ReleaseInv
  <1>5. ListInv'
    BY <1>0, <1>1, <1>3, ListsShrink DEF ListInv
  <1> QED
    BY <1>3, <1>4, <1>5

\* A field of a condemned object is given up: if it holds an object in use the
\* reference goes to decrement_reference_count, otherwise it vanishes.
LEMMA ReleaseFieldOwn ==
  ASSUME Inv, TypeInv', ReleaseField, UNCHANGED mutatorVars
  PROVE  OwnInv'
  <1> USE DEF Inv, OwnInv, LockInv
  <1>a. PICK f, c, j : f = field[current][idx] /\ c = current /\ j = idx
    OBVIOUS
  <1>0. /\ pc[Collector] = "release_field" /\ j \in Slots /\ idx' = j + 1 /\ current' = c
        /\ UNCHANGED <<state, count, async_release, field, suspected_object_list, roots, pending, todo,
                       is_cyclic_root, cycle_objects, counted, non_cycle_objects,
                       release_objects, releasing>>
        /\ \/ /\ f # Null /\ state[f] = "live" /\ CallDecrement(Collector, f, "release_field")
              /\ UNCHANGED <<loopVars, waitVars>>
           \/ (f = Null \/ state[f] # "live") /\ UNCHANGED callVars
    BY <1>a DEF ReleaseField, CollectorAt, heapVars
  <1>1. PICK call \in BOOLEAN : call <=> f # Null /\ state[f] = "live"
    OBVIOUS
  <1>2. /\ UNCHANGED <<loopVars, waitVars>> /\ OthersStay(Collector)
        /\ call => pc'[Collector] = "dec" /\ ret'[Collector] = "release_field" /\ tgt'[Collector] = f
        /\ ~call => pc'[Collector] = "release_field" /\ ret'[Collector] = ret[Collector]
    <2>1. CASE call
      <3>1. /\ CallDecrement(Collector, f, "release_field") /\ UNCHANGED <<loopVars, waitVars>>
        BY <1>0, <1>1, <2>1
      <3>2. /\ pc'[Collector] = "dec" /\ ret'[Collector] = "release_field" /\ tgt'[Collector] = f
            /\ \A u \in Threads \ {Collector} : pc'[u] = pc[u] /\ ret'[u] = ret[u] /\ tgt'[u] = tgt[u]
        BY <3>1, CollectorAssumption
           DEF CallDecrement, Goto, TypeInv, VariablesTyped, RefCountTypeOK, CallTypeOK
      <3> QED
        BY <2>1, <3>1, <3>2 DEF OthersStay, loopVars, waitVars
    <2>2. CASE ~call
      <3>1. UNCHANGED callVars
        BY <1>0, <1>1, <2>2
      <3> QED
        BY <1>0, <2>2, <3>1 DEF callVars, OthersStay, loopVars, waitVars
    <2> QED
      BY <2>1, <2>2
  <1>3. CollectorMoves
    BY <1>0, <1>2 DEF CollectorMoves, CollectorLabels
  <1>4. /\ HandsDying' /\ HandsApart' /\ FlowInv' /\ MutatorInv' /\ AcyclicInv'
        /\ \A u \in Threads : \A p, i : Owed(u, p, i)' <=> Owed(u, p, i)
        /\ \A o : Locals(o)' = Locals(o)
        /\ pc'[Collector] # "dec" => \A o : Calls(o)' = Calls(o)
    BY <1>3, CollectorFrame
  <1>5. InRelease /\ InRelease'
    BY <1>0, <1>2 DEF InRelease
  <1>6. /\ c \in Obj /\ c \in release_objects \ releasing /\ state[c] = "waiting_for_gc"
        /\ j \in Nat /\ j >= 1
    BY <1>0, <1>a DEF ReleaseInv, TypeInv, CollectorOK, Slots
  <1>7. Kept' = Kept /\ Condemned' = Condemned
    BY <1>0 DEF Kept, Condemned
  <1>8. \A p \in Obj, i \in Slots : GaveUp(p, i)' <=> GaveUp(p, i) \/ (p = c /\ i = j)
    <2> SUFFICES ASSUME NEW p \in Obj, NEW i \in Slots
                 PROVE  GaveUp(p, i)' <=> GaveUp(p, i) \/ (p = c /\ i = j)
      OBVIOUS
    <2>1. i < j + 1 <=> i < j \/ i = j
      BY <1>6 DEF Slots
    <2> QED
      BY <1>0, <1>5, <1>6, <1>a, <2>1 DEF GaveUp
  <1>9. ~GaveUp(c, j)
    BY <1>6, <1>a DEF GaveUp
  <1>10. \A t \in Threads : \A i : ~Owed(t, c, i)
    BY <1>6, WaitingNotOwed
  <1>11. \A p \in Obj, i \in Slots : Carries(p, i)' <=> Carries(p, i) /\ ~(p = c /\ i = j)
    <2> SUFFICES ASSUME NEW p \in Obj, NEW i \in Slots
                 PROVE  Carries(p, i)' <=> Carries(p, i) /\ ~(p = c /\ i = j)
      OBVIOUS
    <2>1. CASE p = c /\ i = j
      <3>1. c \notin Kept /\ GaveUp(c, j)' /\ \A t \in Threads : ~Owed(t, c, j)'
        BY <1>0, <1>4, <1>6, <1>8, <1>10 DEF Kept
      <3> QED
        BY <1>7, <2>1, <3>1 DEF Carries
    <2>2. CASE ~(p = c /\ i = j)
      BY <1>4, <1>7, <1>8, <2>2 DEF Carries
    <2> QED
      BY <2>1, <2>2
  <1>12. \A o : o # f => Fields(o)' = Fields(o)
    <2> SUFFICES ASSUME NEW o, o # f PROVE Fields(o)' = Fields(o)
      OBVIOUS
    <2>1. \A p \in Obj, i \in Slots :
            (field'[p][i] = o /\ Carries(p, i)') <=> (field[p][i] = o /\ Carries(p, i))
      BY <1>0, <1>11, <1>a
    <2> QED
      BY <2>1, FieldsSame
  <1>13. ~Calling(Collector)
    BY <1>0 DEF Calling, Operating
  <1>14. \A o : o # f \/ ~call => Calls(o)' = Calls(o)
    <2>1. CASE ~call
      BY <1>2, <1>4, <2>1
    <2>2. CASE call
      <3> SUFFICES ASSUME NEW o, o # f PROVE Calls(o)' = Calls(o)
        BY <2>2
      <3>1. \A t \in Threads : (tgt'[t] = o /\ Calling(t)') <=> (tgt[t] = o /\ Calling(t))
        <4>1. \A t \in Threads \ {Collector} : tgt'[t] = tgt[t] /\ (Calling(t)' <=> Calling(t))
          BY <1>2, OthersFrame DEF OthersStay
        <4> QED
          BY <1>2, <1>13, <2>2, <4>1
      <3> QED
        BY <3>1, CallsSame
    <2> QED
      BY <2>1, <2>2
  <1>15. \A o : o # f => SameTokens(o)
    BY <1>4, <1>12, <1>14 DEF SameTokens
  <1>16. ASSUME f \in Obj
         PROVE  CountOK(f)'
    <2>0. f # Null /\ CountOK(f) /\ field[c][j] = f
      BY <1>16, <1>a, NullAssumption DEF CountInv
    <2>00. count[f] \in Nat /\ state[f] \in ObjectState
      BY <1>16, SizeAssumption DEF TypeInv, VariablesTyped, RefCountTypeOK, HeapTypeOK
    <2>1. CASE c \notin Condemned
      <3>1. count[c] = 0
        BY <1>6, <2>1, SizeAssumption DEF Condemned, TypeInv, VariablesTyped, RefCountTypeOK, HeapTypeOK
      <3>2. f \in release_objects
        <4>1. f \in Children(field, c)
          BY <1>0, <2>0 DEF Children
        <4> QED
          BY <1>0, <1>6, <3>1, <4>1 DEF ReleaseInv
      <3>3. ~call
        BY <1>1, <3>2 DEF ReleaseInv
      <3>4. ~Carries(c, j)
        BY <1>6, <1>10, <2>1 DEF Carries, Kept
      <3>5. \A p \in Obj, i \in Slots :
              (field'[p][i] = f /\ Carries(p, i)') <=> (field[p][i] = f /\ Carries(p, i))
        BY <1>0, <1>11, <3>4
      <3>6. SameTokens(f)
        BY <1>4, <1>14, <3>3, <3>5, FieldsSame DEF SameTokens
      <3> QED
        BY <1>0, <1>7, <1>16, <2>0, <3>6, CountFrame
    <2>2. CASE c \in Condemned
      <3>0. PICK e : e = <<c, j>>
        OBVIOUS
      <3>1. e \in Fields(f)
        <4>1. Carries(c, j)
          BY <1>9, <2>2 DEF Carries
        <4> QED
          BY <1>0, <1>6, <2>0, <3>0, <4>1, Membership
      <3>2. Fields(f)' = Fields(f) \ {e}
        <4>1. \A p \in Obj, i \in Slots :
                (field'[p][i] = f /\ Carries(p, i)') <=>
                  (field[p][i] = f /\ Carries(p, i) /\ ~(p = c /\ i = j))
          BY <1>0, <1>11
        <4> QED
          BY <1>0, <1>6, <3>0, <4>1, FieldsMinus
      <3>3. Tokens(f) \in Nat /\ Tokens(f) > 0
        BY <3>1, TokensFinite
      <3>4. CASE call
        <4>1. f \in Kept /\ Tokens(f) = count[f]
          BY <1>1, <1>16, <2>0, <2>00, <3>3, <3>4 DEF CountOK, Kept
        <4>2. Calls(f)' = Calls(f) \cup {Collector} /\ Collector \notin Calls(f)
          <5>1. \A t \in Threads \ {Collector} :
                  (tgt'[t] = f /\ Calling(t)') <=> (tgt[t] = f /\ Calling(t))
            BY <1>2, OthersFrame DEF OthersStay
          <5>2. tgt'[Collector] = f /\ Calling(Collector)'
            BY <1>2, <3>4 DEF Calling
          <5>3. Collector \notin Calls(f)
            BY <1>13 DEF Calls, Calling
          <5> QED
            BY <5>1, <5>2, <5>3, CollectorAssumption, CallsPlus
        <4>3. Tokens(f)' = Tokens(f)
          BY <1>4, <3>1, <3>2, <4>2, TokensFieldToCall
        <4>4. state'[f] = "live" /\ count'[f] \in Nat /\ Tokens(f)' = count'[f]
          BY <1>0, <2>00, <4>1, <4>3 DEF Kept
        <4> QED
          BY <1>16, <4>4, CountKept
      <3>5. CASE ~call
        <4>1. f \in Condemned
          BY <1>1, <1>16, <2>0, <2>00, <3>3, <3>5 DEF CountOK, Condemned, ObjectState
        <4>2. Tokens(f)' = Tokens(f) - 1
          BY <1>4, <1>14, <3>1, <3>2, <3>5, TokensMinusField
        <4>3. Tokens(f)' <= count[f]
          BY <2>0, <2>00, <3>3, <4>2 DEF CountOK
        <4>4. /\ Locals(f)' = {} /\ Calls(f)' = {}
              /\ \A p \in Obj, i \in Slots : <<p, i>> \in Fields(f)' => p \in Condemned'
          BY <1>4, <1>7, <1>14, <2>0, <3>2, <3>5, <4>1 DEF CountOK
        <4>5. state'[f] = "waiting_for_gc" /\ count'[f] = count[f] /\ f \notin Kept'
          BY <1>0, <1>7, <4>1 DEF Condemned, Kept
        <4> QED
          BY <4>3, <4>4, <4>5 DEF CountOK
      <3> QED
        BY <3>4, <3>5
    <2> QED
      BY <2>1, <2>2
  <1>17. CountInv'
    <2> SUFFICES ASSUME NEW o \in Obj, o # f PROVE CountOK(o)'
      BY <1>16 DEF CountInv
    <2> QED
      BY <1>0, <1>7, <1>15, CountFrame DEF CountInv
  <1>18. RedInv' /\ GrayInv'
    BY <1>2 DEF RedInv, GrayInv
  <1>19. ReleaseInv'
    <2>1. ret[Collector] # "release_field"
      BY <1>0 DEF TypeInv, CollectorOK
    <2>2. pc'[Collector] = "release_field" \/ ret'[Collector] = "release_field"
      BY <1>2
    <2>3. pc'[Collector] \in {"release_field", "dec"}
      BY <1>2
    <2> QED
      BY <1>0, <1>5, <1>6, <1>7, <2>2, <2>3 DEF ReleaseInv
  <1>20. ListInv'
    <2>1. /\ pending' = {} /\ \A x \in release_objects \ releasing : x \notin roots \cup suspected_object_list
      BY <1>0, <1>5 DEF ListInv
    <2>2. pc'[Collector] \notin {"idle", "red", "red_read", "gray", "red_unlock", "check"}
      BY <1>2
    <2> QED
      BY <1>0, <1>3, <2>1, <2>2, ListsShrink
  <1> QED
    BY <1>4, <1>17, <1>18, <1>19, <1>20

\* When the cells go back no field of a condemned object counts any more.
LEMMA KillTokens ==
  ASSUME Inv, pc[Collector] = "kill"
  PROVE  /\ \A p \in Condemned, i \in Slots : GaveUp(p, i) /\ ~Carries(p, i)
         /\ \A o \in Condemned : Fields(o) = {} /\ Locals(o) = {} /\ Calls(o) = {}
         /\ \A o \in release_objects : Tokens(o) = 0
  <1> USE DEF Inv, OwnInv, LockInv
  <1>1. InRelease /\ releasing = {} /\ current = Null
    BY DEF InRelease, ReleaseInv
  <1>2. ASSUME NEW p \in Condemned, NEW i \in Slots
        PROVE  GaveUp(p, i) /\ ~Carries(p, i)
    <2>1. p \in Obj /\ state[p] = "waiting_for_gc" /\ p \notin Kept
      BY DEF Condemned, Kept
    <2>2. GaveUp(p, i)
      BY <1>1, <2>1, NullAssumption DEF GaveUp
    <2> QED
      BY <2>1, <2>2, WaitingNotOwed DEF Carries
  <1>3. ASSUME NEW o \in Condemned
        PROVE  Fields(o) = {} /\ Locals(o) = {} /\ Calls(o) = {}
    <2>1. CountOK(o)
      BY DEF CountInv, Condemned
    <2>2. \A p \in Obj, i \in Slots : <<p, i>> \notin Fields(o)
      <3> SUFFICES ASSUME NEW p \in Obj, NEW i \in Slots, <<p, i>> \in Fields(o) PROVE FALSE
        OBVIOUS
      <3>1. p \in Condemned /\ Carries(p, i)
        BY <2>1, Membership DEF CountOK
      <3> QED
        BY <1>2, <3>1
    <2>3. Fields(o) = {}
      BY <2>2 DEF Fields
    <2> QED
      BY <2>1, <2>3 DEF CountOK
  <1>4. ASSUME NEW o \in release_objects
        PROVE  Tokens(o) = 0
    <2>1. o \in Obj /\ state[o] = "waiting_for_gc" /\ CountOK(o) /\ count[o] \in Nat
      BY SizeAssumption
         DEF ReleaseInv, CountInv, TypeInv, VariablesTyped, CollectorTypeOK, RefCountTypeOK, HeapTypeOK
    <2>2. CASE count[o] = 0
      BY <2>1, <2>2, TokensFinite DEF CountOK
    <2>3. CASE count[o] # 0
      <3>1. o \in Condemned
        BY <2>1, <2>3 DEF Condemned
      <3> QED
        BY <1>3, <3>1, TokensFinite
    <2> QED
      BY <2>2, <2>3
  <1> QED
    BY <1>2, <1>3, <1>4

\* A cell goes back to the allocator.
LEMMA KillOwn ==
  ASSUME Inv, Kill, UNCHANGED mutatorVars
  PROVE  OwnInv'
  <1> USE DEF Inv, OwnInv, LockInv
  <1>0. PICK d \in release_objects :
          /\ pc[Collector] = "kill" /\ state' = [state EXCEPT ![d] = "dead"]
          /\ release_objects' = release_objects \ {d}
          /\ UNCHANGED <<count, async_release, field, suspected_object_list, callVars, roots, pending,
                         todo, current, idx, is_cyclic_root, cycle_objects, counted,
                         non_cycle_objects, releasing>>
    BY DEF Kill, CollectorAt, rootVars
  <1>1. d \in Obj /\ state[d] = "waiting_for_gc" /\ releasing = {} /\ current = Null
    BY <1>0 DEF ReleaseInv, TypeInv, VariablesTyped, CollectorTypeOK
  <1>2. state'[d] = "dead" /\ \A o \in Obj \ {d} : state'[o] = state[o]
    BY <1>0, <1>1 DEF TypeInv, VariablesTyped, RefCountTypeOK, HeapTypeOK
  <1>3. pc' = pc /\ ret' = ret /\ OthersStay(Collector) /\ UNCHANGED <<loopVars, waitVars>>
    BY <1>0 DEF callVars, OthersStay, loopVars, waitVars
  <1>4. CollectorMoves
    <2>1. \A o \in Obj : /\ state[o] \in {"live", "process_gc"} /\ count[o] = 0 => state'[o] = state[o]
                         /\ state'[o] # "dead" => state[o] # "dead"
      BY <1>1, <1>2
    <2> QED
      BY <1>0, <1>3, <2>1 DEF CollectorMoves, CollectorLabels
  <1>5. /\ HandsDying' /\ HandsApart' /\ FlowInv' /\ MutatorInv' /\ AcyclicInv'
        /\ \A u \in Threads : \A p, i : Owed(u, p, i)' <=> Owed(u, p, i)
        /\ \A o : Locals(o)' = Locals(o) /\ Calls(o)' = Calls(o)
    BY <1>0, <1>3, <1>4, CollectorFrame
  <1>6. Kept' = Kept /\ Condemned' = Condemned \ {d}
    BY <1>0, <1>1, <1>2 DEF Kept, Condemned
  <1>7. InRelease /\ InRelease'
    BY <1>0, <1>3 DEF InRelease
  <1>8. \A p \in Obj, i \in Slots : Carries(p, i)' <=> Carries(p, i)
    <2>1. \A p \in Condemned, i \in Slots : GaveUp(p, i)' /\ GaveUp(p, i)
      BY <1>0, <1>7, KillTokens DEF GaveUp
    <2> QED
      BY <1>5, <1>6, <2>1 DEF Carries
  <1>9. \A o : SameTokens(o)
    <2>1. \A o : Fields(o)' = Fields(o)
      BY <1>0, <1>8, FieldsSame
    <2> QED
      BY <1>5, <2>1 DEF SameTokens
  <1>10. CountInv'
    <2> SUFFICES ASSUME NEW o \in Obj PROVE CountOK(o)'
      BY DEF CountInv
    <2>1. CountOK(o) /\ Tokens(o)' = Tokens(o) /\ count'[o] = count[o] /\ count[o] \in Nat
      BY <1>0, <1>9, SizeAssumption
         DEF CountInv, SameTokens, Tokens, TypeInv, VariablesTyped, RefCountTypeOK, HeapTypeOK
    <2>2. CASE o = d
      <3>1. Tokens(o)' = 0 /\ state'[o] = "dead" /\ o \notin Kept' /\ o \notin Condemned'
        BY <1>0, <1>1, <1>2, <1>6, <2>1, <2>2, KillTokens DEF Kept
      <3> QED
        BY <2>1, <3>1 DEF CountOK
    <2>3. CASE o # d
      <3>1. o \in Condemned => Fields(o)' = {} /\ Locals(o)' = {} /\ Calls(o)' = {}
        BY <1>0, <1>9, KillTokens DEF SameTokens
      <3>2. state'[o] = state[o] /\ (o \in Kept' <=> o \in Kept) /\ (o \in Condemned' <=> o \in Condemned)
        BY <1>2, <1>6, <2>3
      <3> QED
        BY <2>1, <3>1, <3>2 DEF CountOK
    <2> QED
      BY <2>2, <2>3
  <1>11. RedInv' /\ GrayInv'
    BY <1>0, <1>3 DEF RedInv, GrayInv
  <1>12. ReleaseInv'
    <2>1. \A o \in release_objects' : state'[o] = "waiting_for_gc"
      BY <1>0, <1>2 DEF ReleaseInv, TypeInv, VariablesTyped, CollectorTypeOK
    <2>2. Condemned' \subseteq release_objects'
      BY <1>0, <1>6 DEF ReleaseInv
    <2>3. pc'[Collector] = "kill" /\ ret'[Collector] # "release_field"
      BY <1>0, <1>3 DEF TypeInv, CollectorOK
    <2> QED
      BY <1>0, <1>1, <1>3, <2>1, <2>2, <2>3 DEF ReleaseInv
  <1>13. ListInv'
    <2>1. /\ pending' = {} /\ \A x \in release_objects : x \notin roots \cup suspected_object_list
      BY <1>0, <1>1, <1>7 DEF ListInv
    <2> QED
      BY <1>0, <1>2, <1>3, <1>4, <2>1, ListsShrink
  <1> QED
    BY <1>5, <1>10, <1>11, <1>12, <1>13

\* The collection ends.
LEMMA ReinsertOwn ==
  ASSUME Inv, Reinsert, UNCHANGED mutatorVars
  PROVE  OwnInv'
  <1> USE DEF Inv, OwnInv, LockInv
  <1>0. /\ pc[Collector] = "kill" /\ release_objects = {} /\ roots' = {}
        /\ suspected_object_list' = suspected_object_list \cup roots /\ CollectorGoto("idle")
        /\ UNCHANGED <<state, count, async_release, field, pending, todo, current, idx, is_cyclic_root,
                       cycle_objects, counted, non_cycle_objects, release_objects, releasing>>
    BY DEF Reinsert, CollectorAt, heapVars, rootVars
  <1>1. /\ pc'[Collector] = "idle" /\ ret' = ret /\ OthersStay(Collector)
        /\ UNCHANGED <<loopVars, waitVars>> /\ ret[Collector] # "release_field"
        /\ ~InRelease'
    <2>1. "idle" \in CollectorLabels /\ pc[Collector] \in CollectorLabels
      BY <1>0 DEF CollectorLabels
    <2>2. /\ pc'[Collector] = "idle" /\ ret' = ret /\ OthersStay(Collector)
          /\ UNCHANGED <<loopVars, waitVars>> /\ ret[Collector] # "release_field"
          /\ InRelease' <=> "idle" \in {"release", "release_field", "kill"}
      BY <1>0, <2>1, CollectorGoes
    <2> QED
      BY <2>2
  <1>2. CollectorMoves
    BY <1>0, <1>1 DEF CollectorMoves, CollectorLabels
  <1>3. Condemned = {} /\ InRelease
    BY <1>0 DEF ReleaseInv, InRelease
  <1>4. /\ Condemned' = Condemned
        /\ RedInv' /\ GrayInv' /\ ReleaseInv' /\ ListInv' => OwnInv'
    BY <1>0, <1>1, <1>2, <1>3, QuietStep
  <1>5. RedInv' /\ GrayInv'
    BY <1>1 DEF RedInv, GrayInv
  <1>6. ReleaseInv'
    BY <1>0, <1>1, <1>4 DEF ReleaseInv
  <1>7. /\ {tgt[u] : u \in {v \in Threads : pc[v] = "insert"}}' =
             {tgt[u] : u \in {v \in Threads : pc[v] = "insert"}}
        /\ \A o : Suspected(o)' <=> Suspected(o)
        /\ \A u \in Threads : /\ pc'[u] = "cas" => tgt'[u] \in CyclicType
                              /\ pc'[u] = "insert" => Suspected(tgt[u])'
    BY <1>2, CollectorFrame
  <1>8. SuspectedTracked'
    BY <1>0, <1>7 DEF ListInv, SuspectedTracked
  <1>9. ListInv'
    BY <1>0, <1>1, <1>3, <1>7, <1>8 DEF ListInv
  <1> QED
    BY <1>4, <1>5, <1>6, <1>9

\* Every step of gc_collect.
LEMMA CollectorOwn ==
  ASSUME Inv, TypeInv', CollectorStep, UNCHANGED mutatorVars
  PROVE  OwnInv'
  BY MoveListOwn, BeginRootOwn, RedLockOwn, RedReadOwn, RedNextOwn, GrayLoadOwn, MarkWhiteOwn,
     UnlockAllOwn, CheckWaitingOwn, EndRootsOwn, EraseReleasedOwn, ReleaseFieldOwn, ReleaseNextOwn,
     EndReleaseOwn, KillOwn, ReinsertOwn DEF CollectorStep

-----------------------------------------------------------------------------
(***************************************************************************)
(* The invariant holds.                                                    *)
(***************************************************************************)
\* In the beginning main has the only reference, to the module object.
LEMMA InitInv == Init => Inv
  <1> SUFFICES ASSUME Init PROVE Inv
    OBVIOUS
  <1>0. /\ Module \in Obj /\ Main \in Owners /\ Collector \in Threads /\ Main \in Threads
        /\ MaxHeld \in Nat /\ 1 \in 1..MaxHeld
    BY ModuleAssumption, ThreadsAssumption, HeldAssumption DEF Owners
  <1>1. LockInv
    BY InitTypeInv, ThreadsAssumption DEF Init, LockInv, LockExclusive, InGetClone
  <1>2. /\ \A o \in Obj : state[o] = (IF o = Module THEN "live" ELSE "dead")
        /\ \A o \in Obj : count[o] = (IF o = Module THEN 1 ELSE 0)
        /\ \A o \in Obj : ~async_release[o]
        /\ \A o \in Obj, i \in Slots : field[o][i] = Null
        /\ \A t \in Threads : /\ pc[t] = "idle" /\ ret[t] = "idle" /\ tgt[t] = Null
                              /\ dr_object[t] = Null /\ dr_index[t] = 1 /\ dr_check[t] = {}
                              /\ wg_object[t] = Null /\ wg_index[t] = 1 /\ wg_check[t] = {}
                              /\ wg_release[t] = {} /\ wg_roots[t] = {}
        /\ \A m \in Owners, o \in Obj : held[m][o] = (IF m = Main /\ o = Module THEN 1 ELSE 0)
    BY DEF Init
  <1>3. Condemned = {} /\ Kept = {Module} /\ Dying = {}
    BY <1>0, <1>2 DEF Condemned, Kept, Dying
  <1>4. CountInv
    <2> SUFFICES ASSUME NEW o \in Obj PROVE CountOK(o)
      BY DEF CountInv
    <2>1. Fields(o) = {} /\ Calls(o) = {}
      BY <1>2, NullAssumption DEF Fields, Calls
    <2>2. CASE o = Module
      <3>1. Locals(o) = {<<Main, 1>>}
        <4>1. \A m \in Owners, n \in 1..MaxHeld : <<m, n>> \in Locals(o) <=> m = Main /\ n = 1
          <5>1. \A m \in Owners : held[m][o] = IF m = Main THEN 1 ELSE 0
            BY <1>2, <2>2
          <5>2. \A m \in Owners, n \in 1..MaxHeld : n <= held[m][o] <=> m = Main /\ n = 1
            BY <1>0, <5>1
          <5> QED
            BY <5>2, Membership
        <4>2. Locals(o) \subseteq Owners \X (1..MaxHeld)
          BY DEF Locals
        <4> QED
          BY <1>0, <4>1, <4>2
      <3>2. Tokens(o) = 1
        <4>1. Cardinality(Fields(o)) = 0 /\ Cardinality(Calls(o)) = 0
          BY <2>1, FS_EmptySet
        <4>2. Cardinality(Locals(o)) = 1
          BY <3>1, FS_Singleton
        <4> QED
          BY ONLY <4>1, <4>2 DEF Tokens
      <3> QED
        BY <1>2, <1>3, <2>2, <3>2 DEF CountOK
    <2>3. CASE o # Module
      <3>1. Locals(o) = {}
        BY <1>2, <2>3 DEF Locals
      <3>2. Tokens(o) = 0
        BY <2>1, <3>1, TokensFinite
      <3> QED
        BY <1>2, <1>3, <2>3, <3>2 DEF CountOK
    <2> QED
      BY <2>2, <2>3
  <1>5. \A t \in Threads, k \in Kinds, o \in Obj : ~Hand(t, k, o)
    BY <1>2, NullAssumption DEF Hand
  <1>6. HandsDying /\ HandsApart
    BY <1>5 DEF HandsDying, HandsApart
  <1>7. FlowInv
    BY <1>2 DEF FlowInv, WaitLabels, DecrementLabels
  <1>8. AcyclicInv
    BY <1>3 DEF AcyclicInv
  <1>9. RedInv /\ GrayInv
    BY <1>0, <1>2 DEF RedInv, GrayInv
  <1>10. ~InRelease
    BY <1>0, <1>2 DEF InRelease
  <1>11. ReleaseInv
    BY <1>0, <1>2, <1>3, <1>10 DEF ReleaseInv, Init
  <1>12. ListInv
    <2>1. SuspectedTracked
      BY <1>2 DEF SuspectedTracked, Suspected, Init
    <2> QED
      BY <1>0, <1>2, <1>10, <2>1 DEF ListInv, Init
  <1>13. MutatorInv
    BY <1>0, <1>2, ThreadsAssumption, HeldAssumption DEF MutatorInv, Operating, InGetClone, Owners
  <1> QED
    BY <1>1, <1>4, <1>6, <1>7, <1>8, <1>9, <1>11, <1>12, <1>13 DEF Inv, OwnInv

\* Every step preserves it.
LEMMA NextInv == Inv /\ [Next]_vars => Inv'
  <1> SUFFICES ASSUME Inv, [Next]_vars PROVE Inv'
    OBVIOUS
  <1>0. TypeInv /\ LockExclusive /\ TypeInv'
    BY NextTypeInv DEF Inv, LockInv
  <1>1. ASSUME NEW m \in Mutators, MutatorStep(m) PROVE Inv'
    <2>1. OwnInv'
      BY <1>0, <1>1, MallocOwn, GetCloneOwn, GetMoveOwn, SetCloneOwn, SetMoveOwn, GetCloneUnlockOwn,
         SetCloneSwapOwn DEF MutatorStep
    <2> QED
      BY <1>0, <1>1, <2>1, MutatorLock DEF Inv, LockInv
  <1>2. ASSUME NEW m \in Owners, Finish(m) \/ \E o \in Obj : Drop(m, o) PROVE Inv'
    <2>1. OwnInv'
      BY <1>0, <1>2, FinishOwn, DropOwn
    <2> QED
      BY <1>0, <1>2, <2>1, OwnerLock DEF Inv, LockInv
  <1>3. ASSUME NEW t \in Threads, RefCountStep(t), UNCHANGED <<collectorVars, mutatorVars>> PROVE Inv'
    <2>1. OwnInv'
      BY <1>0, <1>3, RefCountOwn
    <2> QED
      BY <1>0, <1>3, <2>1, RefCountLock DEF Inv, LockInv
  <1>4. ASSUME CollectorStep, UNCHANGED mutatorVars PROVE Inv'
    <2>1. OwnInv'
      BY <1>0, <1>4, CollectorOwn
    <2> QED
      BY <1>0, <1>4, <2>1, CollectorLock DEF Inv, LockInv
  <1>5. ASSUME UNCHANGED vars PROVE Inv'
    <2>1. UNCHANGED <<state, count, async_release, lock_flag, field, suspected_object_list, pc, ret, tgt,
                      dr_object, dr_index, dr_check, wg_object, wg_index, wg_check, wg_release, wg_roots,
                      roots, pending, root, todo, current, idx, seen, is_cyclic_root, cycle_objects,
                      counted, count_map, non_cycle_objects, release_objects, releasing, held, par, slot>>
      BY <1>5 DEF vars, heapVars, callVars, loopVars, waitVars, collectorVars, rootVars, mutatorVars
    <2>2. LockExclusive'
      BY <1>0, <2>1 DEF LockExclusive, InGetClone
    <2>3. /\ Kept' = Kept /\ Condemned' = Condemned /\ Dying' = Dying /\ Counted' = Counted
          /\ InRelease' <=> InRelease
          /\ \A t : Operating(t)' <=> Operating(t)
          /\ \A t : InGetClone(t)' <=> InGetClone(t)
          /\ \A t, p, i : Owed(t, p, i)' <=> Owed(t, p, i)
          /\ \A t, k, o : Hand(t, k, o)' <=> Hand(t, k, o)
          /\ \A o : Suspected(o)' <=> Suspected(o)
      BY <2>1 DEF Kept, Condemned, Dying, Counted, InRelease, Operating, InGetClone, Owed, Hand,
                  Suspected
    <2>4. \A p, i : Carries(p, i)' <=> Carries(p, i)
      BY <2>1, <2>3 DEF Carries, GaveUp
    <2>5. \A o : SameTokens(o)
      BY <2>1, <2>3, <2>4 DEF SameTokens, Fields, Locals, Calls
    <2>6. CountInv'
      BY <1>0, <2>1, <2>3, <2>5, CountFrame DEF CountInv, Inv, OwnInv
    <2>7. HandsDying' /\ HandsApart' /\ FlowInv' /\ MutatorInv'
      BY <2>1, <2>3 DEF HandsDying, HandsApart, FlowInv, MutatorInv, Inv, OwnInv
    <2>8. ReachLocked => ReachLocked'
      BY <2>1 DEF ReachLocked
    <2>9. \A o, S : Apart(o, S) => Apart(o, S)'
      BY <2>1 DEF Apart
    <2>10. AcyclicInv'
      BY <2>3, <2>9 DEF AcyclicInv, Inv, OwnInv
    <2>11. RedInv'
      BY <2>1, <2>3, <2>8, <2>9 DEF RedInv, Apart, Inv, OwnInv
    <2>12. GrayInv'
      BY <2>1, <2>3, <2>5, <2>8 DEF GrayInv, SameTokens, Inv, OwnInv
    <2>13. ReleaseInv'
      BY <2>1, <2>3 DEF ReleaseInv, Inv, OwnInv
    <2>14. ListInv'
      BY <2>1, <2>3 DEF ListInv, SuspectedTracked, Suspected, Inv, OwnInv
    <2> QED
      BY <1>0, <2>2, <2>6, <2>7, <2>10, <2>11, <2>12, <2>13, <2>14 DEF Inv, OwnInv, LockInv
  <1> QED
    BY <1>1, <1>2, <1>3, <1>4, <1>5 DEF Next

\* The invariant of the reference counts holds in every behaviour.
LEMMA InvAlways == Spec => []Inv
  BY InitInv, NextInv, PTL DEF Spec

-----------------------------------------------------------------------------
(***************************************************************************)
(* What it means for the objects.                                          *)
(***************************************************************************)
\* The reference count of an object is never below the number of references
\* to it in locals, in fields of live objects and in the hands of a running
\* procedure: no increment is lost and no reference is given up twice.
THEOREM CountsCover == Spec => []CountCovers
  <1>1. Inv => CountCovers
    <2> SUFFICES ASSUME Inv, NEW o \in Obj PROVE count[o] >= References(o)
      BY DEF CountCovers
    <2>1. PICK E : E = EdgesTo(field, {p \in Obj : state[p] = "live" /\ count[p] > 0}, o)
      OBVIOUS
    <2>2. E \subseteq Fields(o)
      <3>1. \A p \in Kept, i \in Slots : field[p][i] = o => <<p, i>> \in Fields(o)
        BY Membership DEF Carries, Kept
      <3> QED
        BY <2>1, <3>1 DEF EdgesTo, Kept
    <2>3. /\ IsFiniteSet(Fields(o)) /\ Cardinality(Fields(o)) \in Nat
          /\ Cardinality(Locals(o)) \in Nat /\ Cardinality(Calls(o)) \in Nat
      BY TokensFinite
    <2>4. IsFiniteSet(E) /\ Cardinality(E) <= Cardinality(Fields(o)) /\ Cardinality(E) \in Nat
      BY ONLY <2>2, <2>3, FS_Subset, FS_CardinalityType
    <2>5. Tokens(o) <= count[o] /\ count[o] \in Nat
      BY SizeAssumption DEF Inv, LockInv, OwnInv, CountInv, CountOK, TypeInv, VariablesTyped,
                            RefCountTypeOK, HeapTypeOK
    <2>6. References(o) = Cardinality(Locals(o)) + Cardinality(E) + Cardinality(Calls(o))
      BY <2>1 DEF References
    <2> QED
      BY ONLY <2>3, <2>4, <2>5, <2>6 DEF Tokens
  <1> QED
    BY <1>1, InvAlways, PTL

\* Nothing a thread can still reach through a reference it holds is condemned
\* by the collector or returned to the allocator.
THEOREM NothingReleasedEarly == Spec => []NoPrematureRelease
  <1>1. Inv => NoPrematureRelease
    <2> SUFFICES ASSUME Inv PROVE NoPrematureRelease
      OBVIOUS
    <2> USE DEF Inv, LockInv, OwnInv
    <2>1. ASSUME NEW o \in Obj, NEW m \in Owners, held[m][o] > 0
          PROVE  o \in Kept
      BY <2>1, HeldKept
    <2>2. ASSUME NEW m \in Owners, Operating(m)
          PROVE  tgt[m] \in Kept
      <3>1. m \in Threads
        BY ThreadsAssumption DEF Owners
      <3>2. PICK o : o = tgt[m]
        OBVIOUS
      <3>3. o \in Obj /\ m \in Calls(o)
        BY <2>2, <3>1, <3>2 DEF TypeInv, CallsOK, Operating, Calls
      <3> QED
        BY <3>2, <3>3, HolderKeeps
    <2>3. ASSUME NEW m \in Mutators, Operating(m)
          PROVE  par[m] \in Kept
      <3>1. pc[m] # "done" /\ par[m] \in Obj /\ (par[m] = Module \/ held[m][par[m]] > 0)
        BY <2>3, OperatingObjects DEF Operating, MutatorInv
      <3> QED
        BY <3>1, UsedKept
    <2>4. /\ {o \in Obj : \E m \in Owners : held[m][o] > 0} \subseteq Kept
          /\ {tgt[m] : m \in {t \in Owners : Operating(t)}} \subseteq Kept
          /\ {par[m] : m \in {t \in Mutators : Operating(t)}} \subseteq Kept
      BY <2>1, <2>2, <2>3
    <2>5. PICK S : S = {o \in Obj : \E m \in Owners : held[m][o] > 0}
                       \cup {tgt[m] : m \in {t \in Owners : Operating(t)}}
                       \cup {par[m] : m \in {t \in Mutators : Operating(t)}}
      OBVIOUS
    <2>6. S \subseteq Kept /\ Closed(field, Kept) /\ Kept \in SUBSET Obj
      BY <2>4, <2>5, KeptClosed DEF Kept
    <2>7. Reachable(field, S) \subseteq Kept
      BY <2>6 DEF Reachable
    <2>8. InUse \subseteq Kept
      BY <2>5, <2>7 DEF InUse
    <2> QED
      BY <2>8 DEF NoPrematureRelease, Kept
  <1> QED
    BY <1>1, InvAlways, PTL

\* The diagnostics of GC.h and GC.cpp are never printed: no reference to an
\* object without references is given up, and no traversal finds more
\* references than were counted.
THEOREM NoDiagnosticPrinted == Spec => []NoZeroDiagnostic
  <1>1. Inv => NoZeroDiagnostic
    <2> SUFFICES ASSUME Inv PROVE NoZeroDiagnostic
      OBVIOUS
    <2> USE DEF Inv, LockInv, OwnInv
    <2>1. ASSUME NEW t \in Threads, pc[t] = "dec"
          PROVE  count[tgt[t]] > 0
      <3>1. PICK o : o = tgt[t]
        OBVIOUS
      <3>2. o \in Obj /\ t \in Calls(o)
        BY <2>1, <3>1 DEF TypeInv, CallsOK, Calls
      <3>3. o \in Kept
        BY <3>2, HolderKeeps
      <3> QED
        BY <3>1, <3>3 DEF Kept
    <2>2. ASSUME NEW t \in Threads, pc[t] = "nrm", dr_index[t] \in Slots,
                 field[dr_object[t]][dr_index[t]] # Null
          PROVE  count[field[dr_object[t]][dr_index[t]]] > 0
      <3>1. PICK p, i : p = dr_object[t] /\ i = dr_index[t]
        OBVIOUS
      <3>2. p \in Obj /\ i \in Slots /\ field[p][i] # Null
        BY <2>2, <3>1 DEF TypeInv, CallsOK
      <3>3. Hand(t, "cur", p) /\ "cur" \in Kinds
        BY <3>1 DEF Hand, Kinds
      <3>4. p \notin Condemned
        BY <3>2, <3>3 DEF HandsDying, Condemned
      <3>5. Carries(p, i)
        BY <3>1, <3>2 DEF Carries, Owed, Slots
      <3>6. field[p][i] \in Kept
        BY <3>2, <3>4, <3>5, CarriedKept
      <3> QED
        BY <3>1, <3>6 DEF Kept
    <2>3. ASSUME NEW t \in Threads, pc[t] = "wtg", wg_index[t] \in Slots,
                 field[wg_object[t]][wg_index[t]] # Null
          PROVE  count[field[wg_object[t]][wg_index[t]]] > 0
      <3>1. PICK p, i : p = wg_object[t] /\ i = wg_index[t]
        OBVIOUS
      <3>2. p \in Obj /\ i \in Slots /\ field[p][i] # Null
        BY <2>3, <3>1 DEF TypeInv, CallsOK
      <3>3. Hand(t, "rel", p) /\ "rel" \in Kinds
        BY <2>3, <3>1 DEF Hand, Kinds, FlowInv
      <3>4. p \notin Condemned
        BY <3>2, <3>3 DEF HandsDying, Condemned
      <3>5. Carries(p, i)
        BY <2>3, <3>1, <3>2 DEF Carries, Owed, Slots
      <3>6. field[p][i] \in Kept
        BY <3>2, <3>4, <3>5, CarriedKept
      <3> QED
        BY <3>1, <3>6 DEF Kept
    <2>4. ASSUME CollectorAt("red_read"), idx \in Slots, field[current][idx] = root
          PROVE  count[root] > 0
      <3>1. /\ root \in Obj /\ root # Null /\ pc[Collector] = "red_read" /\ root \in seen
            /\ seen = cycle_objects \cup todo \cup {current} /\ current \in cycle_objects
            /\ root \notin Counted => Apart(root, seen \ {root})
        BY <2>4, NullAssumption DEF CollectorAt, RedInv, TypeInv, CollectorOK
      <3>2. root \in Counted
        <4> SUFFICES ASSUME root \notin Counted PROVE FALSE
          OBVIOUS
        <4>1. PICK C \in SUBSET Obj : /\ Closed(field, C) /\ Children(field, root) \subseteq C
                                      /\ seen \ {root} \subseteq C /\ root \notin C
          BY <3>1 DEF Apart
        <4>2. root \in Children(field, current)
          BY <2>4, <3>1 DEF Children
        <4>3. current = root \/ current \in C
          BY <3>1, <4>1
        <4> QED
          BY <4>1, <4>2, <4>3 DEF Closed
      <3> QED
        BY <3>2 DEF Counted, Kept, Condemned
    <2>5. ASSUME CollectorAt("gray"), NEW o \in counted
          PROVE  ExternalCount(o) >= 0
      <3>1. /\ o \in cycle_objects /\ cycle_objects \subseteq Counted /\ o \in Obj
            /\ Cardinality(EdgesTo(field, cycle_objects, o)) <= count_map[o]
        BY <2>5 DEF CollectorAt, GrayInv, Counted, Kept, Condemned
      <3>2. EdgesTo(field, cycle_objects, o) \subseteq Fields(o)
        BY <2>5, <3>1, InsideFields DEF CollectorAt, InRelease, TypeInv, CollectorOK
      <3>3. Cardinality(EdgesTo(field, cycle_objects, o)) \in Nat
        BY <3>2, TokensFinite, FS_Subset, FS_CardinalityType
      <3>4. count_map[o] \in Nat
        BY <3>1, SizeAssumption DEF TypeInv, VariablesTyped, CollectorTypeOK
      <3> QED
        BY <3>1, <3>3, <3>4 DEF ExternalCount
    <2> QED
      BY <2>1, <2>2, <2>3, <2>4, <2>5 DEF NoZeroDiagnostic
  <1> QED
    BY <1>1, InvAlways, PTL

\* When the collector loads the counts it has locked exactly what its root
\* reaches.
THEOREM ClosureIsStable == Spec => []ClosureStable
  <1>1. Inv => ClosureStable
    <2> SUFFICES ASSUME Inv, pc[Collector] = "gray"
                 PROVE  cycle_objects = Reachable(field, {root})
      BY DEF ClosureStable, CollectorAt
    <2>1. /\ root \in cycle_objects /\ cycle_objects = seen /\ ReachLocked
          /\ Closed(field, cycle_objects) /\ seen \subseteq Obj
      BY DEF Inv, LockInv, OwnInv, GrayInv, TypeInv, VariablesTyped, CollectorTypeOK
    <2>2. cycle_objects \subseteq Reachable(field, {root})
      <3> SUFFICES ASSUME NEW C \in SUBSET Obj, root \in C, Closed(field, C)
                   PROVE  cycle_objects \subseteq C
        BY <2>1 DEF Reachable
      <3>1. \A c \in C \cap cycle_objects : Children(field, c) \cap seen \subseteq C
        BY DEF Closed
      <3> QED
        BY <2>1, <3>1 DEF ReachLocked
    <2>3. Reachable(field, {root}) \subseteq cycle_objects
      BY <2>1 DEF Reachable
    <2> QED
      BY <2>2, <2>3
  <1> QED
    BY <1>1, InvAlways, PTL

\* A suspected object stays on one of the collector's lists until it is
\* released, and no list keeps the address of a cell that went back.
THEOREM SuspectsTracked == Spec => []SuspectedTracked
  <1>1. Inv => SuspectedTracked
    BY DEF Inv, OwnInv, ListInv
  <1> QED
    BY <1>1, InvAlways, PTL

\* A step writes the fields of an object only when nobody holds its lock, or
\* when the object is no longer live.
THEOREM FieldsAreGuarded == Spec => FieldsGuarded
  <1>1. Inv /\ [Next]_vars =>
          [\A o \in Obj : field'[o] # field[o] =>
             ~lock_flag[o] \/ state[o] \in {"process_gc", "dead"}]_vars
    <2> SUFFICES ASSUME Inv, Next, NEW q \in Obj, field'[q] # field[q]
                 PROVE  ~lock_flag[q] \/ state[q] \in {"process_gc", "dead"}
      OBVIOUS
    <2>0. TypeInv /\ OwnInv /\ field \in [Obj -> [Slots -> ObjOrNull]]
      BY DEF Inv, LockInv, TypeInv, VariablesTyped, RefCountTypeOK, HeapTypeOK, Heaps
    <2>1. ASSUME NEW m \in Mutators, MutatorStep(m)
          PROVE  ~lock_flag[q] \/ state[q] \in {"process_gc", "dead"}
      <3>1. ASSUME NEW o \in Obj, Malloc(m, o)
            PROVE  ~lock_flag[q] \/ state[q] \in {"process_gc", "dead"}
        BY <2>0, <3>1 DEF Malloc
      <3>2. ASSUME NEW p \in Obj, NEW i \in Slots, GetClone(m, p, i)
            PROVE  FALSE
        BY <3>2 DEF GetClone
      <3>3. ASSUME NEW p \in Obj, NEW i \in Slots, GetMove(m, p, i)
            PROVE  ~lock_flag[q]
        BY <2>0, <3>3 DEF GetMove
      <3>4. ASSUME NEW p \in Obj, NEW i \in Slots, NEW o \in Obj, SetClone(m, p, i, o)
            PROVE  FALSE
        BY <3>4 DEF SetClone
      <3>5. ASSUME NEW p \in Obj, NEW i \in Slots, NEW o \in Obj, SetMove(m, p, i, o)
            PROVE  ~lock_flag[q]
        BY <2>0, <3>5 DEF SetMove
      <3>6. ~GetCloneUnlock(m)
        BY DEF GetCloneUnlock
      <3>7. ASSUME SetCloneSwap(m)
            PROVE  ~lock_flag[q]
        BY <2>0, <3>7 DEF SetCloneSwap
      <3> QED
        BY <2>1, <3>1, <3>2, <3>3, <3>4, <3>5, <3>6, <3>7 DEF MutatorStep
    <2>2. ASSUME NEW m \in Owners, Finish(m) \/ \E o \in Obj : Drop(m, o)
          PROVE  FALSE
      BY <2>2 DEF Finish, Drop, heapVars
    <2>3. ASSUME NEW t \in Threads, RefCountStep(t)
          PROVE  state[q] \in {"process_gc", "dead"}
      <3>1. WaitingNull(t)
        BY <2>3, Zenon DEF RefCountStep, ClaimAsyncRelease, AddSuspectedObject, DecrementReferenceCount,
             DecrementField, StoreDead, WaitingMark, WaitingField, WaitingPop, StoreWaiting,
             WaitingNextRoot, heapVars
      <3>2. q = wg_object[t] /\ pc[t] = "wtg_null"
        BY <2>0, <3>1 DEF WaitingNull
      <3>3. Hand(t, "rel", q) /\ "rel" \in Kinds
        BY <2>0, <3>2 DEF OwnInv, FlowInv, Hand, Kinds
      <3> QED
        BY <2>0, <3>3 DEF OwnInv, HandsDying
    <2>4. ~CollectorStep
      BY DEF CollectorStep, MoveList, BeginRoot, RedLock, RedRead, RedNext, GrayLoad, MarkWhite,
             UnlockAll, CheckWaiting, EndRoots, EraseReleased, ReleaseField, ReleaseNext, EndRelease,
             Kill, Reinsert, heapVars
    <2> QED
      BY <2>1, <2>2, <2>3, <2>4 DEF Next
  <1> QED
    BY <1>1, InvAlways, PTL DEF Spec, FieldsGuarded

-----------------------------------------------------------------------------
(***************************************************************************)
(* The program of CatLa.cpp.                                               *)
(***************************************************************************)
\* How main and func2 end their threads is one of the ways in which the heap
\* can be used: what the theorems above say of the heap holds throughout the
\* program, to the listing at its end.
THEOREM HarnessUsesHeap == HarnessSpec => Spec
  <1>1. HarnessInit => Init
    BY DEF HarnessInit
  <1>2. ASSUME [HarnessNext]_harnessVars PROVE [Next]_vars
    <2>1. ASSUME NEW m \in Mutators, MutatorRuns(m) PROVE Next
      <3>1. m \in Owners
        BY DEF Owners
      <3> QED
        BY <2>1, <3>1 DEF MutatorRuns, Next
    <2>2. ASSUME NEW t \in Threads, Counting(t) PROVE Next
      <3>1. RefCountStep(t) /\ UNCHANGED <<collectorVars, mutatorVars>>
        BY <2>2 DEF Counting
      <3> QED
        BY <3>1 DEF Next
    <2>3. CASE Func2Collect \/ Collecting \/ FinalCollect
      <3>1. CollectorStep /\ UNCHANGED mutatorVars
        BY <2>3 DEF Func2Collect, Collecting, FinalCollect, CollectorStep
      <3> QED
        BY <3>1 DEF Next
    <2>4. CASE GiveUpModule
      <3>1. Main \in Owners
        BY DEF Owners
      <3> QED
        BY <2>4, <3>1 DEF GiveUpModule, Next
    <2>5. CASE Func2Return \/ SetTaskFlag \/ UNCHANGED harnessVars
      BY <2>5 DEF Func2Return, SetTaskFlag, harnessVars
    <2> QED
      BY <1>2, <2>1, <2>2, <2>3, <2>4, <2>5 DEF HarnessNext
  <1> QED
    BY <1>1, <1>2, PTL DEF HarnessSpec, Spec
=============================================================================
