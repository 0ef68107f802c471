------------------------------- MODULE RWLock -------------------------------
(***************************************************************************)
(* concurrent::RWLock of util/Concurrent.h: count is 0 while a writer      *)
(* holds the lock, 1 while nobody does, and one more than the number of    *)
(* readers otherwise.                                                      *)
(*                                                                         *)
(* A thread locks for reading or for writing and unlocks what it locked.   *)
(* Reading count and exchanging it are two steps; compare_exchange_weak    *)
(* may fail although count has not changed.                                *)
(***************************************************************************)
EXTENDS Naturals, FiniteSets

CONSTANTS
  Threads,
  SizeMax    \* largest value of size_t

\* One thread takes one read lock: the counter never wraps.
ASSUME ThreadsAssumption == IsFiniteSet(Threads)
ASSUME SizeAssumption == SizeMax \in Nat /\ Cardinality(Threads) < SizeMax

VARIABLES
  count,
  pc,          \* where each thread is
  count_temp   \* what it read

vars == <<count, pc, count_temp>>

Labels == {"idle", "read_load", "read_cas", "reading", "write_load", "write_cas", "writing"}

\* size_t arithmetic of the atomic counter
FetchAdd(n) == IF n = SizeMax THEN 0 ELSE n + 1
FetchSub(n) == IF n = 0 THEN SizeMax ELSE n - 1

Init ==
  /\ count = 1
  /\ pc = [t \in Threads |-> "idle"]
  /\ count_temp = [t \in Threads |-> 0]

Goto(t, label) == pc' = [pc EXCEPT ![t] = label]

Call(t) ==
  /\ pc[t] = "idle"
  /\ Goto(t, "read_load") \/ Goto(t, "write_load")
  /\ UNCHANGED <<count, count_temp>>

-----------------------------------------------------------------------------
\* Fault: a reader does not ask for a writer.
ReadLoadUnchecked(t) ==
  /\ pc[t] = "read_load"
  /\ count_temp' = [count_temp EXCEPT ![t] = count]
  /\ Goto(t, "read_cas")
  /\ UNCHANGED count

ReadLoad(t) ==
  /\ pc[t] = "read_load"
  /\ count_temp' = [count_temp EXCEPT ![t] = count]
  /\ Goto(t, IF count = 0 THEN "read_load" ELSE "read_cas")
  /\ UNCHANGED count

ReadExchange(t) ==
  /\ pc[t] = "read_cas"
  /\ count = count_temp[t]
  /\ count' = FetchAdd(count_temp[t])
  /\ Goto(t, "reading")
  /\ UNCHANGED count_temp

\* The exchange fails: the value has changed, or spuriously.
ReadRetry(t) ==
  /\ pc[t] = "read_cas"
  /\ Goto(t, "read_load")
  /\ UNCHANGED <<count, count_temp>>

ReadUnlock(t) ==
  /\ pc[t] = "reading"
  /\ count' = FetchSub(count)
  /\ Goto(t, "idle")
  /\ UNCHANGED count_temp

-----------------------------------------------------------------------------
\* Fault: a writer asks for another writer only.
WriteLoadUnchecked(t) ==
  /\ pc[t] = "write_load"
  /\ count_temp' = [count_temp EXCEPT ![t] = count]
  /\ Goto(t, IF count = 0 THEN "write_load" ELSE "write_cas")
  /\ UNCHANGED count

WriteLoad(t) ==
  /\ pc[t] = "write_load"
  /\ count_temp' = [count_temp EXCEPT ![t] = count]
  /\ Goto(t, IF count # 1 THEN "write_load" ELSE "write_cas")
  /\ UNCHANGED count

WriteExchange(t) ==
  /\ pc[t] = "write_cas"
  /\ count = count_temp[t]
  /\ count' = 0
  /\ Goto(t, "writing")
  /\ UNCHANGED count_temp

WriteRetry(t) ==
  /\ pc[t] = "write_cas"
  /\ Goto(t, "write_load")
  /\ UNCHANGED <<count, count_temp>>

\* Fault: the writer leaves without a word.
WriteUnlockSilent(t) ==
  /\ pc[t] = "writing"
  /\ Goto(t, "idle")
  /\ UNCHANGED <<count, count_temp>>

WriteUnlock(t) ==
  /\ pc[t] = "writing"
  /\ count' = FetchAdd(count)
  /\ Goto(t, "idle")
  /\ UNCHANGED count_temp

-----------------------------------------------------------------------------
LockStep(t) ==
  \/ ReadLoad(t) \/ ReadExchange(t) \/ ReadRetry(t)
  \/ WriteLoad(t) \/ WriteExchange(t) \/ WriteRetry(t)

UnlockStep(t) == ReadUnlock(t) \/ WriteUnlock(t)

Next == \E t \in Threads : Call(t) \/ LockStep(t) \/ UnlockStep(t)

Spec == Init /\ [][Next]_vars

\* Threads keep running and critical sections end.  Exchanges may fail, but
\* not all of them for ever: when threads again and again exchange the value
\* that is there, one of them succeeds.
FairSpec ==
  /\ Spec
  /\ \A t \in Threads : WF_vars(LockStep(t)) /\ WF_vars(UnlockStep(t))
  /\ SF_vars(\E t \in Threads : ReadExchange(t) \/ WriteExchange(t))

-----------------------------------------------------------------------------
\* The counter and what threads read of it are values of size_t.
TypeOK ==
  /\ count \in 0..SizeMax
  /\ pc \in [Threads -> Labels]
  /\ count_temp \in [Threads -> 0..SizeMax]

Readers == {t \in Threads : pc[t] = "reading"}
Writers == {t \in Threads : pc[t] = "writing"}

\* A writer is alone: no second writer and no reader beside it.
Exclusion == \A t \in Writers : Writers = {t} /\ Readers = {}

\* The comment on count: 0 for a write lock, 1 for no lock, and otherwise one
\* more than the number of readers.
CountMeaning ==
  /\ Writers = {} => count = Cardinality(Readers) + 1
  /\ Writers # {} => count = 0

\* A thread that has read count still exchanges for the right reason: a
\* reader never expects 0, a writer expects only 1.
Expected ==
  \A t \in Threads :
    /\ pc[t] = "read_cas" => count_temp[t] \in 1..SizeMax
    /\ pc[t] = "write_cas" => count_temp[t] = 1

Abstract == INSTANCE ReadersWriter WITH readers <- Readers, writers <- Writers

\* The lock is a readers-writer lock: read_lock, read_unlock, write_lock and
\* write_unlock of Concurrent.h take effect as the abstract operations do.
RefinesReadersWriter == Abstract!Spec

\* When threads are trying to lock, some thread gets or gives back the lock.
SomeoneGetsIn ==
  \A t \in Threads : (pc[t] \in {"read_load", "write_load"}) ~>
     (\E u \in Threads : pc[u] \in {"reading", "writing"})
=============================================================================
