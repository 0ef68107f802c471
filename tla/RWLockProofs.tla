---------------------------- MODULE RWLockProofs ----------------------------
(***************************************************************************)
(* RWLock excludes, its counter means what its comment says, and it        *)
(* implements ReadersWriter, for any finite number of threads.             *)
(***************************************************************************)
EXTENDS RWLock, FiniteSetTheorems, TLAPS

\* Exclusion alone is not inductive: a thread between its load and its
\* exchange is let in by the counter, so the counter has to be right and the
\* value it expects has to be one its own test let through.
LockInv == TypeOK /\ Expected /\ Exclusion /\ CountMeaning

\* Counting the readers: at most as many as threads, fewer while one thread is
\* not reading.
LEMMA ReadersFinite ==
  /\ IsFiniteSet(Readers) /\ Cardinality(Readers) \in Nat
  /\ Cardinality(Readers) <= Cardinality(Threads) /\ Cardinality(Threads) \in Nat
  /\ Cardinality(Readers) = 0 => Readers = {}
  /\ \A t \in Threads : pc[t] # "reading" => Cardinality(Readers) < Cardinality(Threads)
  <1>1. Readers \subseteq Threads
    BY DEF Readers
  <1>2. IsFiniteSet(Readers) /\ Cardinality(Readers) <= Cardinality(Threads)
        /\ (Cardinality(Readers) = Cardinality(Threads) => Readers = Threads)
    BY <1>1, ThreadsAssumption, FS_Subset
  <1>3. Cardinality(Readers) \in Nat /\ Cardinality(Threads) \in Nat
        /\ (Cardinality(Readers) = 0 <=> Readers = {})
    BY <1>2, ThreadsAssumption, FS_CardinalityType, FS_EmptySet
  <1>4. ASSUME NEW t \in Threads, pc[t] # "reading"
        PROVE  Cardinality(Readers) < Cardinality(Threads)
    <2>1. t \notin Readers
      BY <1>4 DEF Readers
    <2> QED
      BY <1>2, <1>3, <2>1
  <1> QED
    BY <1>2, <1>3, <1>4

\* A new lock is free.
LEMMA InitLockInv == Init => LockInv
  <1> SUFFICES ASSUME Init PROVE LockInv
    OBVIOUS
  <1>1. Readers = {} /\ Writers = {}
    BY DEF Init, Readers, Writers
  <1>2. CountMeaning
    BY <1>1, FS_EmptySet DEF Init, CountMeaning
  <1>3. TypeOK
    BY SizeAssumption, ThreadsAssumption, FS_CardinalityType DEF Init, TypeOK, Labels
  <1>4. Expected /\ Exclusion
    BY <1>1 DEF Init, Expected, Exclusion
  <1> QED
    BY <1>2, <1>3, <1>4 DEF LockInv

\* What a step of a thread does to the holders, seen from the abstract lock.
LEMMA StepLockInv ==
  ASSUME LockInv, NEW t \in Threads, Call(t) \/ LockStep(t) \/ UnlockStep(t)
  PROVE  /\ LockInv'
         /\ \/ UNCHANGED <<Readers, Writers>>
            \/ Abstract!ReadLock(t) \/ Abstract!ReadUnlock(t)
            \/ Abstract!WriteLock(t) \/ Abstract!WriteUnlock(t)
  <1> USE SizeAssumption DEF LockInv
  <1>0. Cardinality(Readers) \in Nat /\ Cardinality(Threads) \in Nat
        /\ Cardinality(Readers) <= Cardinality(Threads)
    BY ReadersFinite
  <1>1. CASE Call(t) \/ ReadLoad(t) \/ ReadRetry(t) \/ WriteLoad(t) \/ WriteRetry(t)
    <2>1. TypeOK'
      BY <1>1 DEF Call, ReadLoad, ReadRetry, WriteLoad, WriteRetry, Goto, TypeOK, Labels
    <2>2. Expected'
      BY <1>1 DEF Call, ReadLoad, ReadRetry, WriteLoad, WriteRetry, Goto, TypeOK, Expected
    <2>3. UNCHANGED <<Readers, Writers>>
      BY <1>1 DEF Call, ReadLoad, ReadRetry, WriteLoad, WriteRetry, Goto, TypeOK, Readers, Writers
    <2>4. UNCHANGED count
      BY <1>1 DEF Call, ReadLoad, ReadRetry, WriteLoad, WriteRetry
    <2>5. Exclusion' /\ CountMeaning'
      BY <2>3, <2>4 DEF Exclusion, CountMeaning
    <2> QED
      BY <2>1, <2>2, <2>3, <2>5
  <1>2. CASE ReadExchange(t)
    <2>1. count = count_temp[t] /\ count \in 1..SizeMax
      BY <1>2 DEF ReadExchange, Expected
    <2>2. Writers = {} /\ count = Cardinality(Readers) + 1
      BY <2>1 DEF CountMeaning
    <2>3. Readers' = Readers \cup {t} /\ Writers' = Writers /\ t \notin Readers
      BY <1>2 DEF ReadExchange, Goto, TypeOK, Readers, Writers
    <2>4. Cardinality(Readers') = Cardinality(Readers) + 1
      BY <2>3, ReadersFinite, FS_AddElement
    <2>5. count < SizeMax
      BY <1>2, <2>2, ReadersFinite DEF ReadExchange
    <2>6. count' = count + 1
      BY <1>2, <2>1, <2>5 DEF ReadExchange, FetchAdd
    <2>7. CountMeaning' /\ Exclusion'
      BY <1>0, <2>2, <2>3, <2>4, <2>6 DEF CountMeaning, Exclusion
    <2>8. TypeOK'
      BY <1>2, <2>1, <2>5, <2>6 DEF ReadExchange, Goto, TypeOK, Labels
    <2>9. Expected'
      BY <1>2 DEF ReadExchange, Goto, TypeOK, Expected
    <2> QED
      BY <2>2, <2>3, <2>7, <2>8, <2>9 DEF Abstract!ReadLock
  <1>3. CASE ReadUnlock(t)
    <2>1. t \in Readers
      BY <1>3 DEF ReadUnlock, Readers
    <2>2. Writers = {} /\ count = Cardinality(Readers) + 1
      BY <2>1 DEF Exclusion, CountMeaning
    <2>3. Readers' = Readers \ {t} /\ Writers' = Writers
      BY <1>3 DEF ReadUnlock, Goto, TypeOK, Readers, Writers
    <2>4. Cardinality(Readers') = Cardinality(Readers) - 1
      BY <2>1, <2>3, ReadersFinite, FS_RemoveElement
    <2>5. count' = count - 1
      BY <1>0, <1>3, <2>2 DEF ReadUnlock, FetchSub
    <2>6. CountMeaning' /\ Exclusion'
      BY <1>0, <2>2, <2>3, <2>4, <2>5 DEF CountMeaning, Exclusion
    <2>7. TypeOK'
      BY <1>0, <1>3, <2>2, <2>5 DEF ReadUnlock, Goto, TypeOK, Labels
    <2>8. Expected'
      BY <1>3 DEF ReadUnlock, Goto, TypeOK, Expected
    <2> QED
      BY <2>1, <2>3, <2>6, <2>7, <2>8 DEF Abstract!ReadUnlock
  <1>4. CASE WriteExchange(t)
    <2>1. count = 1
      BY <1>4 DEF WriteExchange, Expected
    <2>2. Writers = {} /\ Readers = {}
      BY <1>0, <2>1, ReadersFinite DEF CountMeaning
    <2>3. Readers' = Readers /\ Writers' = {t}
      BY <1>4, <2>2 DEF WriteExchange, Goto, TypeOK, Readers, Writers
    <2>4. CountMeaning' /\ Exclusion'
      BY <1>4, <2>2, <2>3 DEF WriteExchange, CountMeaning, Exclusion
    <2>5. TypeOK'
      BY <1>4 DEF WriteExchange, Goto, TypeOK, Labels
    <2>6. Expected'
      BY <1>4 DEF WriteExchange, Goto, TypeOK, Expected
    <2> QED
      BY <2>2, <2>3, <2>4, <2>5, <2>6 DEF Abstract!WriteLock
  <1>5. CASE WriteUnlock(t)
    <2>1. t \in Writers
      BY <1>5 DEF WriteUnlock, Writers
    <2>2. Writers = {t} /\ Readers = {} /\ count = 0
      BY <2>1 DEF Exclusion, CountMeaning
    <2>3. Readers' = Readers /\ Writers' = Writers \ {t}
      BY <1>5 DEF WriteUnlock, Goto, TypeOK, Readers, Writers
    <2>4. count' = 1
      BY <1>0, <1>5, <2>2 DEF WriteUnlock, FetchAdd
    <2>5. CountMeaning' /\ Exclusion'
      BY <2>2, <2>3, <2>4, FS_EmptySet DEF CountMeaning, Exclusion
    <2>6. TypeOK'
      BY <1>0, <1>5, <2>4 DEF WriteUnlock, Goto, TypeOK, Labels
    <2>7. Expected'
      BY <1>5 DEF WriteUnlock, Goto, TypeOK, Expected
    <2> QED
      BY <2>1, <2>3, <2>5, <2>6, <2>7 DEF Abstract!WriteUnlock
  <1> QED
    BY <1>1, <1>2, <1>3, <1>4, <1>5 DEF LockStep, UnlockStep

\* LockInv is inductive.
LEMMA NextLockInv == LockInv /\ [Next]_vars => LockInv'
  <1> SUFFICES ASSUME LockInv, [Next]_vars PROVE LockInv'
    OBVIOUS
  <1>1. CASE UNCHANGED vars
    BY <1>1 DEF LockInv, vars, TypeOK, Expected, Exclusion, CountMeaning, Readers, Writers
  <1> QED
    BY <1>1, StepLockInv DEF Next

\* LockInv holds in every reachable state.
LEMMA LockInvHolds == Spec => []LockInv
  BY InitLockInv, NextLockInv, PTL DEF Spec

\* RWLock never lets a writer in beside a reader or a second writer
\* (read_lock, write_lock and their unlocks), for any finite number of
\* threads and whatever exchanges fail.
THEOREM WriterAlone == Spec => []Exclusion
  <1>1. LockInv => Exclusion
    BY DEF LockInv
  <1> QED
    BY <1>1, LockInvHolds, PTL

\* The counter of RWLock has the meaning its comment gives it.
THEOREM CountIsRight == Spec => []CountMeaning
  <1>1. LockInv => CountMeaning
    BY DEF LockInv
  <1> QED
    BY <1>1, LockInvHolds, PTL

\* RWLock implements the abstract readers-writer lock.
THEOREM RWLockImplements == Spec => RefinesReadersWriter
  <1>1. Init => Abstract!Init
    BY DEF Init, Abstract!Init, Readers, Writers
  <1>2. LockInv /\ [Next]_vars => [Abstract!Next]_<<Readers, Writers>>
    <2> SUFFICES ASSUME LockInv, [Next]_vars
                 PROVE  Abstract!Next \/ UNCHANGED <<Readers, Writers>>
      OBVIOUS
    <2>1. CASE UNCHANGED vars
      BY <2>1 DEF vars, Readers, Writers
    <2>2. ASSUME NEW t \in Threads, Call(t) \/ LockStep(t) \/ UnlockStep(t)
          PROVE  Abstract!Next \/ UNCHANGED <<Readers, Writers>>
      BY <2>2, StepLockInv DEF Abstract!Next
    <2> QED
      BY <2>1, <2>2 DEF Next
  <1> QED
    BY <1>1, <1>2, LockInvHolds, PTL DEF Spec, RefinesReadersWriter, Abstract!Spec
=============================================================================
