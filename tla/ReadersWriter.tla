---------------------------- MODULE ReadersWriter ----------------------------
(***************************************************************************)
(* What a readers-writer lock promises: any number of threads hold it to   *)
(* read, or one thread holds it to write.                                  *)
(***************************************************************************)
CONSTANT Threads

VARIABLES readers, writers

Init == readers = {} /\ writers = {}

ReadLock(t) ==
  /\ t \notin readers /\ writers = {}
  /\ readers' = readers \cup {t}
  /\ UNCHANGED writers

ReadUnlock(t) ==
  /\ t \in readers
  /\ readers' = readers \ {t}
  /\ UNCHANGED writers

WriteLock(t) ==
  /\ readers = {} /\ writers = {}
  /\ writers' = {t}
  /\ UNCHANGED readers

WriteUnlock(t) ==
  /\ t \in writers
  /\ writers' = writers \ {t}
  /\ UNCHANGED readers

Next == \E t \in Threads :
  ReadLock(t) \/ ReadUnlock(t) \/ WriteLock(t) \/ WriteUnlock(t)

Spec == Init /\ [][Next]_<<readers, writers>>
=============================================================================
