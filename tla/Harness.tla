------------------------------- MODULE Harness -------------------------------
(***************************************************************************)
(* The program of CatLa.cpp around the managed heap: how its threads begin *)
(* and end.  The collector thread runs func2, which starts no collection   *)
(* once task_flag is set.  main joins the mutators, sets the flag, joins   *)
(* func2, gives up the module object and then collects a fixed number of   *)
(* times itself, before it lists the objects that are not dead.            *)
(*                                                                         *)
(* When main collects func2 has returned, so the locals of gc_collect that *)
(* CycleCollector keeps for the collector thread are free and stand for    *)
(* the ones main's own calls have.                                         *)
(***************************************************************************)
EXTENDS ManagedHeap

CONSTANT FinalCollections   \* the calls of gc_collect in main

ASSUME FinalAssumption == FinalCollections \in Nat

VARIABLES
  task_flag,
  joined,        \* func2 has returned and main has joined it
  collections    \* calls of gc_collect main has made

mainVars == <<task_flag, joined, collections>>
harnessVars == <<vars, mainVars>>

HarnessInit == Init /\ task_flag = FALSE /\ joined = FALSE /\ collections = 0

\* func2: one more collection, unless the flag is set.
Func2Collect ==
  /\ ~task_flag
  /\ MoveList
  /\ UNCHANGED <<mutatorVars, mainVars>>

Func2Return ==
  /\ CollectorAt("idle") /\ task_flag /\ ~joined
  /\ joined' = TRUE
  /\ UNCHANGED <<vars, task_flag, collections>>

\* main: the mutators are joined.
SetTaskFlag ==
  /\ \A m \in Mutators : pc[m] = "done"
  /\ ~task_flag
  /\ task_flag' = TRUE
  /\ UNCHANGED <<vars, joined, collections>>

\* The call of decrement_reference_count(module_object), and its end.
GiveUpModule ==
  /\ joined
  /\ Finish(Main) \/ \E o \in Obj : Drop(Main, o)
  /\ UNCHANGED mainVars

\* Fault: main collects once.
FinalCollectOnce ==
  /\ pc[Main] = "done" /\ collections = 0
  /\ collections' = FinalCollections
  /\ MoveList
  /\ UNCHANGED <<mutatorVars, task_flag, joined>>

FinalCollect ==
  /\ pc[Main] = "done" /\ collections < FinalCollections
  /\ collections' = collections + 1
  /\ MoveList
  /\ UNCHANGED <<mutatorVars, task_flag, joined>>

\* A collection that has begun goes on, whoever called it.
Collecting == ~CollectorAt("idle") /\ CollectorStep /\ UNCHANGED <<mutatorVars, mainVars>>

Counting(t) == RefCountStep(t) /\ UNCHANGED <<collectorVars, mutatorVars, mainVars>>

MutatorRuns(m) ==
  /\ MutatorStep(m) \/ Finish(m) \/ \E o \in Obj : Drop(m, o)
  /\ UNCHANGED mainVars

HarnessNext ==
  \/ \E m \in Mutators : MutatorRuns(m)
  \/ \E t \in Threads : Counting(t)
  \/ Func2Collect \/ Func2Return \/ Collecting
  \/ SetTaskFlag \/ GiveUpModule \/ FinalCollect

HarnessSpec == HarnessInit /\ [][HarnessNext]_harnessVars

\* main and func2 keep running, inside the procedures they call too.  Of the
\* mutators nothing is asked.
Fairness ==
  /\ \A t \in {Main, Collector} : WF_harnessVars(Counting(t))
  /\ WF_harnessVars(Func2Collect \/ Func2Return \/ Collecting)
  /\ WF_harnessVars(SetTaskFlag \/ GiveUpModule \/ FinalCollect)

FairSpec == HarnessSpec /\ Fairness

-----------------------------------------------------------------------------
\* main is at the listing of living objects.
Listing == pc[Main] = "done" /\ collections = FinalCollections /\ CollectorAt("idle")

\* When the mutators have returned, whatever they left in the heap and wherever
\* the collector was, func2 ends and main comes to its listing of living
\* objects, which is empty: the collections main makes itself, with func2 gone,
\* are enough to return every object, those on cycles too.
EverythingCollected ==
  (\A m \in Mutators : pc[m] = "done") ~> (Listing /\ \A o \in Obj : state[o] = "dead")
==============================================================================
