------------------------------ MODULE MCHarness ------------------------------
(***************************************************************************)
(* Small instances of Harness, one for each plan of the mutator.           *)
(*   pair:   any calls on two objects with one field each;                 *)
(*   levels: the calls of Program, which leave garbage in two levels.  o1  *)
(*           and o2 are cycles that share a third, o3.  As long as either  *)
(*           of them is there o3 has a reference from outside what the     *)
(*           other one reaches.                                            *)
(***************************************************************************)
EXTENDS Harness, Sequences

CONSTANTS m1, o1, o2, o3

VARIABLES
  plan,
  step   \* the calls of Program m1 has made

\* Every object may refer to every object but the module object.
AnyRefers == {e \in Obj \X Obj : e[2] # Module}

MCThreads == Mutators \cup {Main, Collector}

AnyCalls ==
  /\ plan = "pair"
  /\ MutatorRuns(m1)
  /\ state'[o3] = "dead" /\ \A o \in Obj : field'[o][2] = Null
  /\ UNCHANGED step

New(o) == [op |-> "malloc", into |-> Null, index |-> 1, object |-> o]
Clone(p, i, o) == [op |-> "set_clone", into |-> p, index |-> i, object |-> o]
Move(p, i, o) == [op |-> "set_move", into |-> p, index |-> i, object |-> o]

Program ==
  << New(o3), Clone(o3, 1, o3),
     New(o1), Clone(o1, 1, o1), Clone(o1, 2, o3), Move(Module, 1, o1),
     New(o2), Clone(o2, 1, o2), Move(o2, 2, o3), Move(Module, 2, o2) >>

Make(c) ==
  CASE c.op = "malloc"    -> Malloc(m1, c.object)
    [] c.op = "set_clone" -> SetClone(m1, c.into, c.index, c.object)
    [] c.op = "set_move"  -> SetMove(m1, c.into, c.index, c.object)

NextCall ==
  /\ plan = "levels"
  /\ \/ /\ step < Len(Program) /\ Make(Program[step + 1]) /\ step' = step + 1
     \/ SetCloneSwap(m1) /\ UNCHANGED step
     \/ step = Len(Program) /\ Finish(m1) /\ UNCHANGED step
  /\ UNCHANGED mainVars

MCNext ==
  /\ UNCHANGED plan
  /\ \/ AnyCalls \/ NextCall
     \/ /\ \/ \E t \in Threads : Counting(t)
           \/ Func2Collect \/ Func2Return \/ Collecting
           \/ SetTaskFlag \/ GiveUpModule \/ FinalCollect
        /\ UNCHANGED step

MCInit == HarnessInit /\ plan \in {"pair", "levels"} /\ step = 0

MCSpec == MCInit /\ [][MCNext]_<<harnessVars, plan, step>> /\ Fairness
==============================================================================
