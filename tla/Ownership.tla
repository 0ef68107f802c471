------------------------------ MODULE Ownership ------------------------------
(***************************************************************************)
(* Who owns the references to an object of ManagedHeap: the invariant      *)
(* behind its reference counts.                                            *)
(*                                                                         *)
(* Not every field that holds an object accounts for one of the object's   *)
(* references: the fields of dead cells do not, nor do those of a dying    *)
(* object that decrement_reference_count has passed.  Carries says which   *)
(* ones do.  With them, a count is exactly the number of references as     *)
(* long as its object is in use.                                           *)
(***************************************************************************)
EXTENDS ManagedHeap

\* The objects in use, the objects on cycles the collector has condemned, and
\* the objects whose last reference has been given up.
Kept == {o \in Obj : state[o] = "live" /\ count[o] > 0}
Condemned == {o \in Obj : state[o] = "waiting_for_gc" /\ count[o] > 0}
Dying == {o \in Obj : state[o] # "dead" /\ count[o] = 0}
Counted == Kept \cup Condemned

WaitLabels == {"wtg_mark", "wtg", "wtg_null", "wtg_done"}
DecrementLabels == {"dec", "nrm"} \cup WaitLabels

\* The collector is past its roots: it gives up the fields of what it has
\* condemned, and then returns the cells.
InRelease ==
  pc[Collector] \in {"release", "release_field", "kill"} \/ ret[Collector] = "release_field"

\* It has already given up field i of p.
GaveUp(p, i) == InRelease /\ p \notin releasing /\ (p # current \/ i < idx)

\* Thread t has still to give up field i of p, whose count reached zero.
Owed(t, p, i) ==
  \/ p = dr_object[t] /\ i >= dr_index[t]
  \/ p \in dr_check[t] \/ p \in wg_check[t] \/ p \in wg_roots[t]
  \/ /\ p = wg_object[t]
     /\ \/ pc[t] = "wtg_mark"
        \/ pc[t] = "wtg" /\ i >= wg_index[t]
        \/ pc[t] = "wtg_null" /\ i > wg_index[t]

\* Field i of p accounts for a reference to the object it holds.
Carries(p, i) ==
  \/ p \in Kept
  \/ p \in Condemned /\ ~GaveUp(p, i)
  \/ \E t \in Threads : Owed(t, p, i)

Fields(o) == {e \in Obj \X Slots : field[e[1]][e[2]] = o /\ Carries(e[1], e[2])}

Tokens(o) == Cardinality(Fields(o)) + Cardinality(Locals(o)) + Cardinality(Calls(o))

-----------------------------------------------------------------------------
(***************************************************************************)
(* The invariant.                                                          *)
(***************************************************************************)
\* The count of an object in use is the number of references to it; a
\* condemned object is referred to by fields of condemned objects only; a
\* dead one by nobody.
CountOK(o) ==
  /\ Tokens(o) <= count[o]
  /\ o \in Kept => Tokens(o) = count[o]
  /\ state[o] = "dead" => Tokens(o) = 0
  /\ state[o] = "process_gc" => count[o] = 0
  /\ o \in Condemned => /\ Locals(o) = {} /\ Calls(o) = {}
                        /\ \A p \in Obj, i \in Slots : <<p, i>> \in Fields(o) => p \in Condemned

CountInv == \A o \in Obj : CountOK(o)

\* The dying objects a thread works on, by the local variable that holds them.
Kinds == {"cur", "check", "mark", "wcheck", "wroot", "rel"}
Hand(t, k, o) ==
  \/ k = "cur" /\ o = dr_object[t]
  \/ k = "check" /\ o \in dr_check[t]
  \/ k = "mark" /\ o = wg_object[t] /\ pc[t] = "wtg_mark"
  \/ k = "wcheck" /\ o \in wg_check[t]
  \/ k = "wroot" /\ o \in wg_roots[t]
  \/ k = "rel" /\ o \in wg_release[t]

\* An object in somebody's hands has no references and the state that goes
\* with the hand; the loop of decrement_reference_count has unsuspected ones.
HandsDying ==
  \A t \in Threads, k \in Kinds, o \in Obj : Hand(t, k, o) =>
    /\ count[o] = 0
    /\ k = "rel" => state[o] = "process_gc"
    /\ k # "rel" => state[o] = "live"
    /\ k \in {"cur", "check"} => ~Suspected(o)

\* No object is in two hands.
HandsApart ==
  \A t, u \in Threads, k, l \in Kinds, o \in Obj :
    Hand(t, k, o) /\ Hand(u, l, o) => t = u /\ k = l

\* Which locals of the procedures are in use where.
FlowInv ==
  \A t \in Threads :
    /\ pc[t] \notin WaitLabels => wg_check[t] = {} /\ wg_roots[t] = {} /\ wg_release[t] = {}
    /\ pc[t] \notin WaitLabels \cup {"nrm"} => dr_object[t] = Null
    /\ dr_object[t] = Null => dr_check[t] = {}
    /\ pc[t] = "wtg_done" => wg_check[t] = {}
    /\ pc[t] \in {"wtg", "wtg_null"} => wg_object[t] \in wg_release[t]
    /\ pc[t] \in {"cas", "insert"} => ret[t] \in {"unlock", "swap"}
    /\ t = Collector /\ pc[t] \in DecrementLabels => ret[t] = "release_field"
    /\ dr_index[t] >= 1 /\ wg_index[t] >= 1

\* Some set of objects closed under field contains S and what o refers to,
\* but not o: no path leads from S or from a field of o to o.
Apart(o, S) ==
  \E C \in SUBSET Obj :
    Closed(field, C) /\ Children(field, o) \subseteq C /\ S \subseteq C /\ o \notin C

\* A dying object is on no cycle.
AcyclicInv == \A o \in Dying : Apart(o, {})

\* The traversal of the fields of locked objects reaches all of seen.
ReachLocked ==
  \A C \in SUBSET Obj :
    (root \in C /\ \A c \in C \cap cycle_objects : Children(field, c) \cap seen \subseteq C)
      => seen \subseteq C

\* While the collector locks what its root reaches: if the root is in use so
\* is all that was found, by references only the collector can change; if it
\* is dying the traversal does not come back to it.
RedInv ==
  pc[Collector] \in {"red", "red_read"} =>
    /\ root \in seen
    /\ seen = cycle_objects \cup todo \cup {current}
    /\ pc[Collector] = "red_read" => current \in cycle_objects
    /\ counted = {}
    /\ root \in Counted =>
         /\ seen \subseteq Counted
         /\ ReachLocked
         /\ is_cyclic_root => \E c \in cycle_objects : root \in Children(field, c)
         /\ \A c \in cycle_objects, i \in Slots :
              (c # current \/ i < idx) => field[c][i] \in seen \cup {Null}
    /\ root \notin Counted => ~is_cyclic_root /\ Apart(root, seen \ {root})

\* While it loads the counts: an object with no more references than the
\* traversal met when its count was loaded has got none since.
GrayInv ==
  pc[Collector] = "gray" =>
    /\ root \in cycle_objects
    /\ cycle_objects = seen
    /\ seen \subseteq Counted
    /\ ReachLocked
    /\ \E c \in cycle_objects : root \in Children(field, c)
    /\ Closed(field, cycle_objects)
    /\ counted \subseteq cycle_objects
    /\ \A o \in counted :
         /\ Cardinality(EdgesTo(field, cycle_objects, o)) <= count_map[o]
         /\ Cardinality(EdgesTo(field, cycle_objects, o)) = count_map[o] =>
              /\ Fields(o) = EdgesTo(field, cycle_objects, o)
              /\ Locals(o) = {} /\ Calls(o) = {}

\* What the collector releases: it is condemned or waiting, and what a waiting
\* object among it refers to is released with it.  Between two roots the locals
\* of the marking are empty.
ReleaseInv ==
  /\ pc[Collector] = "check" =>
       \A o \in non_cycle_objects : /\ state[o] = "waiting_for_gc"
                                    /\ Children(field, o) \subseteq non_cycle_objects \cup todo
  /\ pc[Collector] # "check" => non_cycle_objects = {}
  /\ Condemned \subseteq release_objects
  /\ \A o \in release_objects : state[o] = "waiting_for_gc"
  /\ pc[Collector] # "kill" =>
       \A o \in release_objects : count[o] = 0 => Children(field, o) \subseteq release_objects
  /\ releasing \subseteq release_objects
  /\ pc[Collector] = "kill" \/ ~InRelease => releasing = {}
  /\ pc[Collector] = "idle" => release_objects = {}
  /\ pc[Collector] = "release_field" \/ ret[Collector] = "release_field" =>
       current \in release_objects \ releasing
  /\ idx >= 1
  /\ idx = 1 \/ pc[Collector] \in {"red_read", "release_field"} \/ ret[Collector] = "release_field"
  /\ pc[Collector] \in {"idle", "next_root", "release", "kill"} => current = Null
  /\ pc[Collector] \notin {"red", "red_read", "gray", "red_unlock", "check"} =>
       todo = {} /\ cycle_objects = {} /\ counted = {} /\ ~is_cyclic_root

\* The lists of suspected objects.
ListInv ==
  /\ SuspectedTracked
  /\ pc[Collector] \in {"red", "red_read", "gray", "red_unlock", "check"} => root \in roots
  /\ pending \subseteq roots
  /\ pc[Collector] = "idle" => roots = {}
  /\ InRelease => /\ pending = {}
                  /\ \A o \in release_objects \ releasing : o \notin roots \cup suspected_object_list
  /\ \A t \in Threads : /\ pc[t] = "cas" => tgt[t] \in CyclicType
                        /\ pc[t] = "insert" => Suspected(tgt[t])

\* What mutators name they hold, and they hold no more than they may.
MutatorInv ==
  /\ \A m \in Mutators : Operating(m) => par[m] = Module \/ held[m][par[m]] > 0
  /\ \A m \in Mutators : pc[m] # "done" => held[Main][Module] > 0
  /\ \A m \in Owners, o \in Obj : held[m][o] <= MaxHeld
  /\ \A m \in Mutators : InGetClone(m) => held[m][tgt[m]] < MaxHeld

OwnInv ==
  /\ CountInv /\ HandsDying /\ HandsApart /\ FlowInv /\ AcyclicInv
  /\ RedInv /\ GrayInv /\ ReleaseInv /\ ListInv /\ MutatorInv
==============================================================================
