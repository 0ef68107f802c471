---------------------------- MODULE ObjectOrders ----------------------------
(***************************************************************************)
(* The orders new, get_field and set_field, evaluated by several threads   *)
(* on one object they share.  get_field clones, borrows or moves what a    *)
(* field holds; a field that is lent holds a marker until the borrower     *)
(* puts the object back.  set_field with borrow_lock waits for that,       *)
(* set_field without it stores at once and is how a borrower gives back.   *)
(*                                                                         *)
(* Programs keep the discipline the orders are named for: what a register  *)
(* owns is stored once, what it borrows goes back to the same field, and   *)
(* a result goes to a register that holds nothing.  The machine keeps no   *)
(* record of it; owns and borrows do here.                                 *)
(***************************************************************************)
EXTENDS Integers, Sequences, FiniteSets

CONSTANTS
  Threads, Registers, Objects,
  FieldNames,   \* the names orders give
  all_fields,   \* the names of the object's fields, in their order
  Null,         \* nullptr
  Lent,         \* the marker, (HeapObject*) 1
  MaxOrders     \* bound: orders begun in a behaviour

ASSUME FieldsAssumption == all_fields \in Seq(STRING) /\ all_fields # <<>>
ASSUME ValuesAssumption == Null \notin Objects /\ Lent \notin Objects /\ Null # Lent
ASSUME ThreadsAssumption == Null \notin Threads
ASSUME RegistersAssumption == Registers # {}
ASSUME OrdersAssumption == MaxOrders \in Nat

Cells == 0 .. Len(all_fields) - 1
Values == Objects \cup {Null}
Ownership == {"clone", "borrow", "move"}

VARIABLES
  fields,       \* the cells after the header of the object
  lock,         \* the thread that holds the lock of the object, or Null
  count,        \* the reference counts
  registers, pc, order,
  owns,         \* registers that own what is in them, as <<thread, register>>
  borrows,      \* and those that have borrowed it, with the cell it is from
  overwritten,  \* stores over a reference that was in a field, by object
  begun

held == <<owns, borrows>>
vars == <<fields, lock, count, registers, pc, order, held, overwritten, begun>>

NoOrder == [op |-> "none", cell |-> 0, register |-> CHOOSE r \in Registers : TRUE]

Init ==
  /\ fields \in [Cells -> Values]
  /\ lock = Null
  /\ count = [o \in Objects |-> Cardinality({c \in Cells : fields[c] = o})]
  /\ registers = [t \in Threads |-> [r \in Registers |-> Null]]
  /\ pc = [t \in Threads |-> "idle"]
  /\ order = [t \in Threads |-> NoOrder]
  /\ owns = {} /\ borrows = {}
  /\ overwritten = [o \in Objects |-> 0]
  /\ begun = 0

\* link: the index of the first field of that name; with no such field the
\* index stays what the order was made with.
Link(field_name) ==
  LET found == {c \in Cells : all_fields[c + 1] = field_name}
  IN IF found = {} THEN 0 ELSE CHOOSE c \in found : \A d \in found : c <= d

-----------------------------------------------------------------------------
HoldsNothing(t, r) == <<t, r>> \notin owns /\ \A c \in Cells : <<t, r, c>> \notin borrows

Begin(t, o) ==
  /\ pc[t] = "idle"
  /\ begun < MaxOrders
  /\ begun' = begun + 1
  /\ order' = [order EXCEPT ![t] = o]
  /\ pc' = [pc EXCEPT ![t] = "lock"]
  /\ UNCHANGED <<fields, lock, count, registers, held, overwritten>>

BeginGet(t, field_name, r, ownership) ==
  /\ HoldsNothing(t, r)
  /\ Begin(t, [op |-> ownership, cell |-> Link(field_name), register |-> r])

\* An owned object or nullptr, when no one has borrowed the field ...
BeginSet(t, field_name, r) ==
  /\ <<t, r>> \in owns \/ (HoldsNothing(t, r) /\ registers[t][r] = Null)
  /\ Begin(t, [op |-> "set_when_back", cell |-> Link(field_name), register |-> r])

\* ... and what was borrowed, whatever the field holds.
GiveBack(t, r, c) ==
  /\ <<t, r, c>> \in borrows
  /\ Begin(t, [op |-> "set", cell |-> c, register |-> r])

\* NewClassObject::eval: malloc hands out an object nobody refers to and
\* counts the reference in the register.  It is done without a lock.
New(t, r) ==
  /\ pc[t] = "idle"
  /\ begun < MaxOrders
  /\ begun' = begun + 1
  /\ HoldsNothing(t, r)
  /\ \E o \in Objects :
       /\ count[o] = 0
       /\ count' = [count EXCEPT ![o] = 1]
       /\ registers' = [registers EXCEPT ![t][r] = o]
  /\ owns' = owns \cup {<<t, r>>}
  /\ UNCHANGED <<fields, lock, pc, order, borrows, overwritten>>

\* object_lock
Lock(t) ==
  /\ pc[t] = "lock"
  /\ lock = Null
  /\ lock' = t
  /\ pc' = [pc EXCEPT ![t] = "locked"]
  /\ UNCHANGED <<fields, count, registers, order, held, overwritten, begun>>

\* Fault: the object stays locked.
DoneLocked(t) ==
  /\ UNCHANGED lock
  /\ pc' = [pc EXCEPT ![t] = "idle"]
  /\ order' = [order EXCEPT ![t] = NoOrder]

\* object_unlock, after which the order is done
Done(t) ==
  /\ lock' = Null
  /\ pc' = [pc EXCEPT ![t] = "idle"]
  /\ order' = [order EXCEPT ![t] = NoOrder]

\* Fault: a clone is not counted.
CountedNever(op, value) == count

\* A clone is counted; a move and a borrow take the reference over.
Counted(op, value) ==
  IF op = "clone" /\ value # Null THEN [count EXCEPT ![value] = @ + 1] ELSE count

\* GetObjectFieldOwnership::eval.  Where the field is lent the loop goes
\* round with the lock still held.
GetField(t) ==
  LET op == order[t].op
      cell == order[t].cell
      value == fields[cell]
      r == order[t].register
  IN
  /\ pc[t] = "locked"
  /\ op \in Ownership
  /\ IF value = Lent
     THEN /\ pc' = [pc EXCEPT ![t] = "lock"]
          /\ UNCHANGED <<lock, fields, count, registers, held, order>>
     ELSE /\ count' = Counted(op, value)
          /\ fields' = CASE op = "clone" -> fields
                         [] op = "borrow" -> [fields EXCEPT ![cell] = Lent]
                         [] op = "move" -> [fields EXCEPT ![cell] = Null]
          /\ registers' = [registers EXCEPT ![t][r] = value]
          /\ owns' = IF op = "borrow" \/ value = Null THEN owns ELSE owns \cup {<<t, r>>}
          /\ borrows' = IF op = "borrow" THEN borrows \cup {<<t, r, cell>>} ELSE borrows
          /\ Done(t)
  /\ UNCHANGED <<overwritten, begun>>

\* Fault: borrow_lock is not looked at.
WaitsNever(t) == FALSE

\* With borrow_lock a lent field is waited for ...
Waits(t) == order[t].op = "set_when_back" /\ fields[order[t].cell] = Lent

\* Fault: the loop goes round with the lock still held.
GoRoundLocked(t) == UNCHANGED lock /\ pc' = [pc EXCEPT ![t] = "lock"]

\* ... with the object unlocked in between.
GoRound(t) == lock' = Null /\ pc' = [pc EXCEPT ![t] = "lock"]

\* SetObjectFieldOwnership::eval.  What the field held is not released.
SetField(t) ==
  LET cell == order[t].cell
      old == fields[cell]
      r == order[t].register
  IN
  /\ pc[t] = "locked"
  /\ order[t].op \in {"set", "set_when_back"}
  /\ IF Waits(t) THEN GoRound(t) /\ UNCHANGED <<fields, held, overwritten, order>>
     ELSE /\ fields' = [fields EXCEPT ![cell] = registers[t][r]]
          /\ owns' = owns \ {<<t, r>>}
          /\ borrows' = borrows \ {<<t, r, cell>>}
          /\ overwritten' = IF old \in Objects THEN [overwritten EXCEPT ![old] = @ + 1]
                            ELSE overwritten
          /\ Done(t)
  /\ UNCHANGED <<count, registers, begun>>

-----------------------------------------------------------------------------
Eval(t) == Lock(t) \/ GetField(t) \/ SetField(t)

Next ==
  \E t \in Threads :
    \/ Eval(t)
    \/ \E r \in Registers :
         \/ New(t, r)
         \/ \E c \in Cells : GiveBack(t, r, c)
         \/ \E n \in FieldNames :
              BeginSet(t, n, r) \/ \E o \in Ownership : BeginGet(t, n, r, o)

Spec == Init /\ [][Next]_vars

\* A thread that evaluates an order keeps running.
FairSpec == Spec /\ \A t \in Threads : WF_vars(Eval(t))

-----------------------------------------------------------------------------
Ops == Ownership \cup {"none", "set", "set_when_back"}

\* The state of the object and of the threads that evaluate orders on it.
TypeOK ==
  /\ fields \in [Cells -> Values \cup {Lent}]
  /\ lock \in Threads \cup {Null}
  /\ count \in [Objects -> Nat]
  /\ registers \in [Threads -> [Registers -> Values]]
  /\ pc \in [Threads -> {"idle", "lock", "locked"}]
  /\ order \in [Threads -> [op : Ops, cell : Cells, register : Registers]]
  /\ owns \subseteq Threads \X Registers
  /\ borrows \subseteq Threads \X Registers \X Cells
  /\ overwritten \in [Objects -> Nat]
  /\ begun \in 0 .. MaxOrders

Borrows(t, r, c) == <<t, r, c>> \in borrows

\* A field is lent to one register of one thread and comes back from there:
\* in the meantime no order of another thread takes what it held or stores
\* over the marker.
LentToOne ==
  \A c \in Cells :
    /\ fields[c] = Lent <=> \E t \in Threads, r \in Registers : Borrows(t, r, c)
    /\ \A t, u \in Threads, r, q \in Registers :
         Borrows(t, r, c) /\ Borrows(u, q, c) => t = u /\ r = q

Contains(x, o) == registers[x[1]][x[2]] = o

\* The count of an object is the number of references to it, in fields, in
\* registers that own it and lent from a field, and those stored over: that
\* is the one way in which get_field and set_field lose one.
CountAccounts ==
  \A o \in Objects :
    count[o] = Cardinality({c \in Cells : fields[c] = o})
               + Cardinality({x \in owns : Contains(x, o)})
               + Cardinality({x \in borrows : Contains(x, o)})
               + overwritten[o]

SelfWait(t) == lock = t /\ pc[t] = "lock"

\* A thread waits for the lock it holds itself only in a get_field that has
\* met a lent field.  The borrower cannot give back then, nor can anyone.
SelfWaitMeansLent ==
  \A t \in Threads :
    SelfWait(t) => order[t].op \in Ownership /\ fields[order[t].cell] = Lent

\* Every order ends, unless one has met a lent field.
OrdersEnd ==
  \A t \in Threads :
    (pc[t] = "lock") ~>
      (pc[t] = "idle" \/ \E u \in Threads : pc[u] # "idle" /\ fields[order[u].cell] = Lent)
=============================================================================
