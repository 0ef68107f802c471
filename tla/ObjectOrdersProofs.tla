------------------------- MODULE ObjectOrdersProofs -------------------------
(***************************************************************************)
(* LentToOne, SelfWaitMeansLent and CountAccounts for any number of        *)
(* threads, registers, fields and objects.                                 *)
(***************************************************************************)
EXTENDS ObjectOrders, FiniteSetTheorems, WellFoundedInduction, TLAPS

\* object_lock and object_unlock: who is past the lock holds it, and who
\* holds it is in an order.
Holder ==
  \A t \in Threads :
    /\ pc[t] = "locked" => lock = t
    /\ lock = t => pc[t] # "idle"

\* What a register owns it has not borrowed.
Disjoint == \A t \in Threads, r \in Registers, c \in Cells :
  <<t, r>> \in owns => <<t, r, c>> \notin borrows

\* While an order is evaluated its register stays what it was when the order
\* began: get_field has room for its result, a store that waits stores nothing
\* borrowed and one that does not wait gives back.
Pending ==
  \A t \in Threads :
    pc[t] # "idle" =>
      /\ order[t].op # "none"
      /\ order[t].op \in Ownership => HoldsNothing(t, order[t].register)
      /\ order[t].op = "set_when_back" =>
           \A c \in Cells : <<t, order[t].register, c>> \notin borrows
      /\ order[t].op = "set" => <<t, order[t].register, order[t].cell>> \in borrows

Inv == TypeOK /\ Holder /\ Disjoint /\ Pending /\ LentToOne /\ SelfWaitMeansLent

-----------------------------------------------------------------------------
\* The cells of an object with at least one field.
LEMMA CellsFacts == IsFiniteSet(Cells) /\ Cells \subseteq Nat /\ 0 \in Cells
<1>1. Len(all_fields) \in Nat /\ Len(all_fields) > 0
  BY FieldsAssumption
<1>2. IsFiniteSet(Cells)
  BY <1>1, FS_Interval DEF Cells
<1> QED
  BY <1>1, <1>2 DEF Cells

\* link always gives an order the index of a field, the smallest of that name
\* or 0.
LEMMA LinkInCells == ASSUME NEW n PROVE Link(n) \in Cells
<1> DEFINE found == {c \in Cells : all_fields[c + 1] = n}
<1>1. CASE found = {}
  BY <1>1, CellsFacts DEF Link
<1>2. CASE found # {}
  <2> DEFINE less == {ss \in Nat \X Nat : ss[1] < ss[2]}
  <2>0. IsWellFoundedOn(less, Nat)
    BY NatLessThanWellFounded DEF OpToRel
  <2>1. PICK c \in found : \A d \in found : ~(<<d, c>> \in less)
    <3> HIDE DEF less
    <3> QED
      BY <1>2, <2>0, CellsFacts, WFMin
  <2>2. \A d \in found : c <= d
    <3> TAKE d \in found
    <3>1. c \in Nat /\ d \in Nat
      BY CellsFacts
    <3>2. d < c => <<d, c>> \in less
      <4> HIDE DEF found
      <4> QED
        BY <3>1
    <3>3. <<d, c>> \notin less
      BY <2>1
    <3> HIDE DEF found, less
    <3> QED
      BY <3>1, <3>2, <3>3
  <2>3. Link(n) \in found
    BY <1>2, <2>2 DEF Link
  <2> QED
    BY <2>3
<1> QED
  BY <1>1, <1>2

\* The order of a thread that evaluates none.
LEMMA NoOrderType == NoOrder \in [op : Ops, cell : Cells, register : Registers]
<1>1. (CHOOSE r \in Registers : TRUE) \in Registers
  BY RegistersAssumption
<1> QED
  BY <1>1, CellsFacts DEF NoOrder, Ops

\* The initial states: nothing is locked, lent or under way.
LEMMA InitInv == Init => Inv
<1> SUFFICES ASSUME Init PROVE Inv
  OBVIOUS
<1>1. count \in [Objects -> Nat]
  <2>1. \A o \in Objects : IsFiniteSet({c \in Cells : fields[c] = o})
    BY CellsFacts, FS_Subset
  <2>2. \A o \in Objects : Cardinality({c \in Cells : fields[c] = o}) \in Nat
    BY <2>1, FS_CardinalityType
  <2> QED
    BY <2>2 DEF Init
<1>2. order \in [Threads -> [op : Ops, cell : Cells, register : Registers]]
  BY NoOrderType DEF Init
<1>3. fields \in [Cells -> Values \cup {Lent}] /\ \A c \in Cells : fields[c] # Lent
  BY ValuesAssumption DEF Init, Values
<1>4. TypeOK
  BY <1>1, <1>2, <1>3, OrdersAssumption DEF Init, TypeOK, Values
<1>5. Holder
  BY ThreadsAssumption DEF Init, Holder
<1>6. Disjoint /\ Pending
  BY DEF Init, Disjoint, Pending
<1>7. LentToOne
  BY <1>3 DEF Init, LentToOne, Borrows
<1>8. SelfWaitMeansLent
  BY DEF Init, SelfWaitMeansLent, SelfWait
<1> QED
  BY <1>4, <1>5, <1>6, <1>7, <1>8 DEF Inv

-----------------------------------------------------------------------------
\* An order begins with a register that fits it.
LEMMA BeginInv ==
  ASSUME Inv, NEW t \in Threads,
         NEW op \in Ops \ {"none"}, NEW cell \in Cells, NEW r \in Registers,
         Begin(t, [op |-> op, cell |-> cell, register |-> r]),
         op \in Ownership => HoldsNothing(t, r),
         op = "set_when_back" => \A c \in Cells : <<t, r, c>> \notin borrows,
         op = "set" => <<t, r, cell>> \in borrows
  PROVE  Inv'
<1> USE DEF Begin
<1> DEFINE o == [op |-> op, cell |-> cell, register |-> r]
<1>0. TypeOK /\ Holder /\ Disjoint /\ Pending /\ LentToOne /\ SelfWaitMeansLent
  BY DEF Inv
<1>o. o \in [op : Ops, cell : Cells, register : Registers]
  OBVIOUS
<1>e. /\ order'[t] = o
      /\ \A u \in Threads \ {t} : order'[u] = order[u] /\ pc'[u] = pc[u]
      /\ pc[t] = "idle" /\ pc'[t] = "lock"
  BY <1>0 DEF TypeOK
<1>1. TypeOK'
  <2>1. order' \in [Threads -> [op : Ops, cell : Cells, register : Registers]]
    <3> HIDE DEF o
    <3> QED
      BY <1>0, <1>o DEF TypeOK, o
  <2>2. pc' \in [Threads -> {"idle", "lock", "locked"}]
    BY <1>0 DEF TypeOK
  <2>3. begun' \in 0 .. MaxOrders
    BY <1>0, OrdersAssumption DEF TypeOK
  <2> QED
    BY <1>0, <2>1, <2>2, <2>3 DEF TypeOK, held
<1>2. Holder'
  BY <1>0, <1>e DEF Holder
<1>3. Disjoint'
  BY <1>0 DEF Disjoint, held
<1>4. Pending'
  <2>1. o.op = op /\ o.cell = cell /\ o.register = r
    OBVIOUS
  <2> HIDE DEF o
  <2>2. owns' = owns /\ borrows' = borrows
    BY DEF held
  <2> QED
    BY <1>0, <1>e, <2>1, <2>2 DEF Pending, HoldsNothing
<1>5. LentToOne'
  BY <1>0 DEF LentToOne, Borrows, held
<1>6. SelfWaitMeansLent'
  BY <1>0, <1>e DEF SelfWaitMeansLent, SelfWait, Holder
<1> QED
  BY <1>1, <1>2, <1>3, <1>4, <1>5, <1>6 DEF Inv

\* new: the register owns its object and has borrowed nothing.
LEMMA NewInv ==
  ASSUME Inv, NEW t \in Threads, NEW r \in Registers, New(t, r)
  PROVE  Inv'
<1> USE DEF New
<1>0. TypeOK /\ Holder /\ Disjoint /\ Pending /\ LentToOne /\ SelfWaitMeansLent
  BY DEF Inv
<1>1. TypeOK'
  <2>1. PICK o \in Objects : /\ count' = [count EXCEPT ![o] = 1]
                             /\ registers' = [registers EXCEPT ![t][r] = o]
    OBVIOUS
  <2>2. count' \in [Objects -> Nat]
    BY <1>0, <2>1 DEF TypeOK
  <2>3. registers' \in [Threads -> [Registers -> Values]]
    BY <1>0, <2>1 DEF TypeOK, Values
  <2>4. begun' \in 0 .. MaxOrders /\ owns' \subseteq Threads \X Registers
    BY <1>0, OrdersAssumption DEF TypeOK
  <2> QED
    BY <1>0, <2>2, <2>3, <2>4 DEF TypeOK
<1>2. Holder'
  BY <1>0 DEF Holder
<1>3. Disjoint'
  BY <1>0 DEF Disjoint, HoldsNothing
<1>4. Pending'
  BY <1>0 DEF Pending, HoldsNothing
<1>5. LentToOne'
  BY <1>0 DEF LentToOne, Borrows
<1>6. SelfWaitMeansLent'
  BY <1>0 DEF SelfWaitMeansLent, SelfWait
<1> QED
  BY <1>1, <1>2, <1>3, <1>4, <1>5, <1>6 DEF Inv

\* object_lock takes a lock nobody has.
LEMMA LockInv == ASSUME Inv, NEW t \in Threads, Lock(t) PROVE Inv'
<1> USE DEF Lock
<1>0. TypeOK /\ Holder /\ Disjoint /\ Pending /\ LentToOne /\ SelfWaitMeansLent
  BY DEF Inv
<1>e. pc'[t] = "locked" /\ \A u \in Threads \ {t} : pc'[u] = pc[u]
  BY <1>0 DEF TypeOK
<1>1. TypeOK'
  BY <1>0 DEF TypeOK, held
<1>2. Holder'
  BY <1>0, <1>e, ThreadsAssumption DEF Holder
<1>3. Disjoint'
  BY <1>0 DEF Disjoint, held
<1>4. Pending'
  BY <1>0, <1>e DEF Pending, HoldsNothing, held
<1>5. LentToOne'
  BY <1>0 DEF LentToOne, Borrows, held
<1>6. SelfWaitMeansLent'
  BY <1>0, <1>e DEF SelfWaitMeansLent, SelfWait
<1> QED
  BY <1>1, <1>2, <1>3, <1>4, <1>5, <1>6 DEF Inv

\* object_unlock at the end of an order: what it says of program counters.
LEMMA DoneFacts ==
  ASSUME Inv, NEW t \in Threads, pc[t] = "locked", Done(t)
  PROVE  /\ lock' = Null /\ Holder' /\ SelfWaitMeansLent'
         /\ pc' \in [Threads -> {"idle", "lock", "locked"}]
         /\ order' \in [Threads -> [op : Ops, cell : Cells, register : Registers]]
         /\ pc'[t] = "idle"
         /\ \A u \in Threads \ {t} : pc'[u] = pc[u] /\ order'[u] = order[u]
<1>0. TypeOK /\ Holder
  BY DEF Inv
<1>1. order' \in [Threads -> [op : Ops, cell : Cells, register : Registers]]
  BY <1>0, NoOrderType DEF TypeOK, Done
<1>2. /\ pc' \in [Threads -> {"idle", "lock", "locked"}]
      /\ pc'[t] = "idle"
      /\ \A u \in Threads \ {t} : pc'[u] = pc[u] /\ order'[u] = order[u]
      /\ lock' = Null /\ lock = t
  BY <1>0 DEF TypeOK, Done, Holder
<1>3. Holder'
  BY <1>0, <1>2, ThreadsAssumption DEF Holder
<1>4. SelfWaitMeansLent'
  BY <1>2, ThreadsAssumption DEF SelfWaitMeansLent, SelfWait
<1> QED
  BY <1>1, <1>2, <1>3, <1>4

\* get_field: a borrowed field was not lent before, and a field that is lent
\* makes the thread wait for itself.
LEMMA GetFieldInv == ASSUME Inv, NEW t \in Threads, GetField(t) PROVE Inv'
<1> DEFINE op == order[t].op
           cell == order[t].cell
           r == order[t].register
           value == fields[cell]
<1>0. TypeOK /\ Holder /\ Disjoint /\ Pending /\ LentToOne /\ SelfWaitMeansLent
  BY DEF Inv
<1>t. cell \in Cells /\ r \in Registers /\ op \in Ownership /\ pc[t] = "locked"
  BY <1>0 DEF TypeOK, GetField
<1>h. HoldsNothing(t, r)
  BY <1>0, <1>t DEF Pending
<1>1. CASE value = Lent
  <2>1. /\ pc' = [pc EXCEPT ![t] = "lock"]
        /\ UNCHANGED <<lock, fields, count, registers, owns, borrows, order, overwritten, begun>>
    BY <1>1 DEF GetField, held
  <2>e. pc'[t] = "lock" /\ \A u \in Threads \ {t} : pc'[u] = pc[u]
    BY <1>0, <2>1 DEF TypeOK
  <2>2. TypeOK'
    BY <1>0, <2>1 DEF TypeOK
  <2>3. Holder'
    BY <1>0, <2>1, <2>e, <1>t DEF Holder
  <2>4. Disjoint' /\ LentToOne'
    BY <1>0, <2>1 DEF Disjoint, LentToOne, Borrows
  <2>5. Pending'
    BY <1>0, <1>t, <2>1, <2>e DEF Pending, HoldsNothing
  <2>6. SelfWaitMeansLent'
    BY <1>0, <1>1, <1>t, <2>1, <2>e DEF SelfWaitMeansLent, SelfWait
  <2> QED
    BY <2>2, <2>3, <2>4, <2>5, <2>6 DEF Inv
<1>2. CASE value # Lent
  <2>1. /\ count' = Counted(op, value)
        /\ fields' = CASE op = "clone" -> fields
                       [] op = "borrow" -> [fields EXCEPT ![cell] = Lent]
                       [] op = "move" -> [fields EXCEPT ![cell] = Null]
        /\ registers' = [registers EXCEPT ![t][r] = value]
        /\ owns' = IF op = "borrow" \/ value = Null THEN owns ELSE owns \cup {<<t, r>>}
        /\ borrows' = IF op = "borrow" THEN borrows \cup {<<t, r, cell>>} ELSE borrows
        /\ Done(t)
        /\ UNCHANGED <<overwritten, begun>>
    BY <1>2 DEF GetField
  <2>d. /\ lock' = Null /\ Holder' /\ SelfWaitMeansLent'
        /\ pc' \in [Threads -> {"idle", "lock", "locked"}]
        /\ order' \in [Threads -> [op : Ops, cell : Cells, register : Registers]]
        /\ pc'[t] = "idle"
        /\ \A u \in Threads \ {t} : pc'[u] = pc[u] /\ order'[u] = order[u]
    BY <2>1, <1>t, DoneFacts
  <2>v. value \in Values
    BY <1>0, <1>2, <1>t DEF TypeOK
  <2> HIDE DEF value, op, cell, r
  <2>2. TypeOK'
    <3>1. count' \in [Objects -> Nat]
      BY <1>0, <2>1, <2>v DEF TypeOK, Counted, Values
    <3>2. fields' \in [Cells -> Values \cup {Lent}]
      BY <1>0, <1>t, <2>1 DEF TypeOK, Values, Ownership
    <3>3. registers' \in [Threads -> [Registers -> Values]]
      BY <1>0, <1>t, <2>1, <2>v DEF TypeOK
    <3>4. owns' \subseteq Threads \X Registers /\ borrows' \subseteq Threads \X Registers \X Cells
      BY <1>0, <1>t, <2>1 DEF TypeOK
    <3> QED
      BY <1>0, <2>1, <2>d, <3>1, <3>2, <3>3, <3>4 DEF TypeOK
  <2>3. Disjoint'
    BY <1>0, <1>t, <1>h, <2>1 DEF Disjoint, HoldsNothing
  <2>4. Pending'
    BY <1>0, <1>t, <2>1, <2>d DEF Pending, HoldsNothing
  <2>5. LentToOne'
    <3>1. \A u \in Threads, q \in Registers : <<u, q, cell>> \notin borrows
      BY <1>0, <1>2, <1>t DEF LentToOne, Borrows, value
    <3>2. CASE op = "borrow"
      <4>1. fields' = [fields EXCEPT ![cell] = Lent] /\ borrows' = borrows \cup {<<t, r, cell>>}
        BY <2>1, <3>2
      <4>2. fields'[cell] = Lent /\ \A c \in Cells \ {cell} : fields'[c] = fields[c]
        BY <1>0, <1>t, <4>1 DEF TypeOK
      <4> QED
        BY <1>0, <1>t, <3>1, <4>1, <4>2 DEF LentToOne, Borrows
    <3>3. CASE op # "borrow"
      <4>1. borrows' = borrows
        BY <2>1, <3>3
      <4>2. fields'[cell] # Lent /\ \A c \in Cells \ {cell} : fields'[c] = fields[c]
        BY <1>0, <1>2, <1>t, <2>1, <3>3, ValuesAssumption DEF TypeOK, Ownership, value
      <4> QED
        BY <1>0, <1>t, <3>1, <4>1, <4>2 DEF LentToOne, Borrows
    <3> QED
      BY <3>2, <3>3
  <2> QED
    BY <2>2, <2>3, <2>4, <2>5, <2>d DEF Inv
<1> QED
  BY <1>1, <1>2

\* set_field: a store that waits finds the field back; one that does not is
\* made by the register the field was lent to.
LEMMA SetFieldInv == ASSUME Inv, NEW t \in Threads, SetField(t) PROVE Inv'
<1> DEFINE op == order[t].op
           cell == order[t].cell
           r == order[t].register
<1>0. TypeOK /\ Holder /\ Disjoint /\ Pending /\ LentToOne /\ SelfWaitMeansLent
  BY DEF Inv
<1>t. cell \in Cells /\ r \in Registers /\ op \in {"set", "set_when_back"} /\ pc[t] = "locked"
  BY <1>0 DEF TypeOK, SetField
<1>1. CASE Waits(t)
  <2>1. /\ pc' = [pc EXCEPT ![t] = "lock"] /\ lock' = Null
        /\ UNCHANGED <<fields, count, registers, owns, borrows, order, overwritten, begun>>
    BY <1>1 DEF SetField, GoRound, held
  <2>e. pc'[t] = "lock" /\ \A u \in Threads \ {t} : pc'[u] = pc[u]
    BY <1>0, <2>1 DEF TypeOK
  <2>2. TypeOK'
    BY <1>0, <2>1 DEF TypeOK
  <2>3. Holder'
    BY <1>0, <2>1, <2>e, <1>t, ThreadsAssumption DEF Holder
  <2>4. Disjoint' /\ LentToOne'
    BY <1>0, <2>1 DEF Disjoint, LentToOne, Borrows
  <2>5. Pending'
    BY <1>0, <1>t, <2>1, <2>e DEF Pending, HoldsNothing
  <2>6. SelfWaitMeansLent'
    BY <2>1, ThreadsAssumption DEF SelfWaitMeansLent, SelfWait
  <2> QED
    BY <2>2, <2>3, <2>4, <2>5, <2>6 DEF Inv
<1>2. CASE ~Waits(t)
  <2>1. /\ fields' = [fields EXCEPT ![cell] = registers[t][r]]
        /\ owns' = owns \ {<<t, r>>}
        /\ borrows' = borrows \ {<<t, r, cell>>}
        /\ overwritten' = IF fields[cell] \in Objects
                          THEN [overwritten EXCEPT ![fields[cell]] = @ + 1] ELSE overwritten
        /\ Done(t)
        /\ UNCHANGED <<count, registers, begun>>
    BY <1>2 DEF SetField
  <2>d. /\ lock' = Null /\ Holder' /\ SelfWaitMeansLent'
        /\ pc' \in [Threads -> {"idle", "lock", "locked"}]
        /\ order' \in [Threads -> [op : Ops, cell : Cells, register : Registers]]
        /\ pc'[t] = "idle"
        /\ \A u \in Threads \ {t} : pc'[u] = pc[u] /\ order'[u] = order[u]
    BY <2>1, <1>t, DoneFacts
  <2>v. registers[t][r] \in Values
    BY <1>0, <1>t DEF TypeOK
  <2>w. \/ <<t, r, cell>> \in borrows
        \/ fields[cell] # Lent /\ <<t, r, cell>> \notin borrows
    BY <1>0, <1>2, <1>t DEF Pending, Waits
  <2> HIDE DEF op, cell, r
  <2>2. TypeOK'
    <3>1. fields' \in [Cells -> Values \cup {Lent}]
      BY <1>0, <1>t, <2>1, <2>v DEF TypeOK
    <3>2. overwritten' \in [Objects -> Nat]
      BY <1>0, <2>1 DEF TypeOK
    <3> QED
      BY <1>0, <2>1, <2>d, <3>1, <3>2 DEF TypeOK
  <2>3. Disjoint'
    BY <1>0, <2>1 DEF Disjoint
  <2>4. Pending'
    BY <1>0, <1>t, <2>1, <2>d DEF Pending, HoldsNothing
  <2>5. LentToOne'
    <3>1. fields'[cell] # Lent /\ \A c \in Cells \ {cell} : fields'[c] = fields[c]
      BY <1>0, <1>t, <2>1, <2>v, ValuesAssumption DEF TypeOK, Values
    <3>2. \A u \in Threads, q \in Registers : <<u, q, cell>> \notin borrows'
      BY <1>0, <1>t, <2>1, <2>w DEF LentToOne, Borrows
    <3>3. \A u \in Threads, q \in Registers, c \in Cells \ {cell} :
             <<u, q, c>> \in borrows' <=> <<u, q, c>> \in borrows
      BY <2>1
    <3>4. SUFFICES ASSUME NEW c \in Cells
                   PROVE  /\ fields'[c] = Lent <=>
                               \E u \in Threads, q \in Registers : <<u, q, c>> \in borrows'
                          /\ \A u, v \in Threads, p, q \in Registers :
                               <<u, p, c>> \in borrows' /\ <<v, q, c>> \in borrows'
                                 => u = v /\ p = q
      BY DEF LentToOne, Borrows
    <3>5. CASE c = cell
      BY <3>1, <3>2, <3>5
    <3>6. CASE c # cell
      BY <1>0, <3>1, <3>3, <3>6 DEF LentToOne, Borrows
    <3> QED
      BY <3>5, <3>6
  <2> QED
    BY <2>2, <2>3, <2>4, <2>5, <2>d DEF Inv
<1> QED
  BY <1>1, <1>2

-----------------------------------------------------------------------------
\* Every step of every thread keeps the invariant.
LEMMA NextInv == Inv /\ [Next]_vars => Inv'
<1> SUFFICES ASSUME Inv, [Next]_vars PROVE Inv'
  OBVIOUS
<1>1. ASSUME NEW t \in Threads, Eval(t) PROVE Inv'
  BY <1>1, LockInv, GetFieldInv, SetFieldInv DEF Eval
<1>2. ASSUME NEW t \in Threads, NEW r \in Registers, NEW c \in Cells, GiveBack(t, r, c) PROVE Inv'
  <2>1. "set" \in Ops \ {"none"} /\ "set" \notin Ownership /\ "set" # "set_when_back"
    BY DEF Ops, Ownership
  <2>2. <<t, r, c>> \in borrows /\ Begin(t, [op |-> "set", cell |-> c, register |-> r])
    BY <1>2 DEF GiveBack
  <2> QED
    BY <2>1, <2>2, BeginInv
<1>3. ASSUME NEW t \in Threads, NEW r \in Registers, NEW n \in FieldNames, BeginSet(t, n, r) PROVE Inv'
  <2>1. /\ "set_when_back" \in Ops \ {"none"} /\ "set_when_back" \notin Ownership
        /\ "set" # "set_when_back"
    BY DEF Ops, Ownership
  <2>2. \A c \in Cells : <<t, r, c>> \notin borrows
    BY <1>3 DEF BeginSet, HoldsNothing, Inv, Disjoint
  <2>3. Begin(t, [op |-> "set_when_back", cell |-> Link(n), register |-> r])
    BY <1>3 DEF BeginSet
  <2> QED
    BY <2>1, <2>2, <2>3, LinkInCells, BeginInv
<1>4. ASSUME NEW t \in Threads, NEW r \in Registers, NEW n \in FieldNames, NEW o \in Ownership,
             BeginGet(t, n, r, o)
      PROVE Inv'
  <2>1. o \in Ops \ {"none"} /\ o # "set" /\ o # "set_when_back"
    BY DEF Ops, Ownership
  <2>2. HoldsNothing(t, r) /\ Begin(t, [op |-> o, cell |-> Link(n), register |-> r])
    BY <1>4 DEF BeginGet
  <2> QED
    BY <2>1, <2>2, LinkInCells, BeginInv
<1>5. CASE UNCHANGED vars
  BY <1>5 DEF vars, held, Inv, TypeOK, Holder, Disjoint, Pending, HoldsNothing, LentToOne, Borrows,
              SelfWaitMeansLent, SelfWait
<1> QED
  BY <1>1, <1>2, <1>3, <1>4, <1>5, NewInv DEF Next

\* The invariant holds in every state of every behaviour.
LEMMA InvAlways == Spec => []Inv
  BY InitInv, NextInv, PTL DEF Spec

\* A field that get_field has lent has one borrower and comes back from there,
\* however set_field and get_field of other threads come in between.
THEOREM LentOnce == Spec => []LentToOne
<1>1. Inv => LentToOne
  BY DEF Inv
<1> QED
  BY <1>1, InvAlways, PTL

\* The path of get_field that goes round without unlocking is the only way in
\* which evaluating orders makes a thread wait for its own lock.
THEOREM SelfWaitOnlyAtLent == Spec => []SelfWaitMeansLent
<1>1. Inv => SelfWaitMeansLent
  BY DEF Inv
<1> QED
  BY <1>1, InvAlways, PTL
-----------------------------------------------------------------------------
(***************************************************************************)
(* Counting references.                                                    *)
(***************************************************************************)

\* A store that waits for its field stores what its register owns, or nullptr.
StoreOwned ==
  \A t \in Threads :
    (pc[t] # "idle" /\ order[t].op = "set_when_back") =>
      <<t, order[t].register>> \in owns \/ registers[t][order[t].register] = Null

\* Finitely many registers hold something at a time.
HeldFinite == IsFiniteSet(owns) /\ IsFiniteSet(borrows)

CountInv == StoreOwned /\ HeldFinite /\ CountAccounts

\* Where the references to an object are.
InFields(o) == {c \in Cells : fields[c] = o}
InOwners(o) == {x \in owns : Contains(x, o)}
InBorrowers(o) == {x \in borrows : Contains(x, o)}

Same(v, o) == IF v = o THEN 1 ELSE 0

\* The sets that are counted are finite.
LEMMA ReferencesFinite ==
  ASSUME HeldFinite, NEW o
  PROVE  /\ IsFiniteSet(InFields(o)) /\ Cardinality(InFields(o)) \in Nat
         /\ IsFiniteSet(InOwners(o)) /\ Cardinality(InOwners(o)) \in Nat
         /\ IsFiniteSet(InBorrowers(o)) /\ Cardinality(InBorrowers(o)) \in Nat
<1>1. IsFiniteSet(InFields(o))
  BY CellsFacts, FS_Subset DEF InFields
<1>2. IsFiniteSet(InOwners(o)) /\ IsFiniteSet(InBorrowers(o))
  BY FS_Subset DEF HeldFinite, InOwners, InBorrowers
<1> QED
  BY <1>1, <1>2, FS_CardinalityType

\* Storing into a field: the old value has one reference less, the new one one
\* more.
LEMMA FieldStored ==
  ASSUME TypeOK, HeldFinite, NEW cell \in Cells, NEW v, NEW o,
         fields' = [fields EXCEPT ![cell] = v]
  PROVE  Cardinality(InFields(o)') =
           Cardinality(InFields(o)) - Same(fields[cell], o) + Same(v, o)
<1>1. fields'[cell] = v /\ \A c \in Cells \ {cell} : fields'[c] = fields[c]
  BY DEF TypeOK
<1> DEFINE rest == InFields(o) \ {cell}
<1>2. /\ IsFiniteSet(rest)
      /\ Cardinality(rest) = Cardinality(InFields(o)) - Same(fields[cell], o)
      /\ Cardinality(InFields(o)) \in Nat /\ Cardinality(rest) \in Nat
  <2>1. IsFiniteSet(InFields(o)) /\ Cardinality(InFields(o)) \in Nat
    BY ReferencesFinite
  <2>2. cell \in InFields(o) <=> fields[cell] = o
    BY DEF InFields
  <2>3. IsFiniteSet(rest) /\ Cardinality(rest) \in Nat
    BY <2>1, FS_RemoveElement, FS_CardinalityType
  <2> QED
    BY <2>1, <2>2, <2>3, FS_RemoveElement DEF Same
<1>3. CASE v = o
  <2>1. InFields(o)' = rest \cup {cell} /\ cell \notin rest
    BY <1>1, <1>3 DEF InFields
  <2> HIDE DEF rest
  <2>2. Cardinality(rest \cup {cell}) = Cardinality(rest) + 1
    BY <1>2, <2>1, FS_AddElement
  <2> QED
    BY <1>2, <1>3, <2>1, <2>2 DEF Same
<1>4. CASE v # o
  <2>1. InFields(o)' = rest
    BY <1>1, <1>4 DEF InFields
  <2> HIDE DEF rest
  <2> QED
    BY <1>2, <1>4, <2>1 DEF Same
<1> QED
  BY <1>3, <1>4

\* Writing a register that holds nothing changes no other register.
LEMMA RegisterWritten ==
  ASSUME TypeOK, NEW t \in Threads, NEW r \in Registers, NEW v, HoldsNothing(t, r),
         registers' = [registers EXCEPT ![t][r] = v]
  PROVE  /\ registers'[t][r] = v
         /\ \A u \in Threads, q \in Registers :
              <<u, q>> # <<t, r>> => registers'[u][q] = registers[u][q]
         /\ \A x \in owns : \A o : Contains(x, o)' <=> Contains(x, o)
         /\ \A x \in borrows : \A o : Contains(x, o)' <=> Contains(x, o)
<1>1. /\ registers'[t][r] = v
      /\ \A u \in Threads, q \in Registers :
           <<u, q>> # <<t, r>> => registers'[u][q] = registers[u][q]
  BY DEF TypeOK
<1>2. \A x \in owns : /\ x[1] \in Threads /\ x[2] \in Registers
                      /\ <<x[1], x[2]>> # <<t, r>>
  <2> SUFFICES ASSUME NEW x \in owns
               PROVE  x[1] \in Threads /\ x[2] \in Registers /\ <<x[1], x[2]>> # <<t, r>>
    OBVIOUS
  <2>1. x[1] \in Threads /\ x[2] \in Registers /\ x = <<x[1], x[2]>>
    BY DEF TypeOK
  <2> QED
    BY <2>1 DEF HoldsNothing
<1>3. \A x \in borrows : /\ x[1] \in Threads /\ x[2] \in Registers
                         /\ <<x[1], x[2]>> # <<t, r>>
  <2> SUFFICES ASSUME NEW x \in borrows
               PROVE  x[1] \in Threads /\ x[2] \in Registers /\ <<x[1], x[2]>> # <<t, r>>
    OBVIOUS
  <2>1. /\ x[1] \in Threads /\ x[2] \in Registers /\ x[3] \in Cells
        /\ x = <<x[1], x[2], x[3]>>
    BY DEF TypeOK
  <2> QED
    BY <2>1 DEF HoldsNothing
<1>4. \A x \in owns : \A o : Contains(x, o)' <=> Contains(x, o)
  BY <1>1, <1>2 DEF Contains
<1>5. \A x \in borrows : \A o : Contains(x, o)' <=> Contains(x, o)
  BY <1>1, <1>3 DEF Contains
<1> QED
  BY <1>1, <1>4, <1>5

\* A register that owns one more reference.
LEMMA OwnerAdded ==
  ASSUME HeldFinite, NEW x, NEW v, NEW o, x \notin owns, owns' = owns \cup {x},
         \A y \in owns : Contains(y, o)' <=> Contains(y, o),
         Contains(x, o)' <=> v = o
  PROVE  Cardinality(InOwners(o)') = Cardinality(InOwners(o)) + Same(v, o)
<1>1. InOwners(o)' = IF v = o THEN InOwners(o) \cup {x} ELSE InOwners(o)
  BY DEF InOwners
<1>2. x \notin InOwners(o) /\ IsFiniteSet(InOwners(o)) /\ Cardinality(InOwners(o)) \in Nat
  BY ReferencesFinite DEF InOwners
<1> QED
  <2>1. CASE v = o
    BY <1>1, <1>2, <2>1, FS_AddElement DEF Same
  <2>2. CASE v # o
    BY <1>1, <1>2, <2>2 DEF Same
  <2> QED
    BY <2>1, <2>2

\* A register that has borrowed one more.
LEMMA BorrowerAdded ==
  ASSUME HeldFinite, NEW x, NEW v, NEW o, x \notin borrows, borrows' = borrows \cup {x},
         \A y \in borrows : Contains(y, o)' <=> Contains(y, o),
         Contains(x, o)' <=> v = o
  PROVE  Cardinality(InBorrowers(o)') = Cardinality(InBorrowers(o)) + Same(v, o)
<1>1. InBorrowers(o)' = IF v = o THEN InBorrowers(o) \cup {x} ELSE InBorrowers(o)
  BY DEF InBorrowers
<1>2. /\ x \notin InBorrowers(o) /\ IsFiniteSet(InBorrowers(o))
      /\ Cardinality(InBorrowers(o)) \in Nat
  BY ReferencesFinite DEF InBorrowers
<1> QED
  <2>1. CASE v = o
    BY <1>1, <1>2, <2>1, FS_AddElement DEF Same
  <2>2. CASE v # o
    BY <1>1, <1>2, <2>2 DEF Same
  <2> QED
    BY <2>1, <2>2

\* A register lets go of what it held.
LEMMA HolderRemoved ==
  ASSUME HeldFinite, NEW x, NEW y, NEW o, registers' = registers,
         owns' = owns \ {x}, borrows' = borrows \ {y}
  PROVE  /\ Cardinality(InOwners(o)') =
              Cardinality(InOwners(o)) - (IF x \in InOwners(o) THEN 1 ELSE 0)
         /\ Cardinality(InBorrowers(o)') =
              Cardinality(InBorrowers(o)) - (IF y \in InBorrowers(o) THEN 1 ELSE 0)
<1>1. InOwners(o)' = InOwners(o) \ {x} /\ InBorrowers(o)' = InBorrowers(o) \ {y}
  BY DEF InOwners, InBorrowers, Contains
<1>2. /\ IsFiniteSet(InOwners(o)) /\ Cardinality(InOwners(o)) \in Nat
      /\ IsFiniteSet(InBorrowers(o)) /\ Cardinality(InBorrowers(o)) \in Nat
  BY ReferencesFinite
<1>3. \A S : (IsFiniteSet(S) /\ Cardinality(S) \in Nat) =>
        \A z : Cardinality(S \ {z}) = Cardinality(S) - (IF z \in S THEN 1 ELSE 0)
  BY FS_RemoveElement
<1> QED
  BY <1>1, <1>2, <1>3

-----------------------------------------------------------------------------
\* Nothing is counted or held at first but what the fields hold.
LEMMA InitCountInv == Init => CountInv
<1> SUFFICES ASSUME Init PROVE CountInv
  OBVIOUS
<1>1. StoreOwned
  BY DEF Init, StoreOwned
<1>2. HeldFinite
  BY FS_EmptySet DEF Init, HeldFinite
<1>3. CountAccounts
  <2> SUFFICES ASSUME NEW o \in Objects
               PROVE  count[o] = Cardinality(InFields(o)) + Cardinality(InOwners(o))
                                 + Cardinality(InBorrowers(o)) + overwritten[o]
    BY DEF CountAccounts, InFields, InOwners, InBorrowers
  <2>1. count[o] = Cardinality(InFields(o)) /\ overwritten[o] = 0
    BY DEF Init, InFields
  <2>2. InOwners(o) = {} /\ InBorrowers(o) = {}
    BY DEF Init, InOwners, InBorrowers
  <2>3. Cardinality(InFields(o)) \in Nat
    BY <1>2, ReferencesFinite
  <2> QED
    BY <2>1, <2>2, <2>3, FS_EmptySet
<1> QED
  BY <1>1, <1>2, <1>3 DEF CountInv

\* A step that moves no reference.
LEMMA CountKept ==
  ASSUME CountInv, UNCHANGED <<fields, count, registers, owns, borrows, overwritten>>
  PROVE  HeldFinite' /\ CountAccounts'
  BY DEF CountInv, HeldFinite, CountAccounts, Contains

\* An order begins; one that stores and waits owns what it stores.
LEMMA BeginCountInv ==
  ASSUME Inv, CountInv, NEW t \in Threads, NEW op, NEW cell, NEW r,
         Begin(t, [op |-> op, cell |-> cell, register |-> r]),
         op = "set_when_back" => <<t, r>> \in owns \/ registers[t][r] = Null
  PROVE  CountInv'
<1> DEFINE o == [op |-> op, cell |-> cell, register |-> r]
<1>1. UNCHANGED <<fields, count, registers, owns, borrows, overwritten>>
  BY DEF Begin, held
<1>2. /\ order'[t] = o
      /\ \A u \in Threads \ {t} : order'[u] = order[u] /\ pc'[u] = pc[u]
  BY DEF Inv, TypeOK, Begin
<1>3. o.op = op /\ o.register = r
  OBVIOUS
<1>4. StoreOwned'
  <2> HIDE DEF o
  <2> QED
    BY <1>1, <1>2, <1>3 DEF CountInv, StoreOwned
<1> QED
  BY <1>1, <1>4, CountKept DEF CountInv

\* new: the object was not counted, and is counted once for its register.
LEMMA NewCountInv ==
  ASSUME Inv, CountInv, NEW t \in Threads, NEW r \in Registers, New(t, r)
  PROVE  CountInv'
<1>0. TypeOK
  BY DEF Inv
<1>1. PICK n \in Objects : /\ count[n] = 0
                           /\ count' = [count EXCEPT ![n] = 1]
                           /\ registers' = [registers EXCEPT ![t][r] = n]
  BY DEF New
<1>2. /\ HoldsNothing(t, r) /\ pc[t] = "idle"
      /\ owns' = owns \cup {<<t, r>>} /\ <<t, r>> \notin owns
      /\ UNCHANGED <<fields, pc, order, borrows, overwritten>>
  BY DEF New, HoldsNothing
<1>3. /\ registers'[t][r] = n
      /\ \A u \in Threads, q \in Registers :
           <<u, q>> # <<t, r>> => registers'[u][q] = registers[u][q]
      /\ \A x \in owns : \A o : Contains(x, o)' <=> Contains(x, o)
      /\ \A x \in borrows : \A o : Contains(x, o)' <=> Contains(x, o)
  BY <1>0, <1>1, <1>2, RegisterWritten
<1>4. StoreOwned'
  <2>1. \A u \in Threads : order[u].register \in Registers
    BY <1>0 DEF TypeOK
  <2> QED
    BY <1>2, <1>3, <2>1 DEF CountInv, StoreOwned
<1>5. HeldFinite'
  BY <1>2, FS_AddElement DEF CountInv, HeldFinite
<1>6. CountAccounts'
  <2> SUFFICES ASSUME NEW o \in Objects
               PROVE  count'[o] = Cardinality(InFields(o)') + Cardinality(InOwners(o)')
                                  + Cardinality(InBorrowers(o)') + overwritten'[o]
    BY DEF CountAccounts, InFields, InOwners, InBorrowers
  <2>1. count[o] = Cardinality(InFields(o)) + Cardinality(InOwners(o))
                   + Cardinality(InBorrowers(o)) + overwritten[o]
    BY DEF CountInv, CountAccounts, InFields, InOwners, InBorrowers
  <2>2. InFields(o)' = InFields(o) /\ InBorrowers(o)' = InBorrowers(o)
    BY <1>2, <1>3 DEF InFields, InBorrowers
  <2>3. Cardinality(InOwners(o)') = Cardinality(InOwners(o)) + Same(n, o)
    <3>1. Contains(<<t, r>>, o)' <=> n = o
      BY <1>3 DEF Contains
    <3>2. \A y \in owns : Contains(y, o)' <=> Contains(y, o)
      BY <1>3
    <3>3. HeldFinite
      BY DEF CountInv
    <3> QED
      BY <1>2, <3>1, <3>2, <3>3, OwnerAdded
  <2>4. /\ Cardinality(InFields(o)) \in Nat /\ Cardinality(InOwners(o)) \in Nat
        /\ Cardinality(InBorrowers(o)) \in Nat /\ overwritten[o] \in Nat
    BY <1>0, ReferencesFinite DEF CountInv, TypeOK
  <2>5. count'[o] = IF o = n THEN 1 ELSE count[o]
    BY <1>0, <1>1 DEF TypeOK
  <2> QED
    BY <1>1, <1>2, <2>1, <2>2, <2>3, <2>4, <2>5 DEF Same
<1> QED
  BY <1>4, <1>5, <1>6 DEF CountInv

\* object_lock moves no reference.
LEMMA LockCountInv == ASSUME Inv, CountInv, NEW t \in Threads, Lock(t) PROVE CountInv'
<1>1. UNCHANGED <<fields, count, registers, owns, borrows, overwritten, order>>
  BY DEF Lock, held
<1>2. pc[t] = "lock" /\ \A u \in Threads \ {t} : pc'[u] = pc[u]
  BY DEF Lock, Inv, TypeOK
<1>3. StoreOwned'
  BY <1>1, <1>2 DEF CountInv, StoreOwned
<1> QED
  BY <1>1, <1>3, CountKept DEF CountInv

\* get_field: a clone is one reference more and counted, a borrow and a move
\* take the reference out of the field.
LEMMA GetFieldCountInv == ASSUME Inv, CountInv, NEW t \in Threads, GetField(t) PROVE CountInv'
<1> DEFINE op == order[t].op
           cell == order[t].cell
           r == order[t].register
           value == fields[cell]
<1>0. TypeOK /\ Pending
  BY DEF Inv
<1>t. cell \in Cells /\ r \in Registers /\ op \in Ownership /\ pc[t] = "locked"
  BY <1>0 DEF TypeOK, GetField
<1>h. HoldsNothing(t, r)
  BY <1>0, <1>t DEF Pending
<1>1. CASE value = Lent
  <2>1. /\ pc' = [pc EXCEPT ![t] = "lock"]
        /\ UNCHANGED <<fields, count, registers, owns, borrows, order, overwritten>>
    BY <1>1 DEF GetField, held
  <2>2. \A u \in Threads \ {t} : pc'[u] = pc[u]
    BY <1>0, <2>1 DEF TypeOK
  <2>3. StoreOwned'
    BY <1>t, <2>1, <2>2 DEF CountInv, StoreOwned
  <2> QED
    BY <2>1, <2>3, CountKept DEF CountInv
<1>2. CASE value # Lent
  <2>1. /\ count' = Counted(op, value)
        /\ op = "clone" => fields' = fields
        /\ op = "borrow" => fields' = [fields EXCEPT ![cell] = Lent]
        /\ op = "move" => fields' = [fields EXCEPT ![cell] = Null]
        /\ registers' = [registers EXCEPT ![t][r] = value]
        /\ owns' = IF op = "borrow" \/ value = Null THEN owns ELSE owns \cup {<<t, r>>}
        /\ borrows' = IF op = "borrow" THEN borrows \cup {<<t, r, cell>>} ELSE borrows
        /\ Done(t)
        /\ overwritten' = overwritten
    BY <1>2 DEF GetField
  <2>2. /\ pc'[t] = "idle"
        /\ \A u \in Threads \ {t} : pc'[u] = pc[u] /\ order'[u] = order[u]
    BY <1>t, <2>1, DoneFacts
  <2>3. value \in Objects \cup {Null}
    BY <1>0, <1>2, <1>t DEF TypeOK, Values
  <2>4. <<t, r>> \notin owns /\ <<t, r, cell>> \notin borrows
    BY <1>h, <1>t DEF HoldsNothing
  <2>5. PICK v : v = value
    OBVIOUS
  <2>6. PICK k : k = cell
    OBVIOUS
  <2>7. PICK q : q = r
    OBVIOUS
  <2>8. /\ registers'[t][q] = v
        /\ \A u \in Threads, p \in Registers :
             <<u, p>> # <<t, q>> => registers'[u][p] = registers[u][p]
        /\ \A x \in owns : \A o : Contains(x, o)' <=> Contains(x, o)
        /\ \A x \in borrows : \A o : Contains(x, o)' <=> Contains(x, o)
    <3>1. registers' = [registers EXCEPT ![t][q] = v] /\ q \in Registers /\ HoldsNothing(t, q)
      BY <1>t, <1>h, <2>1, <2>5, <2>7
    <3> HIDE DEF r, value
    <3> QED
      BY <1>0, <3>1, RegisterWritten
  <2> HIDE DEF op, cell, r, value
  <2>9. StoreOwned'
    <3>1. \A u \in Threads : order[u].register \in Registers
      BY <1>0 DEF TypeOK
    <3>2. \A u \in Threads \ {t} :
            registers'[u][order[u].register] = registers[u][order[u].register]
      BY <2>8, <3>1
    <3>3. owns \subseteq owns'
      BY <2>1
    <3> QED
      BY <2>2, <3>2, <3>3 DEF CountInv, StoreOwned
  <2>10. HeldFinite'
    BY <2>1, FS_AddElement DEF CountInv, HeldFinite
  <2>11. CountAccounts'
    <3> SUFFICES ASSUME NEW o \in Objects
                 PROVE  count'[o] = Cardinality(InFields(o)') + Cardinality(InOwners(o)')
                                    + Cardinality(InBorrowers(o)') + overwritten'[o]
      BY DEF CountAccounts, InFields, InOwners, InBorrowers
    <3>1. count[o] = Cardinality(InFields(o)) + Cardinality(InOwners(o))
                     + Cardinality(InBorrowers(o)) + overwritten[o]
      BY DEF CountInv, CountAccounts, InFields, InOwners, InBorrowers
    <3>2. /\ Cardinality(InFields(o)) \in Nat /\ Cardinality(InOwners(o)) \in Nat
          /\ Cardinality(InBorrowers(o)) \in Nat /\ overwritten[o] \in Nat
          /\ HeldFinite
      BY <1>0, ReferencesFinite DEF CountInv, TypeOK
    <3>3. o # Null /\ o # Lent
      BY ValuesAssumption
    <3>4. Contains(<<t, q>>, o)' <=> v = o
      BY <2>8 DEF Contains
    <3>5. Contains(<<t, q, k>>, o)' <=> v = o
      BY <2>8 DEF Contains
    <3>6. /\ \A y \in owns : Contains(y, o)' <=> Contains(y, o)
          /\ \A y \in borrows : Contains(y, o)' <=> Contains(y, o)
      BY <2>8
    <3>7. owns' = owns => InOwners(o)' = InOwners(o)
      BY <3>6 DEF InOwners
    <3>8. borrows' = borrows => InBorrowers(o)' = InBorrowers(o)
      BY <3>6 DEF InBorrowers
    <3>9. owns' = owns \cup {<<t, q>>} =>
            Cardinality(InOwners(o)') = Cardinality(InOwners(o)) + Same(v, o)
      BY <2>4, <2>7, <3>2, <3>4, <3>6, OwnerAdded
    <3>10. borrows' = borrows \cup {<<t, q, k>>} =>
            Cardinality(InBorrowers(o)') = Cardinality(InBorrowers(o)) + Same(v, o)
      BY <2>4, <2>6, <2>7, <3>2, <3>5, <3>6, BorrowerAdded
    <3>11. CASE op = "clone"
      <4>1. InFields(o)' = InFields(o)
        BY <2>1, <3>11 DEF InFields
      <4>2. Cardinality(InOwners(o)') = Cardinality(InOwners(o)) + Same(v, o)
        <5>1. CASE value = Null
          BY <2>1, <2>5, <3>2, <3>3, <3>7, <5>1 DEF Same
        <5>2. CASE value # Null
          BY <2>1, <2>7, <3>9, <3>11, <5>2
        <5> QED
          BY <5>1, <5>2
      <4>3. count'[o] = count[o] + Same(v, o)
        <5>1. count \in [Objects -> Nat]
          BY <1>0 DEF TypeOK
        <5>2. CASE value = Null
          BY <2>1, <2>5, <3>3, <5>1, <5>2 DEF Counted, Same
        <5>3. CASE value # Null
          <6>1. count' = [count EXCEPT ![value] = count[value] + 1] /\ value \in Objects
            BY <2>1, <2>3, <3>11, <5>3 DEF Counted
          <6> QED
            BY <2>5, <5>1, <6>1 DEF Same
        <5> QED
          BY <5>2, <5>3
      <4>4. InBorrowers(o)' = InBorrowers(o)
        BY <2>1, <3>8, <3>11
      <4> QED
        BY <2>1, <3>1, <3>2, <4>1, <4>2, <4>3, <4>4 DEF Same
    <3>12. CASE op = "borrow"
      <4>1. Cardinality(InFields(o)') = Cardinality(InFields(o)) - Same(v, o)
        <5>1. fields' = [fields EXCEPT ![k] = Lent] /\ k \in Cells /\ fields[k] = v
          BY <1>t, <2>1, <2>5, <2>6, <3>12 DEF value
        <5>2. Cardinality(InFields(o)') =
                Cardinality(InFields(o)) - Same(fields[k], o) + Same(Lent, o)
          BY <1>0, <3>2, <5>1, FieldStored
        <5> QED
          BY <3>2, <3>3, <5>1, <5>2 DEF Same
      <4>2. /\ InOwners(o)' = InOwners(o) /\ count' = count
            /\ borrows' = borrows \cup {<<t, q, k>>}
        BY <2>1, <2>6, <2>7, <3>7, <3>12 DEF Counted
      <4> QED
        BY <2>1, <3>1, <3>2, <3>10, <4>1, <4>2 DEF Same
    <3>13. CASE op = "move"
      <4>1. Cardinality(InFields(o)') = Cardinality(InFields(o)) - Same(v, o)
        <5>1. fields' = [fields EXCEPT ![k] = Null] /\ k \in Cells /\ fields[k] = v
          BY <1>t, <2>1, <2>5, <2>6, <3>13 DEF value
        <5>2. Cardinality(InFields(o)') =
                Cardinality(InFields(o)) - Same(fields[k], o) + Same(Null, o)
          BY <1>0, <3>2, <5>1, FieldStored
        <5> QED
          BY <3>2, <3>3, <5>1, <5>2 DEF Same
      <4>2. Cardinality(InOwners(o)') = Cardinality(InOwners(o)) + Same(v, o)
        <5>1. CASE value = Null
          BY <2>1, <2>5, <3>2, <3>3, <3>7, <5>1 DEF Same
        <5>2. CASE value # Null
          BY <2>1, <2>7, <3>9, <3>13, <5>2
        <5> QED
          BY <5>1, <5>2
      <4>3. InBorrowers(o)' = InBorrowers(o) /\ count' = count
        BY <2>1, <3>8, <3>13 DEF Counted
      <4> QED
        BY <2>1, <3>1, <3>2, <4>1, <4>2, <4>3 DEF Same
    <3> QED
      BY <1>t, <3>11, <3>12, <3>13 DEF Ownership
  <2> QED
    BY <2>9, <2>10, <2>11 DEF CountInv
<1> QED
  BY <1>1, <1>2

\* set_field: the reference goes from the register to the field, and the one
\* that was there is gone and still counted.
LEMMA SetFieldCountInv == ASSUME Inv, CountInv, NEW t \in Threads, SetField(t) PROVE CountInv'
<1> DEFINE op == order[t].op
           cell == order[t].cell
           r == order[t].register
<1>0. TypeOK /\ Pending /\ Disjoint
  BY DEF Inv
<1>t. cell \in Cells /\ r \in Registers /\ op \in {"set", "set_when_back"} /\ pc[t] = "locked"
  BY <1>0 DEF TypeOK, SetField
<1>1. CASE Waits(t)
  <2>1. /\ pc' = [pc EXCEPT ![t] = "lock"]
        /\ UNCHANGED <<fields, count, registers, owns, borrows, order, overwritten>>
    BY <1>1 DEF SetField, GoRound, held
  <2>2. \A u \in Threads \ {t} : pc'[u] = pc[u]
    BY <1>0, <2>1 DEF TypeOK
  <2>3. StoreOwned'
    BY <1>t, <2>1, <2>2 DEF CountInv, StoreOwned
  <2> QED
    BY <2>1, <2>3, CountKept DEF CountInv
<1>2. CASE ~Waits(t)
  <2>1. /\ fields' = [fields EXCEPT ![cell] = registers[t][r]]
        /\ owns' = owns \ {<<t, r>>}
        /\ borrows' = borrows \ {<<t, r, cell>>}
        /\ overwritten' = IF fields[cell] \in Objects
                          THEN [overwritten EXCEPT ![fields[cell]] = @ + 1] ELSE overwritten
        /\ Done(t)
        /\ UNCHANGED <<count, registers>>
    BY <1>2 DEF SetField
  <2>2. /\ pc'[t] = "idle"
        /\ \A u \in Threads \ {t} : pc'[u] = pc[u] /\ order'[u] = order[u]
    BY <1>t, <2>1, DoneFacts
  <2>3. /\ <<t, r>> \in owns \/ <<t, r, cell>> \in borrows \/ registers[t][r] = Null
        /\ ~(<<t, r>> \in owns /\ <<t, r, cell>> \in borrows)
    BY <1>0, <1>t DEF CountInv, StoreOwned, Pending, Disjoint
  <2>5. PICK v : v = registers[t][r]
    OBVIOUS
  <2>6. PICK k : k = cell
    OBVIOUS
  <2>7. PICK q : q = r
    OBVIOUS
  <2>8. PICK old : old = fields[cell]
    OBVIOUS
  <2> HIDE DEF op, cell, r
  <2>9. StoreOwned'
    <3>1. \A u \in Threads \ {t} : \A p : <<u, p>> \in owns => <<u, p>> \in owns'
      BY <2>1
    <3> QED
      BY <2>1, <2>2, <3>1 DEF CountInv, StoreOwned
  <2>10. HeldFinite'
    BY <2>1, FS_RemoveElement DEF CountInv, HeldFinite
  <2>11. CountAccounts'
    <3> SUFFICES ASSUME NEW o \in Objects
                 PROVE  count'[o] = Cardinality(InFields(o)') + Cardinality(InOwners(o)')
                                    + Cardinality(InBorrowers(o)') + overwritten'[o]
      BY DEF CountAccounts, InFields, InOwners, InBorrowers
    <3>1. count[o] = Cardinality(InFields(o)) + Cardinality(InOwners(o))
                     + Cardinality(InBorrowers(o)) + overwritten[o]
      BY DEF CountInv, CountAccounts, InFields, InOwners, InBorrowers
    <3>2. /\ Cardinality(InFields(o)) \in Nat /\ Cardinality(InOwners(o)) \in Nat
          /\ Cardinality(InBorrowers(o)) \in Nat /\ overwritten[o] \in Nat
          /\ HeldFinite
      BY <1>0, ReferencesFinite DEF CountInv, TypeOK
    <3>3. Cardinality(InFields(o)') = Cardinality(InFields(o)) - Same(old, o) + Same(v, o)
      <4>1. fields' = [fields EXCEPT ![k] = v] /\ k \in Cells /\ fields[k] = old
        BY <1>t, <2>1, <2>5, <2>6, <2>8
      <4>2. Cardinality(InFields(o)') =
              Cardinality(InFields(o)) - Same(fields[k], o) + Same(v, o)
        BY <1>0, <3>2, <4>1, FieldStored
      <4> QED
        BY <4>1, <4>2
    <3>4. overwritten'[o] = overwritten[o] + Same(old, o)
      <4>1. overwritten \in [Objects -> Nat]
        BY <1>0 DEF TypeOK
      <4>2. CASE old \in Objects
        <5>1. overwritten' = [overwritten EXCEPT ![old] = overwritten[old] + 1]
          BY <2>1, <2>8, <4>2
        <5> QED
          BY <4>1, <4>2, <5>1 DEF Same
      <4>3. CASE old \notin Objects
        BY <2>1, <2>8, <4>1, <4>3 DEF Same
      <4> QED
        BY <4>2, <4>3
    <3>5. /\ Cardinality(InOwners(o)') = Cardinality(InOwners(o))
                - (IF <<t, q>> \in InOwners(o) THEN 1 ELSE 0)
          /\ Cardinality(InBorrowers(o)') = Cardinality(InBorrowers(o))
                - (IF <<t, q, k>> \in InBorrowers(o) THEN 1 ELSE 0)
      BY <2>1, <2>6, <2>7, <3>2, HolderRemoved
    <3>6. /\ <<t, q>> \in InOwners(o) <=> <<t, q>> \in owns /\ v = o
          /\ <<t, q, k>> \in InBorrowers(o) <=> <<t, q, k>> \in borrows /\ v = o
      BY <2>5, <2>7 DEF InOwners, InBorrowers, Contains
    <3>7. /\ v = o => <<t, q>> \in owns \/ <<t, q, k>> \in borrows
          /\ ~(<<t, q>> \in owns /\ <<t, q, k>> \in borrows)
      BY <2>3, <2>5, <2>6, <2>7, ValuesAssumption
    <3>8. count'[o] = count[o]
      BY <2>1
    <3>9. CASE v = o
      BY <3>1, <3>2, <3>3, <3>4, <3>5, <3>6, <3>7, <3>8, <3>9 DEF Same
    <3>10. CASE v # o
      BY <3>1, <3>2, <3>3, <3>4, <3>5, <3>6, <3>8, <3>10 DEF Same
    <3> QED
      BY <3>9, <3>10
  <2> QED
    BY <2>9, <2>10, <2>11 DEF CountInv
<1> QED
  BY <1>1, <1>2

\* Every step of every thread keeps the account.
LEMMA NextCountInv == Inv /\ CountInv /\ [Next]_vars => CountInv'
<1> SUFFICES ASSUME Inv, CountInv, [Next]_vars PROVE CountInv'
  OBVIOUS
<1>1. ASSUME NEW t \in Threads, Eval(t) PROVE CountInv'
  BY <1>1, LockCountInv, GetFieldCountInv, SetFieldCountInv DEF Eval
<1>2. ASSUME NEW t \in Threads, NEW r \in Registers, NEW c \in Cells, GiveBack(t, r, c)
      PROVE  CountInv'
  BY <1>2, BeginCountInv DEF GiveBack
<1>3. ASSUME NEW t \in Threads, NEW r \in Registers, NEW n \in FieldNames, BeginSet(t, n, r)
      PROVE  CountInv'
  <2>1. /\ Begin(t, [op |-> "set_when_back", cell |-> Link(n), register |-> r])
        /\ <<t, r>> \in owns \/ registers[t][r] = Null
    BY <1>3 DEF BeginSet
  <2> QED
    BY <2>1, BeginCountInv
<1>4. ASSUME NEW t \in Threads, NEW r \in Registers, NEW n \in FieldNames, NEW o \in Ownership,
             BeginGet(t, n, r, o)
      PROVE  CountInv'
  <2>1. /\ Begin(t, [op |-> o, cell |-> Link(n), register |-> r])
        /\ o # "set_when_back"
    BY <1>4 DEF BeginGet, Ownership
  <2> QED
    BY <2>1, BeginCountInv
<1>5. CASE UNCHANGED vars
  <2>1. UNCHANGED <<fields, count, registers, owns, borrows, overwritten, pc, order>>
    BY <1>5 DEF vars, held
  <2>2. StoreOwned'
    BY <2>1 DEF CountInv, StoreOwned
  <2> QED
    BY <2>1, <2>2, CountKept DEF CountInv
<1> QED
  BY <1>1, <1>2, <1>3, <1>4, <1>5, NewCountInv DEF Next

\* get_field and set_field lose a reference only by storing over it, and count
\* none twice: the account of every object is exact in every reachable state.
THEOREM CountExact == Spec => []CountAccounts
<1>1. CountInv => CountAccounts
  BY DEF CountInv
<1> QED
  BY <1>1, InvAlways, InitCountInv, NextCountInv, PTL DEF Spec
=============================================================================
