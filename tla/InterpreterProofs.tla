-------------------------- MODULE InterpreterProofs --------------------------
(***************************************************************************)
(* The sums a function computes are exact as far as its types go, for any  *)
(* widths, any functions and any number of calls.                          *)
(***************************************************************************)
EXTENDS Interpreter, FiniteSetTheorems, NaturalsInduction, WellFoundedInduction, TLAPS

\* a and b differ by a multiple of m.
Congruent(a, b, m) == \E q \in Int : a - b = q * m

\* The thread runs an order there is, and registers hold numbers.
ThreadInv ==
  /\ function \in Functions
  /\ running => /\ current_label_block \in DOMAIN function.label_blocks
                /\ current_order_index + 1 \in DOMAIN orders
                /\ current_order_index \in Nat
  /\ arguments \in [{0, 1} -> Int]
  /\ registers \in [Registers(function) -> Int]
  /\ meaning \in [Registers(function) -> Int]
  /\ precision \in [Registers(function) -> 0 .. WordBits]

SumsInv == ThreadInv /\ SumsExact

-----------------------------------------------------------------------------
(***************************************************************************)
(* Powers of two, and congruence.                                          *)
(***************************************************************************)
\* A power of two is a number of subsets.
LEMMA PowerType ==
  ASSUME NEW n \in Nat
  PROVE  /\ IsFiniteSet(SUBSET (1 .. n)) /\ Cardinality(SUBSET (1 .. n)) = 2^n
         /\ 2^n \in Nat \ {0}
  <1>1. IsFiniteSet(1 .. n) /\ Cardinality(1 .. n) = n
    BY FS_Interval
  <1>2. IsFiniteSet(SUBSET (1 .. n)) /\ Cardinality(SUBSET (1 .. n)) = 2^n
    BY <1>1, FS_SUBSET
  <1>3. 2^n \in Nat
    BY <1>2, FS_CardinalityType
  <1>4. 2^n # 0
    <2>1. SUBSET (1 .. n) # {}
      BY Zenon
    <2> QED
      BY <1>2, <2>1, FS_EmptySet
  <1> QED
    BY <1>2, <1>3, <1>4

\* The larger is a multiple of the smaller: a subset is one part below the
\* smaller number and one above.
LEMMA PowerMultiple ==
  ASSUME NEW a \in Nat, NEW b \in Nat, b <= a
  PROVE  \E k \in Nat : 2^a = k * 2^b
  <1> DEFINE A == SUBSET (1 .. a)
             B == SUBSET (1 .. b)
             C == SUBSET (b + 1 .. a)
             g == [x \in C \X B |-> x[1] \cup x[2]]
  <1>1. /\ IsFiniteSet(A) /\ Cardinality(A) = 2^a
        /\ IsFiniteSet(B) /\ Cardinality(B) = 2^b
    BY PowerType
  <1>2. IsFiniteSet(C)
    <2>1. IsFiniteSet(b + 1 .. a)
      BY FS_Interval
    <2> QED
      BY <2>1, FS_SUBSET
  <1>3. /\ (b + 1 .. a) \cup (1 .. b) = 1 .. a
        /\ (b + 1 .. a) \cap (1 .. b) = {}
    OBVIOUS
  <1>4. g \in Bijection(C \X B, A)
    <2> DEFINE hi == b + 1 .. a
               lo == 1 .. b
               all == 1 .. a
    <2>1. hi \cup lo = all /\ hi \cap lo = {}
      BY <1>3
    <2> HIDE DEF hi, lo, all
    <2>2. A = SUBSET all /\ B = SUBSET lo /\ C = SUBSET hi
      BY DEF hi, lo, all
    <2> HIDE DEF A, B, C
    <2>3. \A x \in C \X B : x[1] \in C /\ x[2] \in B /\ x = <<x[1], x[2]>> /\ g[x] = x[1] \cup x[2]
      OBVIOUS
    <2>4. g \in [C \X B -> A]
      <3>1. \A x \in C \X B : x[1] \cup x[2] \in A
        BY <2>1, <2>2, <2>3
      <3> QED
        BY <3>1
    <2>5. ASSUME NEW x \in C \X B, NEW y \in C \X B, g[x] = g[y] PROVE x = y
      <3>1. x[1] \cup x[2] = y[1] \cup y[2]
        BY <2>3, <2>5
      <3>2. /\ x[1] \in SUBSET hi /\ y[1] \in SUBSET hi
            /\ x[2] \in SUBSET lo /\ y[2] \in SUBSET lo
        BY <2>2, <2>3
      <3> HIDE DEF g
      <3>3. x[1] = (x[1] \cup x[2]) \cap hi /\ y[1] = (y[1] \cup y[2]) \cap hi
        BY <2>1, <3>2
      <3>4. x[2] = (x[1] \cup x[2]) \cap lo /\ y[2] = (y[1] \cup y[2]) \cap lo
        BY <2>1, <3>2
      <3>5. x[1] = y[1] /\ x[2] = y[2]
        BY <3>1, <3>3, <3>4
      <3> QED
        BY <2>3, <3>5
    <2>6. ASSUME NEW s \in A PROVE \E x \in C \X B : g[x] = s
      <3>1. s \cap hi \in C /\ s \cap lo \in B /\ (s \cap hi) \cup (s \cap lo) = s
        BY <2>1, <2>2
      <3>2. <<s \cap hi, s \cap lo>> \in C \X B
        BY <3>1
      <3>3. g[<<s \cap hi, s \cap lo>>] = s
        BY <3>1, <3>2
      <3> QED
        BY <3>2, <3>3
    <2> HIDE DEF g
    <2>7. g \in Injection(C \X B, A)
      BY <2>4, <2>5 DEF Injection, IsInjective
    <2>8. g \in Surjection(C \X B, A)
      BY <2>4, <2>6 DEF Surjection
    <2> QED
      BY <2>7, <2>8 DEF Bijection
  <1> HIDE DEF A, B, C, g
  <1>5. IsFiniteSet(C \X B) /\ Cardinality(C \X B) = Cardinality(C) * Cardinality(B)
    BY <1>1, <1>2, FS_Product
  <1>6. Cardinality(A) = Cardinality(C \X B)
    <2>1. ExistsBijection(C \X B, A)
      BY <1>4 DEF ExistsBijection
    <2> QED
      BY <1>5, <2>1, FS_Bijection
  <1>7. Cardinality(C) \in Nat
    BY <1>2, FS_CardinalityType
  <1> QED
    BY <1>1, <1>5, <1>6, <1>7

\* The remainder of a difference is zero exactly for congruent numbers.
LEMMA CongruentZero ==
  ASSUME NEW a \in Int, NEW b \in Int, NEW m \in Nat \ {0}
  PROVE  (a - b) % m = 0 <=> Congruent(a, b, m)
  <1>1. ASSUME (a - b) % m = 0 PROVE Congruent(a, b, m)
    <2> DEFINE q == (a - b) \div m
    <2>1. q \in Int /\ a - b = q * m
      BY <1>1
    <2> HIDE DEF q
    <2> QED
      BY <2>1 DEF Congruent
  <1>2. ASSUME Congruent(a, b, m) PROVE (a - b) % m = 0
    <2>1. PICK q \in Int : a - b = q * m
      BY <1>2 DEF Congruent
    <2>2. (q * m) % m = 0
      OBVIOUS
    <2> QED
      BY <2>1, <2>2
  <1> QED
    BY <1>1, <1>2

\* A number is congruent to its remainder.
LEMMA CongruentMod ==
  ASSUME NEW a \in Int, NEW m \in Nat \ {0}
  PROVE  a % m \in Int /\ Congruent(a % m, a, m)
  <1> DEFINE q == a \div m
  <1>1. q \in Int /\ a % m \in Int /\ a = q * m + (a % m)
    OBVIOUS
  <1> HIDE DEF q
  <1>2. (a % m) - a = (-q) * m /\ -q \in Int
    BY <1>1
  <1> QED
    BY <1>1, <1>2 DEF Congruent

\* Congruence is transitive, whichever way round the first two are.
LEMMA CongruentTrans ==
  ASSUME NEW a \in Int, NEW b \in Int, NEW c \in Int, NEW m \in Nat,
         Congruent(a, b, m) \/ Congruent(b, a, m), Congruent(b, c, m)
  PROVE  Congruent(a, c, m)
  <1>1. PICK q \in Int : a - b = q * m \/ b - a = q * m
    BY DEF Congruent
  <1>2. PICK r \in Int : b - c = r * m
    BY DEF Congruent
  <1>3. PICK s \in Int : a - c = s * m
    <2>1. a - c = (q + r) * m \/ a - c = (r - q) * m
      BY <1>1, <1>2
    <2>2. q + r \in Int /\ r - q \in Int
      OBVIOUS
    <2> QED
      BY <2>1, <2>2
  <1> QED
    BY <1>3 DEF Congruent

\* Sums of congruent numbers are congruent.
LEMMA CongruentAdd ==
  ASSUME NEW a \in Int, NEW b \in Int, NEW c \in Int, NEW d \in Int, NEW m \in Nat,
         Congruent(a, b, m), Congruent(c, d, m)
  PROVE  Congruent(a + c, b + d, m)
  <1>1. PICK q \in Int : a - b = q * m
    BY DEF Congruent
  <1>2. PICK r \in Int : c - d = r * m
    BY DEF Congruent
  <1>3. PICK s \in Int : (a + c) - (b + d) = s * m
    <2>1. (a + c) - (b + d) = (q + r) * m /\ q + r \in Int
      BY <1>1, <1>2
    <2> QED
      BY <2>1
  <1> QED
    BY <1>3 DEF Congruent

\* Numbers congruent to more bits are congruent to fewer.
LEMMA CongruentFewer ==
  ASSUME NEW a \in Int, NEW b \in Int, NEW n \in Nat, NEW k \in Nat, k <= n,
         Congruent(a, b, 2^n)
  PROVE  Congruent(a, b, 2^k)
  <1>1. PICK q \in Int : a - b = q * 2^n
    BY DEF Congruent
  <1>2. PICK r \in Nat : 2^n = r * 2^k
    BY PowerMultiple
  <1>3. PICK P \in Nat : P = 2^k
    BY PowerType
  <1>4. a - b = q * (r * P)
    BY <1>1, <1>2, <1>3
  <1>5. q * (r * P) = (q * r) * P /\ q * r \in Int
    OBVIOUS
  <1> QED
    BY <1>3, <1>4, <1>5 DEF Congruent

\* The bits of a sum: the least of those its type and both operands have.
LEMMA LeastOfThree ==
  ASSUME NEW a \in Nat, NEW b \in Nat, NEW c \in Nat
  PROVE  \E n \in {a, b, c} : \A k \in {a, b, c} : n <= k
  <1>1. CASE a <= b /\ a <= c
    BY <1>1
  <1>2. CASE b <= a /\ b <= c
    BY <1>2
  <1>3. CASE c <= a /\ c <= b
    BY <1>3
  <1> QED
    BY <1>1, <1>2, <1>3

-----------------------------------------------------------------------------
(***************************************************************************)
(* The operands and the result of iadd.                                    *)
(***************************************************************************)
\* The low bits of a register, with or without their sign, stand for it.
LEMMA OperandCongruent ==
  ASSUME NEW y \in AddTypes, NEW r, registers[r] \in Int
  PROVE  /\ Width[y] \in Nat /\ Width[y] <= WordBits
         /\ Operand(y, r) \in Int /\ Congruent(Operand(y, r), registers[r], 2^Width[y])
  <1>1. Width[y] \in Nat /\ Width[y] <= WordBits /\ Width[y] >= 1
    BY WidthAssumption, BitsAssumption
  <1>2. PICK M \in Nat \ {0} : M = 2^Width[y]
    BY <1>1, PowerType
  <1>3. PICK low \in Int : low = registers[r] % M /\ Congruent(low, registers[r], M)
    BY CongruentMod
  <1>4. Operand(y, r) \in {low, low - M}
    BY <1>2, <1>3 DEF Operand
  <1>5. Congruent(low - M, low, M)
    <2>1. (low - M) - low = (-1) * M
      OBVIOUS
    <2> QED
      BY <2>1 DEF Congruent
  <1>6. Congruent(low - M, registers[r], M)
    BY <1>3, <1>5, CongruentTrans
  <1> QED
    BY <1>1, <1>2, <1>3, <1>4, <1>6

\* The sum of two operands is the sum of what the registers stand for.
LEMMA SumCongruent ==
  ASSUME NEW y \in AddTypes, NEW l, NEW r, NEW bits \in Nat,
         registers[l] \in Int, registers[r] \in Int, meaning[l] \in Int, meaning[r] \in Int,
         precision[l] \in Nat, precision[r] \in Nat,
         Congruent(registers[l], meaning[l], 2^precision[l]),
         Congruent(registers[r], meaning[r], 2^precision[r]),
         bits <= Width[y], bits <= precision[l], bits <= precision[r]
  PROVE  /\ Operand(y, l) + Operand(y, r) \in Int
         /\ Congruent(Operand(y, l) + Operand(y, r), meaning[l] + meaning[r], 2^bits)
  <1>1. 2^bits \in Nat
    BY PowerType
  <1>2. ASSUME NEW x \in {l, r}
        PROVE  Operand(y, x) \in Int /\ Congruent(Operand(y, x), meaning[x], 2^bits)
    <2>1. /\ registers[x] \in Int /\ meaning[x] \in Int
          /\ precision[x] \in Nat /\ bits <= precision[x]
          /\ Congruent(registers[x], meaning[x], 2^precision[x])
      BY <1>2
    <2>2. /\ Width[y] \in Nat /\ Operand(y, x) \in Int
          /\ Congruent(Operand(y, x), registers[x], 2^Width[y])
      BY <2>1, OperandCongruent
    <2>3. Congruent(Operand(y, x), registers[x], 2^bits)
      BY <2>1, <2>2, CongruentFewer
    <2>4. Congruent(registers[x], meaning[x], 2^bits)
      BY <2>1, CongruentFewer
    <2> QED
      BY <1>1, <2>1, <2>2, <2>3, <2>4, CongruentTrans
  <1>3. /\ Operand(y, l) \in Int /\ Congruent(Operand(y, l), meaning[l], 2^bits)
        /\ Operand(y, r) \in Int /\ Congruent(Operand(y, r), meaning[r], 2^bits)
    BY <1>2
  <1>4. Congruent(Operand(y, l) + Operand(y, r), meaning[l] + meaning[r], 2^bits)
    BY <1>1, <1>3, CongruentAdd
  <1> QED
    BY <1>3, <1>4

\* What iadd stores stands for the sum, whatever lies above an int.
LEMMA StoredCongruent ==
  ASSUME NEW n \in Nat, NEW above \in Int, NEW sum \in Int, NEW total \in Int, NEW bits \in Nat,
         bits <= n, n <= WordBits, Congruent(sum, total, 2^bits)
  PROVE  /\ above * 2^n + (sum % 2^n) \in Int /\ total % 2^WordBits \in Int
         /\ Congruent(above * 2^n + (sum % 2^n), total % 2^WordBits, 2^bits)
  <1>1. PICK N \in Nat \ {0} : N = 2^n
    BY PowerType
  <1>2. PICK W \in Nat \ {0} : W = 2^WordBits
    BY PowerType, BitsAssumption
  <1>3. PICK B \in Nat \ {0} : B = 2^bits
    BY PowerType
  <1>4. sum % N \in Int /\ Congruent(sum % N, sum, N)
    BY CongruentMod
  <1>5. total % W \in Int /\ Congruent(total % W, total, W)
    BY CongruentMod
  <1>6. PICK low \in Int : low = sum % N
    BY <1>4
  <1>7. PICK stored \in Int : stored = above * N + low
    OBVIOUS
  <1>8. Congruent(stored, low, N)
    <2>1. stored - low = above * N
      BY <1>7
    <2> QED
      BY <2>1 DEF Congruent
  <1>9. Congruent(stored, sum, N)
    BY <1>4, <1>6, <1>8, CongruentTrans
  <1>10. Congruent(stored, sum, B)
    BY <1>1, <1>3, <1>9, CongruentFewer
  <1>11. Congruent(total % W, total, B)
    BY <1>2, <1>3, <1>5, CongruentFewer, BitsAssumption
  <1>12. Congruent(stored, total, B)
    BY <1>3, <1>10, CongruentTrans
  <1>13. PICK exact \in Int : exact = total % W
    BY <1>5
  <1>14. Congruent(total, exact, B)
    <2>1. PICK q \in Int : exact - total = q * B
      BY <1>11, <1>13 DEF Congruent
    <2>2. total - exact = (-q) * B /\ -q \in Int
      BY <2>1
    <2> QED
      BY <2>2 DEF Congruent
  <1>15. Congruent(stored, exact, B)
    BY <1>12, <1>14, CongruentTrans
  <1> QED
    BY <1>1, <1>2, <1>3, <1>6, <1>7, <1>13, <1>15

-----------------------------------------------------------------------------
(***************************************************************************)
(* The order a thread is at.                                               *)
(***************************************************************************)
\* A set of numbers up to a bound has a greatest one.
LEMMA GreatestNumber ==
  ASSUME NEW n \in Nat, NEW S \in SUBSET (1 .. n), S # {}
  PROVE  \E k \in S : \A l \in S : l <= k
  <1> DEFINE less == {ss \in Nat \X Nat : ss[1] < ss[2]}
             T == {m \in Nat : n - m \in S}
  <1>1. IsWellFoundedOn(less, Nat)
    BY NatLessThanWellFounded DEF OpToRel
  <1>2. T \in SUBSET Nat /\ T # {}
    <2>1. PICK k \in S : TRUE
      OBVIOUS
    <2>2. n - k \in Nat /\ n - (n - k) = k
      OBVIOUS
    <2> QED
      BY <2>1, <2>2
  <1>3. PICK m \in T : \A l \in T : <<l, m>> \notin less
    <2> HIDE DEF less, T
    <2> QED
      BY <1>1, <1>2, WFMin
  <1>4. n - m \in S /\ m \in Nat
    BY <1>3
  <1>5. ASSUME NEW l \in S PROVE l <= n - m
    <2>1. l \in 1 .. n /\ n - l \in Nat /\ n - (n - l) = l
      OBVIOUS
    <2>2. n - l \in T
      BY <2>1
    <2>3. ~(n - l < m)
      BY <1>3, <1>4, <2>1, <2>2
    <2> QED
      BY <1>4, <2>1, <2>3
  <1> QED
    BY <1>4, <1>5

\* A label that is there leads to a block.
LEMMA LabelFound ==
  ASSUME NEW f \in Functions, NEW name, LabelBlock(f, name) # 0
  PROVE  LabelBlock(f, name) \in DOMAIN f.label_blocks
  <1> DEFINE found == {n \in DOMAIN f.label_blocks : f.label_blocks[n].name = name}
  <1>1. f.label_blocks \in Seq([name : STRING, orders : Seq(Orders)])
    BY FunctionsAssumption DEF WellFormed
  <1>2. Len(f.label_blocks) \in Nat /\ DOMAIN f.label_blocks = 1 .. Len(f.label_blocks)
    BY <1>1
  <1>3. found # {}
    BY DEF LabelBlock
  <1>4. found \in SUBSET (1 .. Len(f.label_blocks))
    BY <1>2
  <1>5. LabelBlock(f, name) = CHOOSE n \in found : \A k \in found : k <= n
    BY <1>3 DEF LabelBlock
  <1> HIDE DEF found
  <1>6. \E n \in found : \A k \in found : k <= n
    BY <1>2, <1>3, <1>4, GreatestNumber
  <1>7. LabelBlock(f, name) \in found
    BY <1>5, <1>6
  <1> QED
    BY <1>2, <1>4, <1>7

\* A block of a function is a list of orders.
LEMMA BlockOrders ==
  ASSUME NEW f \in Functions, NEW n \in DOMAIN f.label_blocks
  PROVE  f.label_blocks[n].orders \in Seq(Orders)
  <1> DEFINE Blocks == [name : STRING, orders : Seq(Orders)]
  <1>1. PICK s \in Seq(Blocks) : s = f.label_blocks
    BY FunctionsAssumption DEF WellFormed
  <1>2. n \in DOMAIN s
    BY <1>1
  <1> HIDE DEF Blocks
  <1>3. s[n] \in Blocks
    BY <1>2
  <1>4. s[n].orders \in Seq(Orders)
    BY <1>3 DEF Blocks
  <1> QED
    BY <1>1, <1>4

\* What an order of a function that can be run may name.
LEMMA OrderFits ==
  ASSUME ThreadInv, running
  PROVE  /\ order \in Orders
         /\ current_order_index < Len(orders)
         /\ order.op = "jump_to" =>
              LabelBlock(function, order.label_name) \in DOMAIN function.label_blocks
         /\ order.op # "jump_to" =>
              /\ order.result_register \in Registers(function)
              /\ order.op = "arg" => order.argument_index \in {0, 1}
              /\ order.op = "iadd" =>
                   /\ order.left \in Registers(function) /\ order.right \in Registers(function)
  <1>1. /\ function \in Functions /\ current_label_block \in DOMAIN function.label_blocks
        /\ current_order_index + 1 \in DOMAIN orders /\ current_order_index \in Nat
    BY DEF ThreadInv
  <1>2. WellFormed(function)
    BY <1>1, FunctionsAssumption
  <1>4. orders \in Seq(Orders)
    BY <1>1, BlockOrders DEF orders
  <1>5. order \in Orders /\ current_order_index < Len(orders)
    BY <1>1, <1>4 DEF order
  <1>6. IF order.op = "jump_to" THEN LabelBlock(function, order.label_name) # 0
        ELSE /\ order.result_register < function.registers_size
             /\ order.op = "arg" => order.argument_index \in {0, 1}
             /\ order.op = "iadd" => /\ order.left < function.registers_size
                                     /\ order.right < function.registers_size
    BY <1>1, <1>2 DEF WellFormed, orders, order
  <1>7. order.op = "jump_to" =>
          LabelBlock(function, order.label_name) \in DOMAIN function.label_blocks
    BY <1>1, <1>6, LabelFound
  <1>8. /\ order.op # "jump_to" => order.result_register \in Nat
        /\ order.op = "iadd" => order.left \in Nat /\ order.right \in Nat
    BY <1>5 DEF Orders
  <1>9. \A r \in Nat : r < function.registers_size => r \in Registers(function)
    BY <1>2 DEF WellFormed, Registers
  <1> QED
    BY <1>5, <1>6, <1>7, <1>8, <1>9

\* The turn of the loop ends at an order, or the function ends.
LEMMA AdvanceInv ==
  ASSUME ThreadInv, NEW block \in DOMAIN function.label_blocks, NEW k \in Nat,
         k < Len(function.label_blocks[block].orders), NEW flag, Advance(block, k, flag)
  PROVE  /\ function' = function /\ arguments' = arguments
         /\ running' => /\ current_label_block' \in DOMAIN function'.label_blocks
                        /\ (current_order_index + 1 \in DOMAIN orders)'
                        /\ current_order_index' \in Nat
  <1>1. /\ function' = function /\ arguments' = arguments /\ current_label_block' = block
        /\ current_order_index' = k + 1
        /\ running' => k + 1 # Len(function.label_blocks[block].orders)
    BY DEF Advance
  <1>2. orders' = function.label_blocks[block].orders
    BY <1>1 DEF orders
  <1>3. function.label_blocks[block].orders \in Seq(Orders)
    BY BlockOrders DEF ThreadInv
  <1>4. /\ Len(orders') \in Nat /\ DOMAIN orders' = 1 .. Len(orders')
        /\ k < Len(orders')
    BY <1>2, <1>3
  <1>5. running' => (k + 1) + 1 \in DOMAIN orders'
    BY <1>1, <1>2, <1>4
  <1> QED
    BY <1>1, <1>5

-----------------------------------------------------------------------------
(***************************************************************************)
(* The steps.                                                              *)
(***************************************************************************)
\* What a register stands for, as a congruence.
LEMMA RegisterCongruent ==
  ASSUME SumsInv, NEW r \in Registers(function)
  PROVE  /\ registers[r] \in Int /\ meaning[r] \in Int
         /\ precision[r] \in Nat /\ precision[r] <= WordBits
         /\ Congruent(registers[r], meaning[r], 2^precision[r])
  <1>1. /\ registers[r] \in Int /\ meaning[r] \in Int
        /\ precision[r] \in Nat /\ precision[r] <= WordBits
    BY BitsAssumption DEF SumsInv, ThreadInv
  <1>2. (registers[r] - meaning[r]) % 2^precision[r] = 0
    BY DEF SumsInv, SumsExact
  <1>3. 2^precision[r] \in Nat \ {0}
    BY <1>1, PowerType
  <1> QED
    BY <1>1, <1>2, <1>3, CongruentZero

\* An order that leaves one register with a value that stands for its sum.
LEMMA WriteInv ==
  ASSUME SumsInv, NEW r \in Registers(function), NEW value \in Int, NEW sum \in Int,
         NEW bits \in Nat, bits <= WordBits, Congruent(value, sum, 2^bits),
         registers' = [registers EXCEPT ![r] = value],
         meaning' = [meaning EXCEPT ![r] = sum],
         precision' = [precision EXCEPT ![r] = bits],
         NEW block \in DOMAIN function.label_blocks, NEW k \in Nat,
         k < Len(function.label_blocks[block].orders), NEW flag, Advance(block, k, flag)
  PROVE  SumsInv'
  <1>1. /\ function' = function /\ arguments' = arguments
        /\ running' => /\ current_label_block' \in DOMAIN function'.label_blocks
                       /\ (current_order_index + 1 \in DOMAIN orders)'
                       /\ current_order_index' \in Nat
    BY AdvanceInv DEF SumsInv
  <1>2. /\ registers \in [Registers(function) -> Int]
        /\ meaning \in [Registers(function) -> Int]
        /\ precision \in [Registers(function) -> 0 .. WordBits]
    BY DEF SumsInv, ThreadInv
  <1>3. bits \in 0 .. WordBits
    BY BitsAssumption
  <1>4. /\ registers' \in [Registers(function) -> Int]
        /\ meaning' \in [Registers(function) -> Int]
        /\ precision' \in [Registers(function) -> 0 .. WordBits]
    BY <1>2, <1>3
  <1>5. Registers(function)' = Registers(function)
    BY <1>1 DEF Registers
  <1>6. ThreadInv'
    BY <1>1, <1>4, <1>5 DEF SumsInv, ThreadInv
  <1>7. ASSUME NEW s \in Registers(function)
        PROVE  (registers'[s] - meaning'[s]) % 2^precision'[s] = 0
    <2>1. CASE s = r
      <3>1. registers'[s] = value /\ meaning'[s] = sum /\ precision'[s] = bits
        BY <1>2, <2>1
      <3>2. 2^bits \in Nat \ {0}
        BY PowerType
      <3>3. (value - sum) % 2^bits = 0
        BY <3>2, CongruentZero
      <3> QED
        BY <3>1, <3>3
    <2>2. CASE s # r
      <3>1. /\ registers'[s] = registers[s] /\ meaning'[s] = meaning[s]
            /\ precision'[s] = precision[s]
        BY <1>2, <2>2
      <3> QED
        BY <3>1 DEF SumsInv, SumsExact
    <2> QED
      BY <2>1, <2>2
  <1>8. SumsExact'
    BY <1>1, <1>5, <1>7 DEF SumsExact
  <1> QED
    BY <1>6, <1>8 DEF SumsInv

\* A number stands for itself, to any bits.
LEMMA CongruentSelf ==
  ASSUME NEW a \in Int, NEW n \in Nat
  PROVE  Congruent(a, a, 2^n)
  <1>1. PICK P \in Nat : P = 2^n
    BY PowerType
  <1>2. a - a = 0 * P
    OBVIOUS
  <1> QED
    BY <1>1, <1>2 DEF Congruent

\* Where a running thread stands, as AdvanceInv wants it.
LEMMA Standing ==
  ASSUME ThreadInv, running
  PROVE  /\ current_label_block \in DOMAIN function.label_blocks /\ current_order_index \in Nat
         /\ current_order_index < Len(function.label_blocks[current_label_block].orders)
  BY OrderFits DEF ThreadInv, orders

\* An order that only writes a register.
LEMMA WriteStep ==
  ASSUME SumsInv, running, NEW r \in Registers(function), NEW value \in Int, NEW sum \in Int,
         NEW bits \in Nat, bits <= WordBits, Congruent(value, sum, 2^bits),
         Write(r, value, sum, bits)
  PROVE  SumsInv'
  <1>1. /\ registers' = [registers EXCEPT ![r] = value]
        /\ meaning' = [meaning EXCEPT ![r] = sum]
        /\ precision' = [precision EXCEPT ![r] = bits]
        /\ Advance(current_label_block, current_order_index, return_function)
    BY DEF Write
  <1>2. /\ current_label_block \in DOMAIN function.label_blocks /\ current_order_index \in Nat
        /\ current_order_index < Len(function.label_blocks[current_label_block].orders)
    BY Standing DEF SumsInv
  <1> QED
    BY <1>1, <1>2, WriteInv

\* A constant is loaded.
LEMMA GetConstIntegerStep ==
  ASSUME SumsInv, GetConstInteger
  PROVE  SumsInv'
  <1>1. running /\ order.op = "const" /\ ThreadInv
    BY DEF GetConstInteger, SumsInv
  <1>2. order \in Orders /\ order.result_register \in Registers(function)
    BY <1>1, OrderFits
  <1>3. order.value \in Int
    <2>1. order.value \in Word
      BY <1>1, <1>2 DEF Orders
    <2> QED
      BY <2>1, PowerType, BitsAssumption DEF Word
  <1>4. PICK r \in Registers(function), value \in Int : Write(r, value, value, WordBits)
    BY <1>2, <1>3 DEF GetConstInteger
  <1>5. Congruent(value, value, 2^WordBits) /\ WordBits \in Nat /\ WordBits <= WordBits
    BY CongruentSelf, BitsAssumption
  <1> QED
    BY <1>1, <1>4, <1>5, WriteStep

\* An argument is loaded.
LEMMA GetArgumentStep ==
  ASSUME SumsInv, GetArgument
  PROVE  SumsInv'
  <1>1. running /\ order.op = "arg" /\ ThreadInv
    BY DEF GetArgument, SumsInv
  <1>2. order.result_register \in Registers(function) /\ order.argument_index \in {0, 1}
    BY <1>1, OrderFits
  <1>3. arguments[order.argument_index] \in Int
    BY <1>1, <1>2 DEF ThreadInv
  <1>4. PICK r \in Registers(function), value \in Int : Write(r, value, value, WordBits)
    BY <1>2, <1>3 DEF GetArgument
  <1>5. Congruent(value, value, 2^WordBits) /\ WordBits \in Nat /\ WordBits <= WordBits
    BY CongruentSelf, BitsAssumption
  <1> QED
    BY <1>1, <1>4, <1>5, WriteStep

\* Two registers are added.
LEMMA AddSumStep ==
  ASSUME SumsInv, running, order.op = "iadd", AddSum
  PROVE  SumsInv'
  <1> DEFINE o == order
             bits == CHOOSE n \in {Width[o.type], precision[o.left], precision[o.right]} :
                       \A k \in {Width[o.type], precision[o.left], precision[o.right]} : n <= k
             sum == Operand(o.type, o.left) + Operand(o.type, o.right)
             total == meaning[o.left] + meaning[o.right]
  <1>1. running /\ o.op = "iadd" /\ ThreadInv
    BY DEF SumsInv
  <1>2. /\ o.result_register \in Registers(function) /\ o.type \in AddTypes
        /\ o.left \in Registers(function) /\ o.right \in Registers(function)
    BY <1>1, OrderFits DEF AddSum
  <1>3. IF Width[o.type] = WordBits
        THEN Write(o.result_register, sum % 2^WordBits, total % 2^WordBits, bits)
        ELSE \E above \in 0 .. 2^(WordBits - IntBits) - 1 :
               Write(o.result_register, above * 2^IntBits + (sum % 2^IntBits),
                     total % 2^WordBits, bits)
    BY DEF AddSum
  <1> HIDE DEF o, sum, total, bits
  <1>4. /\ Width[o.type] \in Nat /\ Width[o.type] <= WordBits
        /\ Width[o.type] <= IntBits \/ Width[o.type] = WordBits
    BY <1>2, WidthAssumption, BitsAssumption
  <1>5. /\ registers[o.left] \in Int /\ meaning[o.left] \in Int /\ precision[o.left] \in Nat
        /\ Congruent(registers[o.left], meaning[o.left], 2^precision[o.left])
        /\ registers[o.right] \in Int /\ meaning[o.right] \in Int /\ precision[o.right] \in Nat
        /\ Congruent(registers[o.right], meaning[o.right], 2^precision[o.right])
    BY <1>2, RegisterCongruent
  <1>6. /\ bits \in Nat /\ bits <= Width[o.type]
        /\ bits <= precision[o.left] /\ bits <= precision[o.right]
    <2> DEFINE three == {Width[o.type], precision[o.left], precision[o.right]}
    <2>1. \E n \in three : \A k \in three : n <= k
      BY <1>4, <1>5, LeastOfThree
    <2>2. bits = CHOOSE n \in three : \A k \in three : n <= k
      BY DEF bits
    <2> HIDE DEF three
    <2>3. bits \in three /\ \A k \in three : bits <= k
      BY <2>1, <2>2
    <2> QED
      BY <1>4, <1>5, <2>3 DEF three
  <1>7. \A l, r : /\ registers[l] \in Int /\ meaning[l] \in Int /\ precision[l] \in Nat
                  /\ registers[r] \in Int /\ meaning[r] \in Int /\ precision[r] \in Nat
                  /\ Congruent(registers[l], meaning[l], 2^precision[l])
                  /\ Congruent(registers[r], meaning[r], 2^precision[r])
                  /\ bits <= precision[l] /\ bits <= precision[r]
                  => /\ Operand(o.type, l) + Operand(o.type, r) \in Int
                     /\ Congruent(Operand(o.type, l) + Operand(o.type, r),
                                  meaning[l] + meaning[r], 2^bits)
    BY <1>2, <1>6, SumCongruent
  <1>8. sum \in Int /\ total \in Int /\ Congruent(sum, total, 2^bits)
    BY <1>5, <1>6, <1>7 DEF sum, total
  <1>9. PICK stored \in Int, exact \in Int, b \in Nat, x \in Registers(function) :
          /\ b <= WordBits /\ Congruent(stored, exact, 2^b)
          /\ Write(x, stored, exact, b)
    <2>1. bits <= WordBits
      BY <1>4, <1>6, BitsAssumption
    <2>2. CASE Width[o.type] = WordBits
      <3>1. PICK none \in Int : none = 0
        OBVIOUS
      <3>2. /\ none * 2^WordBits + (sum % 2^WordBits) \in Int /\ total % 2^WordBits \in Int
            /\ Congruent(none * 2^WordBits + (sum % 2^WordBits), total % 2^WordBits, 2^bits)
        <4>1. WordBits \in Nat /\ WordBits <= WordBits
          BY BitsAssumption
        <4> QED
          BY <1>6, <1>8, <2>1, <4>1, StoredCongruent
      <3>4. none * 2^WordBits + (sum % 2^WordBits) = sum % 2^WordBits
        <4>1. PICK W \in Nat \ {0} : W = 2^WordBits
          BY PowerType, BitsAssumption
        <4>2. none * W + (sum % W) = sum % W
          BY <1>8, <3>1
        <4> QED
          BY <4>1, <4>2
      <3>3. Write(o.result_register, sum % 2^WordBits, total % 2^WordBits, bits)
        BY <1>3, <2>2
      <3> QED
        BY <1>2, <1>6, <2>1, <3>2, <3>3, <3>4
    <2>3. CASE Width[o.type] # WordBits
      <3>1. PICK above \in 0 .. 2^(WordBits - IntBits) - 1 :
               Write(o.result_register, above * 2^IntBits + (sum % 2^IntBits),
                     total % 2^WordBits, bits)
        BY <1>3, <2>3
      <3>2. above \in Int
        BY PowerType, BitsAssumption
      <3>3. bits <= IntBits /\ IntBits <= WordBits /\ IntBits \in Nat
        BY <1>4, <1>6, <2>3, BitsAssumption
      <3>4. /\ above * 2^IntBits + (sum % 2^IntBits) \in Int /\ total % 2^WordBits \in Int
            /\ Congruent(above * 2^IntBits + (sum % 2^IntBits), total % 2^WordBits, 2^bits)
        BY <1>6, <1>8, <3>2, <3>3, StoredCongruent
      <3> QED
        BY <1>2, <1>6, <2>1, <3>1, <3>4
    <2> QED
      BY <2>2, <2>3
  <1> QED
    BY <1>1, <1>9, WriteStep

\* An addition of no type leaves the registers as they are.
LEMMA AddNothingStep ==
  ASSUME SumsInv, running, AddNothing
  PROVE  SumsInv'
  <1>1. ThreadInv /\ Advance(current_label_block, current_order_index, return_function)
    BY DEF AddNothing, SumsInv
  <1>2. /\ current_label_block \in DOMAIN function.label_blocks
        /\ current_order_index \in Nat /\ current_order_index < Len(orders)
    BY <1>1, OrderFits DEF ThreadInv
  <1>3. current_order_index < Len(function.label_blocks[current_label_block].orders)
    BY <1>2 DEF orders
  <1>4. /\ function' = function /\ arguments' = arguments
        /\ running' => /\ current_label_block' \in DOMAIN function'.label_blocks
                       /\ (current_order_index + 1 \in DOMAIN orders)'
                       /\ current_order_index' \in Nat
    BY <1>1, <1>2, <1>3, AdvanceInv
  <1>5. registers' = registers /\ meaning' = meaning /\ precision' = precision
    BY DEF AddNothing
  <1>6. Registers(function)' = Registers(function)
    BY <1>4 DEF Registers
  <1>7. ThreadInv'
    BY <1>1, <1>4, <1>5, <1>6 DEF ThreadInv
  <1>8. SumsExact'
    BY <1>4, <1>5, <1>6 DEF SumsInv, SumsExact
  <1> QED
    BY <1>7, <1>8 DEF SumsInv

\* An addition keeps the invariant, whatever its type.
LEMMA AddIntegerStep ==
  ASSUME SumsInv, AddInteger
  PROVE  SumsInv'
  BY AddSumStep, AddNothingStep DEF AddInteger

\* A jump leaves the registers as they are.
LEMMA JumpToLabelStep ==
  ASSUME SumsInv, JumpToLabel
  PROVE  SumsInv'
  <1>1. running /\ order.op = "jump_to" /\ ThreadInv
    BY DEF JumpToLabel, SumsInv
  <1>2. PICK block \in DOMAIN function.label_blocks :
          block = LabelBlock(function, order.label_name)
    BY <1>1, OrderFits
  <1>3. Advance(block, 0, return_function)
    BY <1>2 DEF JumpToLabel
  <1>4. 0 < Len(function.label_blocks[block].orders)
    <2>1. WellFormed(function)
      BY <1>1, FunctionsAssumption DEF ThreadInv
    <2>2. function.label_blocks[block].orders \in Seq(Orders)
      BY <1>1, BlockOrders DEF ThreadInv
    <2>3. Len(function.label_blocks[block].orders) > 0
      BY <2>1 DEF WellFormed
    <2> QED
      BY <2>2, <2>3
  <1>5. /\ function' = function /\ arguments' = arguments
        /\ running' => /\ current_label_block' \in DOMAIN function'.label_blocks
                       /\ (current_order_index + 1 \in DOMAIN orders)'
                       /\ current_order_index' \in Nat
    BY <1>1, <1>3, <1>4, AdvanceInv
  <1>6. registers' = registers /\ meaning' = meaning /\ precision' = precision
    BY DEF JumpToLabel
  <1>7. Registers(function)' = Registers(function)
    BY <1>5 DEF Registers
  <1>8. ThreadInv'
    BY <1>1, <1>5, <1>6, <1>7 DEF ThreadInv
  <1>9. SumsExact'
    BY <1>5, <1>6, <1>7 DEF SumsInv, SumsExact
  <1> QED
    BY <1>8, <1>9 DEF SumsInv

\* The result is copied to the register behind the others.
LEMMA ReturnFunctionStep ==
  ASSUME SumsInv, ReturnFunction
  PROVE  SumsInv'
  <1>1. running /\ order.op = "ret" /\ ThreadInv
    BY DEF ReturnFunction, SumsInv
  <1>2. order.result_register \in Registers(function)
    BY <1>1, OrderFits
  <1>3. function.registers_size \in Registers(function)
    BY <1>1, FunctionsAssumption DEF ThreadInv, WellFormed, Registers
  <1>4. PICK r \in Registers(function), last \in Registers(function) :
          /\ registers' = [registers EXCEPT ![last] = registers[r]]
          /\ meaning' = [meaning EXCEPT ![last] = meaning[r]]
          /\ precision' = [precision EXCEPT ![last] = precision[r]]
          /\ Advance(current_label_block, current_order_index, TRUE)
    BY <1>2, <1>3 DEF ReturnFunction
  <1>5. /\ registers[r] \in Int /\ meaning[r] \in Int
        /\ precision[r] \in Nat /\ precision[r] <= WordBits
        /\ Congruent(registers[r], meaning[r], 2^precision[r])
    BY RegisterCongruent
  <1>6. /\ current_label_block \in DOMAIN function.label_blocks /\ current_order_index \in Nat
        /\ current_order_index < Len(function.label_blocks[current_label_block].orders)
    BY <1>1, Standing
  <1> QED
    BY <1>4, <1>5, <1>6, WriteInv

\* Nothing is known of the registers of a function that has just been called.
LEMMA CallFunctionStep ==
  ASSUME SumsInv, NEW f \in Functions, NEW args \in [{0, 1} -> Values], CallFunction(f, args)
  PROVE  SumsInv'
  <1>1. /\ function' = f /\ current_label_block' = 1 /\ current_order_index' = 0
        /\ arguments' = args
        /\ registers' \in [Registers(f) -> Garbage]
        /\ meaning' = [r \in Registers(f) |-> 0]
        /\ precision' = [r \in Registers(f) |-> 0]
    BY DEF CallFunction
  <1>2. Word \subseteq Int
    BY PowerType, BitsAssumption DEF Word
  <1>3. Values \subseteq Int /\ Garbage \subseteq Int
    BY <1>2, ValuesAssumption
  <1>4. 1 \in DOMAIN f.label_blocks
    <2>1. Len(f.label_blocks) \in Nat /\ DOMAIN f.label_blocks = 1 .. Len(f.label_blocks)
      BY FunctionsAssumption DEF WellFormed
    <2>2. Len(f.label_blocks) > 0
      BY FunctionsAssumption DEF WellFormed
    <2> QED
      BY <2>1, <2>2
  <1>5. 1 \in DOMAIN f.label_blocks[1].orders
    <2>1. f.label_blocks[1].orders \in Seq(Orders)
      BY <1>4, BlockOrders
    <2>2. Len(f.label_blocks[1].orders) > 0
      BY <1>4, FunctionsAssumption DEF WellFormed
    <2> QED
      BY <2>1, <2>2
  <1>6. orders' = f.label_blocks[1].orders
    BY <1>1 DEF orders
  <1>7. /\ args \in [{0, 1} -> Int] /\ registers' \in [Registers(f) -> Int]
        /\ meaning' \in [Registers(f) -> Int] /\ precision' \in [Registers(f) -> 0 .. WordBits]
    <2>1. args \in [{0, 1} -> Int] /\ registers' \in [Registers(f) -> Int]
      BY <1>1, <1>3
    <2>2. 0 \in Int /\ 0 \in 0 .. WordBits
      BY BitsAssumption
    <2>3. meaning' \in [Registers(f) -> Int] /\ precision' \in [Registers(f) -> 0 .. WordBits]
      BY <1>1, <2>2
    <2> QED
      BY <2>1, <2>3
  <1>8. ThreadInv'
    BY <1>1, <1>4, <1>5, <1>6, <1>7 DEF ThreadInv
  <1>9. ASSUME NEW r \in Registers(f) PROVE (registers'[r] - meaning'[r]) % 2^precision'[r] = 0
    <2>1. 2^0 = 1
      OBVIOUS
    <2>2. registers'[r] \in Int /\ meaning'[r] = 0 /\ precision'[r] = 0
      BY <1>1, <1>7
    <2>3. \A n \in Int : (n - 0) % 1 = 0
      OBVIOUS
    <2> QED
      BY <2>1, <2>2, <2>3
  <1>10. SumsExact'
    BY <1>1, <1>9 DEF SumsExact
  <1> QED
    BY <1>8, <1>10 DEF SumsInv

\* No function has run yet.
LEMMA InitSums ==
  ASSUME Init
  PROVE  SumsInv
  <1>1. /\ function \in Functions /\ running = FALSE
        /\ arguments = [a \in {0, 1} |-> 0]
        /\ registers = [r \in Registers(function) |-> 0]
        /\ meaning = [r \in Registers(function) |-> 0]
        /\ precision = [r \in Registers(function) |-> 0]
    BY DEF Init
  <1>2. ThreadInv
    BY <1>1, BitsAssumption DEF ThreadInv
  <1>3. 2^0 = 1 /\ (0 - 0) % 1 = 0
    OBVIOUS
  <1>4. SumsExact
    BY <1>1, <1>3 DEF SumsExact
  <1> QED
    BY <1>2, <1>4 DEF SumsInv

\* Every order, and every call, keeps the sums exact.
LEMMA NextSums ==
  ASSUME SumsInv, [Next]_vars
  PROVE  SumsInv'
  <1>1. CASE UNCHANGED vars
    BY <1>1 DEF vars, thread, SumsInv, ThreadInv, SumsExact, Registers, orders
  <1>2. CASE EvalOrder
    BY <1>2, GetConstIntegerStep, GetArgumentStep, AddIntegerStep, JumpToLabelStep,
       ReturnFunctionStep DEF EvalOrder
  <1>3. CASE \E f \in Functions, args \in [{0, 1} -> Values] : CallFunction(f, args)
    BY <1>3, CallFunctionStep
  <1> QED
    BY <1>1, <1>2, <1>3 DEF Next

\* As far as the types of the additions that led to it go, a register holds
\* the sum that word-wide registers would hold: the bits that iadd reads from
\* behind its int, and what a function finds in its registers, never get into
\* a later sum.  For every width of words, ints and types.
THEOREM SumsAreExact == Spec => []SumsExact
  <1>1. Init => SumsInv
    BY InitSums
  <1>2. SumsInv /\ [Next]_vars => SumsInv'
    BY NextSums
  <1>3. SumsInv => SumsExact
    BY DEF SumsInv
  <1> QED
    BY <1>1, <1>2, <1>3, PTL DEF Spec

-----------------------------------------------------------------------------
(***************************************************************************)
(* A call runs to the end of its function.                                 *)
(***************************************************************************)
\* The orders that leave a block.
Leaving == {"ret", "jump_to"}

\* A thread that runs has come to a block in one of the ways its function comes
\* there, and has met nothing since that leaves it; no return is pending.
FlowInv ==
  /\ return_function = FALSE
  /\ running => \E p \in Entered(function) :
       /\ current_label_block = p[1] /\ p[2] <= current_order_index + 1
       /\ \A n \in p[2] .. current_order_index : orders[n].op \notin Leaving

RunInv == SumsInv /\ FlowInv /\ CallRunsToItsEnd

\* The least number of a set is the one that is chosen as such.
LEMMA LeastIs ==
  ASSUME NEW S \in SUBSET Nat, NEW n \in S, \A l \in S : n <= l
  PROVE  (CHOOSE m \in S : \A l \in S : m <= l) = n
  <1>1. PICK m \in S : /\ m = CHOOSE x \in S : \A l \in S : x <= l
                       /\ \A l \in S : m <= l
    OBVIOUS
  <1>2. m <= n /\ n <= m
    BY <1>1
  <1> QED
    BY <1>1, <1>2

\* Where a block is left.
LEMMA StopIs ==
  ASSUME NEW f \in Functions, NEW b \in DOMAIN f.label_blocks, NEW k \in {1, 2},
         NEW n \in DOMAIN f.label_blocks[b].orders,
         \/ n = Len(f.label_blocks[b].orders)
         \/ k <= n /\ f.label_blocks[b].orders[n].op \in Leaving,
         \A l \in k .. n - 1 : f.label_blocks[b].orders[l].op \notin Leaving
  PROVE  Stop(f, b, k) = n
  <1>1. PICK at \in Seq(Orders) : at = f.label_blocks[b].orders
    BY BlockOrders
  <1> DEFINE stops == {l \in k .. Len(at) : at[l].op \in {"ret", "jump_to"}} \cup {Len(at)}
  <1>2. Stop(f, b, k) = CHOOSE m \in stops : \A l \in stops : m <= l
    BY <1>1 DEF Stop
  <1>3. Len(at) \in Nat /\ n \in 1 .. Len(at)
    BY <1>1
  <1>4. n \in stops
    BY <1>1, <1>3 DEF Leaving
  <1>5. ASSUME NEW l \in stops PROVE l \in Nat /\ n <= l
    <2>1. CASE l = Len(at)
      BY <1>3, <2>1
    <2>2. CASE l \in k .. Len(at) /\ at[l].op \in Leaving
      <3>1. l \notin k .. n - 1
        BY <1>1, <2>2
      <3> QED
        BY <1>3, <2>2, <3>1
    <2> QED
      BY <2>1, <2>2 DEF Leaving
  <1> HIDE DEF stops
  <1>6. stops \in SUBSET Nat
    BY <1>5
  <1> QED
    BY <1>2, <1>4, <1>5, <1>6, LeastIs

\* A function begins with its first order.
LEMMA EnteredFirst ==
  ASSUME NEW f \in Functions
  PROVE  <<1, 1>> \in Entered(f)
  <1>1. 1 \in DOMAIN f.label_blocks
    <2>1. Len(f.label_blocks) \in Nat /\ DOMAIN f.label_blocks = 1 .. Len(f.label_blocks)
      BY FunctionsAssumption DEF WellFormed
    <2>2. Len(f.label_blocks) > 0
      BY FunctionsAssumption DEF WellFormed
    <2> QED
      BY <2>1, <2>2
  <1> QED
    BY <1>1, Zenon DEF Entered

\* What is entered is a block.
LEMMA EnteredIsPlace ==
  ASSUME NEW f, NEW p \in Entered(f)
  PROVE  p[1] \in DOMAIN f.label_blocks /\ p[2] \in {1, 2} /\ p = <<p[1], p[2]>>
  <1>1. p \in (DOMAIN f.label_blocks) \X {1, 2}
    BY DEF Entered
  <1> QED
    BY <1>1

\* The target of a jump is entered at its second order.
LEMMA EnteredByJump ==
  ASSUME NEW f \in Functions, NEW p \in Entered(f), JumpsOn(f, p[1], p[2]), NEW name,
         name = f.label_blocks[p[1]].orders[Stop(f, p[1], p[2])].label_name,
         LabelBlock(f, name) \in DOMAIN f.label_blocks
  PROVE  <<LabelBlock(f, name), 2>> \in Entered(f)
  <1> DEFINE places == (DOMAIN f.label_blocks) \X {1, 2}
             target(q) == f.label_blocks[q[1]].orders[Stop(f, q[1], q[2])].label_name
             closed(E) ==
               /\ <<1, 1>> \in E
               /\ \A q \in E : JumpsOn(f, q[1], q[2]) => <<LabelBlock(f, target(q)), 2>> \in E
  <1>1. Entered(f) = {q \in places : \A E \in SUBSET places : closed(E) => q \in E}
    BY DEF Entered
  <1>2. <<LabelBlock(f, name), 2>> \in places
    OBVIOUS
  <1>3. ASSUME NEW E, closed(E), p \in E PROVE <<LabelBlock(f, name), 2>> \in E
    <2>1. target(p) = name
      OBVIOUS
    <2> HIDE DEF target
    <2>2. <<LabelBlock(f, target(p)), 2>> \in E
      BY <1>3
    <2> QED
      BY <2>1, <2>2
  <1> HIDE DEF places, closed
  <1>4. \A E \in SUBSET places : closed(E) => p \in E
    BY <1>1
  <1>5. \A E \in SUBSET places : closed(E) => <<LabelBlock(f, name), 2>> \in E
    BY <1>3, <1>4
  <1> QED
    BY <1>1, <1>2, <1>5

\* The turn of the loop after an order that does not leave its block.
LEMMA AdvanceOn ==
  ASSUME function \in Functions, running, NEW p \in Entered(function), NEW k \in Nat,
         k < Len(function.label_blocks[p[1]].orders),
         \A n \in p[2] .. k + 1 : function.label_blocks[p[1]].orders[n].op \notin Leaving,
         NEW b, b = p[1], Advance(b, k, FALSE)
  PROVE  FlowInv' /\ CallRunsToItsEnd'
  <1>1. p[1] \in DOMAIN function.label_blocks /\ p[2] \in {1, 2}
    BY EnteredIsPlace
  <1>2. PICK at \in Seq(Orders) : at = function.label_blocks[p[1]].orders
    BY <1>1, BlockOrders
  <1>3. /\ function' = function /\ current_label_block' = p[1] /\ current_order_index' = k + 1
        /\ orders' = at
        /\ return_function' = FALSE
        /\ running' = (k + 1 # Len(at))
    BY <1>2 DEF Advance, orders
  <1>4. Len(at) \in Nat /\ DOMAIN at = 1 .. Len(at) /\ k < Len(at)
    BY <1>2
  <1>5. FlowInv'
    <2>1. p[2] <= (k + 1) + 1
      BY <1>1
    <2>2. \A n \in p[2] .. k + 1 : at[n].op \notin Leaving
      BY <1>2
    <2>3. p \in Entered(function')
      BY <1>3
    <2> QED
      BY <1>3, <2>1, <2>2, <2>3 DEF FlowInv
  <1>6. CASE k + 1 = Len(at)
    <2>1. k + 1 \in DOMAIN at
      BY <1>4
    <2>2. \A n \in p[2] .. (k + 1) - 1 : at[n].op \notin Leaving
      BY <1>1, <1>2
    <2>3. Stop(function, p[1], p[2]) = k + 1
      BY <1>1, <1>2, <1>6, <2>1, <2>2, StopIs
    <2>4. p[2] <= Len(at) => at[k + 1].op \notin Leaving
      BY <1>1, <1>2, <1>6
    <2>5. ~JumpsOn(function, p[1], p[2])
      BY <1>2, <2>3, <2>4 DEF JumpsOn, Leaving
    <2> QED
      BY <1>3, <1>5, <2>3, <2>5 DEF CallRunsToItsEnd
  <1>7. CASE k + 1 # Len(at)
    BY <1>3, <1>5, <1>7 DEF CallRunsToItsEnd
  <1> QED
    BY <1>6, <1>7

\* An order that only writes a register does not leave its block.
LEMMA WriteRuns ==
  ASSUME RunInv, running, order.op \notin Leaving,
         Advance(current_label_block, current_order_index, return_function)
  PROVE  FlowInv' /\ CallRunsToItsEnd'
  <1>1. PICK p \in Entered(function) :
          /\ current_label_block = p[1] /\ p[2] <= current_order_index + 1
          /\ \A n \in p[2] .. current_order_index : orders[n].op \notin Leaving
    BY DEF RunInv, FlowInv
  <1>2. /\ current_order_index \in Nat /\ function \in Functions
        /\ current_order_index < Len(function.label_blocks[p[1]].orders)
    BY <1>1, Standing DEF RunInv, SumsInv, ThreadInv
  <1>3. p[2] \in {1, 2}
    BY EnteredIsPlace
  <1>4. \A n \in p[2] .. current_order_index + 1 :
          function.label_blocks[p[1]].orders[n].op \notin Leaving
    <2>1. orders = function.label_blocks[p[1]].orders
      BY <1>1 DEF orders
    <2>2. \A n \in p[2] .. current_order_index + 1 :
            n = current_order_index + 1 \/ n \in p[2] .. current_order_index
      BY <1>2, <1>3
    <2>3. orders[current_order_index + 1].op \notin Leaving
      BY DEF order
    <2> QED
      BY <1>1, <2>1, <2>2, <2>3
  <1>5. Advance(current_label_block, current_order_index, FALSE)
    BY DEF RunInv, FlowInv
  <1> QED
    BY <1>1, <1>2, <1>4, <1>5, AdvanceOn

\* An order that leaves its block does so where the text says.
LEMMA StopsHere ==
  ASSUME RunInv, running, order.op \in Leaving
  PROVE  \E p \in Entered(function) :
           /\ current_label_block = p[1]
           /\ Stop(function, p[1], p[2]) = current_order_index + 1
           /\ JumpsOn(function, p[1], p[2]) <=> order.op = "jump_to"
           /\ function.label_blocks[p[1]].orders[current_order_index + 1] = order
  <1>1. PICK p \in Entered(function) :
          /\ current_label_block = p[1] /\ p[2] <= current_order_index + 1
          /\ \A n \in p[2] .. current_order_index : orders[n].op \notin Leaving
    BY DEF RunInv, FlowInv
  <1>2. /\ function \in Functions /\ current_order_index \in Nat
        /\ p[1] \in DOMAIN function.label_blocks /\ p[2] \in {1, 2}
        /\ current_order_index < Len(function.label_blocks[p[1]].orders)
    BY <1>1, Standing, EnteredIsPlace DEF RunInv, SumsInv, ThreadInv
  <1>3. PICK at \in Seq(Orders) : at = function.label_blocks[p[1]].orders
    BY <1>2, BlockOrders
  <1>4. at = orders /\ at[current_order_index + 1] = order
    BY <1>1, <1>3 DEF orders, order
  <1>5. current_order_index + 1 \in DOMAIN at /\ current_order_index + 1 <= Len(at)
    BY <1>2, <1>3
  <1>6. \A n \in p[2] .. (current_order_index + 1) - 1 : at[n].op \notin Leaving
    BY <1>1, <1>2, <1>4
  <1>7. Stop(function, p[1], p[2]) = current_order_index + 1
    BY <1>1, <1>2, <1>3, <1>4, <1>5, <1>6, StopIs
  <1>8. p[2] <= Len(at)
    BY <1>1, <1>2, <1>3, <1>5
  <1>9. JumpsOn(function, p[1], p[2]) <=> order.op = "jump_to"
    BY <1>3, <1>4, <1>7, <1>8 DEF JumpsOn
  <1> QED
    BY <1>1, <1>3, <1>4, <1>7, <1>9

\* Every order takes its function on, or ends it where it ends.
LEMMA EvalOrderRuns ==
  ASSUME RunInv, EvalOrder
  PROVE  FlowInv' /\ CallRunsToItsEnd'
  <1>1. running /\ function \in Functions /\ ThreadInv
    BY DEF RunInv, SumsInv, ThreadInv, EvalOrder, GetConstInteger, GetArgument, AddInteger,
           JumpToLabel, ReturnFunction
  <1>2. CASE GetConstInteger \/ GetArgument \/ AddInteger
    <2>1. /\ order.op \notin Leaving
          /\ Advance(current_label_block, current_order_index, return_function)
      BY <1>2 DEF GetConstInteger, GetArgument, AddInteger, AddSum, AddNothing, Write, Leaving
    <2> QED
      BY <1>1, <2>1, WriteRuns
  <1>3. CASE JumpToLabel
    <2>1. order.op = "jump_to" /\ order.op \in Leaving
      BY <1>3 DEF JumpToLabel, Leaving
    <2>2. PICK p \in Entered(function) :
            /\ Stop(function, p[1], p[2]) = current_order_index + 1
            /\ JumpsOn(function, p[1], p[2])
            /\ function.label_blocks[p[1]].orders[current_order_index + 1] = order
      BY <1>1, <2>1, StopsHere
    <2>3. PICK target \in DOMAIN function.label_blocks :
            target = LabelBlock(function, order.label_name)
      BY <1>1, <2>1, OrderFits
    <2>4. PICK name : /\ name = order.label_name
                      /\ name = function.label_blocks[p[1]].orders[Stop(function, p[1], p[2])].label_name
      BY <2>2
    <2>5. PICK q \in Entered(function) : q = <<target, 2>>
      <3>1. LabelBlock(function, name) \in DOMAIN function.label_blocks
        BY <2>3, <2>4
      <3>2. <<LabelBlock(function, name), 2>> \in Entered(function)
        BY <1>1, <2>2, <2>4, <3>1, EnteredByJump
      <3>3. LabelBlock(function, name) = target
        BY <2>3, <2>4
      <3>4. <<target, 2>> \in Entered(function)
        BY <3>2, <3>3
      <3> QED
        BY <3>4, Zenon
    <2>6. PICK k \in Nat : k = 0 /\ Advance(target, k, FALSE)
      BY <1>3, <2>3 DEF JumpToLabel, RunInv, FlowInv
    <2>7. q[1] = target /\ q[2] = 2
      BY <2>5
    <2>8. k < Len(function.label_blocks[q[1]].orders)
      <3>1. WellFormed(function)
        BY <1>1, FunctionsAssumption
      <3>2. function.label_blocks[target].orders \in Seq(Orders)
        BY <1>1, BlockOrders
      <3>3. Len(function.label_blocks[target].orders) > 0
        BY <3>1 DEF WellFormed
      <3> QED
        BY <2>6, <2>7, <3>2, <3>3
    <2>9. \A n \in q[2] .. k + 1 : function.label_blocks[q[1]].orders[n].op \notin Leaving
      BY <2>6, <2>7
    <2>10. Advance(target, k, FALSE) /\ target = q[1]
      BY <2>6, <2>7
    <2> QED
      BY <1>1, <2>8, <2>9, <2>10, AdvanceOn
  <1>4. CASE ReturnFunction
    <2>1. order.op = "ret" /\ order.op \in Leaving
      BY <1>4 DEF ReturnFunction, Leaving
    <2>2. PICK p \in Entered(function) :
            /\ current_label_block = p[1]
            /\ Stop(function, p[1], p[2]) = current_order_index + 1
            /\ ~JumpsOn(function, p[1], p[2])
      BY <1>1, <2>1, StopsHere
    <2>3. /\ function' = function /\ current_label_block' = current_label_block
          /\ current_order_index' = current_order_index + 1
          /\ running' = FALSE /\ return_function' = FALSE
      BY <1>4 DEF ReturnFunction, Advance
    <2> QED
      BY <2>2, <2>3 DEF FlowInv, CallRunsToItsEnd
  <1> QED
    BY <1>2, <1>3, <1>4 DEF EvalOrder

\* A call begins where its function begins.
LEMMA CallFunctionRuns ==
  ASSUME RunInv, NEW f \in Functions, NEW args, CallFunction(f, args)
  PROVE  FlowInv' /\ CallRunsToItsEnd'
  <1>1. /\ function' = f /\ current_label_block' = 1 /\ current_order_index' = 0
        /\ running' = TRUE /\ return_function' = FALSE
    BY DEF CallFunction, RunInv, FlowInv
  <1>2. PICK p \in Entered(f) : p = <<1, 1>>
    BY EnteredFirst
  <1>3. p[1] = 1 /\ p[2] = 1 /\ p[2] <= 0 + 1 /\ p[2] .. 0 = {}
    BY <1>2
  <1>4. FlowInv'
    BY <1>1, <1>2, <1>3 DEF FlowInv
  <1>5. CallRunsToItsEnd'
    BY <1>1 DEF CallRunsToItsEnd
  <1> QED
    BY <1>4, <1>5

\* A call of run_function goes on to the order its function ends with: the
\* return flag of an earlier call, which nothing resets when a call begins, is
\* never left set, and the order a jump passes over is the only one left out.
\* For any functions and any number of calls.
THEOREM CallsRunToTheirEnd == Spec => []CallRunsToItsEnd
  <1>1. Init => RunInv
    <2> SUFFICES ASSUME Init PROVE RunInv
      OBVIOUS
    <2>1. SumsInv
      BY InitSums
    <2>2. running = FALSE /\ return_function = FALSE /\ ~(calls > 0)
      BY DEF Init
    <2> QED
      BY <2>1, <2>2 DEF RunInv, FlowInv, CallRunsToItsEnd
  <1>2. RunInv /\ [Next]_vars => RunInv'
    <2> SUFFICES ASSUME RunInv, [Next]_vars PROVE RunInv'
      OBVIOUS
    <2>1. SumsInv'
      BY NextSums DEF RunInv
    <2>2. CASE UNCHANGED vars
      <3>1. FlowInv' /\ CallRunsToItsEnd'
        BY <2>2 DEF RunInv, FlowInv, CallRunsToItsEnd, vars, thread, orders
      <3> QED
        BY <2>1, <3>1 DEF RunInv
    <2>3. CASE EvalOrder
      BY <2>1, <2>3, EvalOrderRuns DEF RunInv
    <2>4. CASE \E f \in Functions, args \in [{0, 1} -> Values] : CallFunction(f, args)
      BY <2>1, <2>4, CallFunctionRuns DEF RunInv
    <2> QED
      BY <2>2, <2>3, <2>4 DEF Next
  <1>3. RunInv => CallRunsToItsEnd
    BY DEF RunInv
  <1> QED
    BY <1>1, <1>2, <1>3, PTL DEF Spec

==============================================================================
