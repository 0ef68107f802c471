----------------------------- MODULE Interpreter -----------------------------
(***************************************************************************)
(* CatVM::run_function: one VMThread that runs functions one after the     *)
(* other, order by order.  A step is one turn of the loop: the order is    *)
(* evaluated, the order index advanced and the end of the block and the    *)
(* return flag looked at.                                                  *)
(*                                                                         *)
(* Registers are machine words, and uninitialised when a function starts.  *)
(* iadd works on the low bits its type names, and its result, computed as  *)
(* an int unless the type is as wide as a word, is stored by reading a     *)
(* whole word from where it lies: the bits above an int are arbitrary.     *)
(* Widths are scaled down: WordBits stands for 64, IntBits for 32.         *)
(***************************************************************************)
EXTENDS Integers, Sequences, FiniteSets

CONSTANTS
  WordBits, IntBits,   \* bits of a register, bits of an int
  Width,               \* the bits of every type iadd has a branch for
  Signed,              \* the signed ones
  Functions,           \* the functions of the module
  Values,              \* values of arguments
  Garbage,             \* values an uninitialised register may hold
  MaxCalls             \* bound: calls of run_function

Word == 0 .. 2^WordBits - 1
AddTypes == DOMAIN Width

Orders ==
  [op : {"const"}, result_register : Nat, value : Word]
  \cup [op : {"arg"}, result_register : Nat, argument_index : Nat]
  \cup [op : {"iadd"}, type : AddTypes \cup {"void"}, result_register : Nat,
         left : Nat, right : Nat]
  \cup [op : {"jump_to"}, label_name : STRING]
  \cup [op : {"ret"}, result_register : Nat]

\* label_block_map: of several blocks with one name it keeps the last; 0 when
\* there is none.
LabelBlock(f, name) ==
  LET found == {n \in DOMAIN f.label_blocks : f.label_blocks[n].name = name}
  IN IF found = {} THEN 0 ELSE CHOOSE n \in found : \A k \in found : k <= n

\* A function that can be run: registers within bounds, blocks that are not
\* empty, jumps to labels that exist.  The machine checks none of this.
WellFormed(f) ==
  /\ f.registers_size \in Nat
  /\ f.label_blocks \in Seq([name : STRING, orders : Seq(Orders)])
  /\ Len(f.label_blocks) > 0
  /\ \A n \in DOMAIN f.label_blocks :
       LET orders == f.label_blocks[n].orders IN
       /\ Len(orders) > 0
       /\ \A k \in DOMAIN orders :
            LET o == orders[k] IN
            IF o.op = "jump_to" THEN LabelBlock(f, o.label_name) # 0
            ELSE /\ o.result_register < f.registers_size
                 /\ o.op = "arg" => o.argument_index \in {0, 1}
                 /\ o.op = "iadd" => o.left < f.registers_size /\ o.right < f.registers_size

ASSUME BitsAssumption == IntBits \in Nat /\ WordBits \in Nat /\ IntBits < WordBits
ASSUME WidthAssumption ==
  \A y \in AddTypes : Width[y] \in 1 .. IntBits \/ Width[y] = WordBits
ASSUME SignedAssumption == Signed \subseteq AddTypes
ASSUME FunctionsAssumption == \A f \in Functions : WellFormed(f)
ASSUME ValuesAssumption == Values \subseteq Word /\ Garbage \subseteq Word
ASSUME CallsAssumption == MaxCalls \in Nat

VARIABLES
  running, function,               \* VMThread::current_function
  current_label_block, current_order_index, return_function,
  registers, arguments,
  result,
  calls,
  \* what registers stand for: the sum in words, and the bits it is good for
  meaning, precision

thread == <<function, current_label_block, current_order_index, return_function>>
vars == <<running, thread, registers, arguments, result, calls, meaning, precision>>

Registers(f) == 0 .. f.registers_size
orders == function.label_blocks[current_label_block].orders
order == orders[current_order_index + 1]

Init ==
  /\ running = FALSE
  /\ function \in Functions
  /\ current_label_block = 1 /\ current_order_index = 0 /\ return_function = FALSE
  /\ registers = [r \in Registers(function) |-> 0]
  /\ arguments = [a \in {0, 1} |-> 0]
  /\ result = 0
  /\ calls = 0
  /\ meaning = registers
  /\ precision = [r \in Registers(function) |-> 0]

\* A call on a thread that is idle.  Nothing resets return_function.
CallFunction(f, args) ==
  /\ ~running
  /\ calls < MaxCalls
  /\ calls' = calls + 1
  /\ running' = TRUE
  /\ function' = f
  /\ current_label_block' = 1
  /\ current_order_index' = 0
  /\ arguments' = args
  /\ registers' \in [Registers(f) -> Garbage]
  /\ meaning' = [r \in Registers(f) |-> 0]
  /\ precision' = [r \in Registers(f) |-> 0]
  /\ UNCHANGED <<return_function, result>>

-----------------------------------------------------------------------------
(***************************************************************************)
(* The end of a turn of the loop, after an order that left the thread at   *)
(* index k of a block with return_function as flag.                        *)
(***************************************************************************)

\* Fault: the flag is left set.
AdvanceKeepsFlag(block, k, flag) ==
  /\ current_label_block' = block
  /\ current_order_index' = k + 1
  /\ IF k + 1 = Len(function.label_blocks[block].orders) \/ flag
     THEN /\ running' = FALSE
          /\ return_function' = flag
          /\ result' = registers'[function.registers_size]
     ELSE /\ return_function' = flag
          /\ UNCHANGED <<running, result>>
  /\ UNCHANGED <<function, arguments, calls>>

Advance(block, k, flag) ==
  /\ current_label_block' = block
  /\ current_order_index' = k + 1
  /\ IF k + 1 = Len(function.label_blocks[block].orders) \/ flag
     THEN /\ running' = FALSE
          /\ return_function' = FALSE
          /\ result' = registers'[function.registers_size]
     ELSE /\ return_function' = flag
          /\ UNCHANGED <<running, result>>
  /\ UNCHANGED <<function, arguments, calls>>

\* An order that only writes register r.
Write(r, value, sum, bits) ==
  /\ registers' = [registers EXCEPT ![r] = value]
  /\ meaning' = [meaning EXCEPT ![r] = sum]
  /\ precision' = [precision EXCEPT ![r] = bits]
  /\ Advance(current_label_block, current_order_index, return_function)

GetConstInteger ==
  /\ running /\ order.op = "const"
  /\ Write(order.result_register, order.value, order.value, WordBits)

GetArgument ==
  /\ running /\ order.op = "arg"
  /\ LET value == arguments[order.argument_index] IN
     Write(order.result_register, value, value, WordBits)

\* Fault: one bit less than the type has is read.
OperandShort(type, index) == registers[index] % 2^(Width[type] - 1)

\* *((intN_t*) (registers + index)): the low bits, with their sign
Operand(type, index) ==
  LET low == registers[index] % 2^Width[type] IN
  IF type \in Signed /\ low >= 2^(Width[type] - 1) THEN low - 2^Width[type] ELSE low

AddSum ==
  LET o == order
      sum == Operand(o.type, o.left) + Operand(o.type, o.right)
      bits == CHOOSE n \in {Width[o.type], precision[o.left], precision[o.right]} :
                \A k \in {Width[o.type], precision[o.left], precision[o.right]} : n <= k
      exact == (meaning[o.left] + meaning[o.right]) % 2^WordBits
  IN
  /\ o.type \in AddTypes
  /\ IF Width[o.type] = WordBits
     THEN Write(o.result_register, sum % 2^WordBits, exact, bits)
     ELSE \E above \in 0 .. 2^(WordBits - IntBits) - 1 :
            Write(o.result_register, above * 2^IntBits + (sum % 2^IntBits), exact, bits)

\* A type no branch asks for, void: nothing is added and nothing written.
AddNothing ==
  /\ order.type \notin AddTypes
  /\ UNCHANGED <<registers, meaning, precision>>
  /\ Advance(current_label_block, current_order_index, return_function)

AddInteger == running /\ order.op = "iadd" /\ (AddSum \/ AddNothing)

\* The index is set to 0 and then advanced with the rest: the first order of
\* the block is passed over.
JumpToLabel ==
  /\ running /\ order.op = "jump_to"
  /\ UNCHANGED <<registers, meaning, precision>>
  /\ Advance(LabelBlock(function, order.label_name), 0, return_function)

ReturnFunction ==
  LET r == order.result_register
      last == function.registers_size
  IN
  /\ running /\ order.op = "ret"
  /\ registers' = [registers EXCEPT ![last] = registers[r]]
  /\ meaning' = [meaning EXCEPT ![last] = meaning[r]]
  /\ precision' = [precision EXCEPT ![last] = precision[r]]
  /\ Advance(current_label_block, current_order_index, TRUE)

EvalOrder ==
  \/ GetConstInteger \/ GetArgument \/ AddInteger \/ JumpToLabel \/ ReturnFunction

Next ==
  \/ EvalOrder
  \/ \E f \in Functions, args \in [{0, 1} -> Values] : CallFunction(f, args)

Spec == Init /\ [][Next]_vars

-----------------------------------------------------------------------------
\* Where block b, entered at its order k, is left: at the first ret or jump_to,
\* or at its end.
Stop(f, b, k) ==
  LET at == f.label_blocks[b].orders
      stops == {n \in k .. Len(at) : at[n].op \in {"ret", "jump_to"}} \cup {Len(at)}
  IN CHOOSE n \in stops : \A l \in stops : n <= l

\* It is left by a jump.
JumpsOn(f, b, k) ==
  LET at == f.label_blocks[b].orders
  IN k <= Len(at) /\ at[Stop(f, b, k)].op = "jump_to"

\* The blocks a function comes through and the orders it enters them at, read
\* off its text: it begins with the first order, a jump passes over one.
Entered(f) ==
  LET places == (DOMAIN f.label_blocks) \X {1, 2}
      target(p) == f.label_blocks[p[1]].orders[Stop(f, p[1], p[2])].label_name
      closed(E) ==
        /\ <<1, 1>> \in E
        /\ \A p \in E : JumpsOn(f, p[1], p[2]) => <<LabelBlock(f, target(p)), 2>> \in E
  IN {p \in places : \A E \in SUBSET places : closed(E) => p \in E}

\* A call goes on to the order its function ends with, whatever the calls
\* before it left in the thread: it is not cut short by the return of an
\* earlier one, and a jump behind the last order of a block ends it there.
CallRunsToItsEnd ==
  (~running /\ calls > 0) =>
    \E p \in Entered(function) :
      /\ ~JumpsOn(function, p[1], p[2])
      /\ current_label_block = p[1] /\ current_order_index = Stop(function, p[1], p[2])

\* The arbitrary bits an iadd stores above its result never reach a later sum:
\* as far as the types of the additions that led to it go, a register holds
\* the sum that word-wide registers would hold, the result register too.
SumsExact ==
  \A r \in Registers(function) :
    (registers[r] - meaning[r]) % 2^precision[r] = 0
=============================================================================
