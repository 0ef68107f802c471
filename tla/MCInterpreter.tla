---------------------------- MODULE MCInterpreter ----------------------------
(* Small functions for Interpreter. *)
EXTENDS Interpreter

\* i8, u8 one bit; i32, u32 as wide as an int; i64 a word.
MCWidth == [i8 |-> 1, u8 |-> 1, i32 |-> 2, u32 |-> 2, i64 |-> 3]

Arg(r, a) == [op |-> "arg", result_register |-> r, argument_index |-> a]
Const(r, v) == [op |-> "const", result_register |-> r, value |-> v]
Add(y, r, a, b) == [op |-> "iadd", type |-> y, result_register |-> r, left |-> a, right |-> b]
Jump(l) == [op |-> "jump_to", label_name |-> l]
Ret(r) == [op |-> "ret", result_register |-> r]

Label(name, body) == [name |-> name, orders |-> body]
Fn(blocks) == [registers_size |-> 2, label_blocks |-> blocks]

\* The sample function of CatLa.cpp with two types, and functions that jump:
\* to a block of one order, to a longer one, to a name that is there twice,
\* back to a block that jumps; and one that adds voids.
MCFunctions ==
  { Fn(<<Label("entry", <<Arg(0, 0), Arg(1, 1), Add(y, 0, 0, 1), Add(z, 0, 0, 1), Ret(0)>>)>>)
      : y \in DOMAIN MCWidth, z \in {"u8", "i32", "i64"} }
  \cup
  { Fn(<<Label("entry", <<Arg(0, 0), Jump("next"), Ret(0)>>), Label("next", <<Ret(0)>>)>>),
    Fn(<<Label("entry", <<Const(0, 5), Jump("next"), Ret(0)>>),
         Label("next", <<Ret(1)>>),
         Label("next", <<Const(0, 1), Add("u8", 0, 0, 0), Ret(0), Const(0, 2)>>)>>),
    Fn(<<Label("entry", <<Arg(1, 1), Arg(0, 0), Jump("loop")>>),
         Label("loop", <<Ret(0), Add("i32", 0, 0, 1), Jump("loop")>>)>>),
    Fn(<<Label("entry", <<Arg(0, 0), Add("u8", 1, 0, 0), Add("void", 0, 0, 1), Ret(0)>>)>>) }
==============================================================================
