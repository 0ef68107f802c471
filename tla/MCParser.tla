------------------------------- MODULE MCParser -------------------------------
(***************************************************************************)
(* The lines for Parser.  Every reader meets its own entries, its closing  *)
(* line, a blank line, a line it cannot read and the keyword of another    *)
(* section.                                                                *)
(***************************************************************************)
EXTENDS Parser

Mark(k) == [kind |-> k]
Common == {Mark("$end"), Mark("blank"), Mark("other"), Mark("$type")}

Const(i, t, v, size) ==
  [kind |-> "const", index |-> i, type |-> t, value |-> v, byte_size |-> size]
Import(i, t, n) == [kind |-> "import", index |-> i, target |-> t, number |-> n]
TypeUse(i, n) == [kind |-> "type", index |-> i, import_index |-> 0, number |-> n]
TypeDef(n, parent, fields) ==
  [kind |-> "typedef", number |-> n, parent |-> parent, fields |-> fields]
Primitive(n, t) == [kind |-> "primitive", number |-> n, type |-> t]
User(n, c) == [kind |-> "user", number |-> n, type_name |-> c]

TableLines ==
  [r \in Readers |->
     CASE r = "top" -> {Mark(k) : k \in {"$const", "$import", "$typedef", "$type", "other"}}
       [] r = "$const" -> Common \cup
            {Const(0, "s", "a", 1), Const(0, "s", "b", 1), Const(1, "s", "a", 1),
             Const(1, "i", "20", 2), Const(1, "i", "1234567890", 10), Const(4, "s", "a", 1),
             Const(0, "i", "no number", 2), Const(0, "x", "a", 1)}
       [] r = "$import" -> Common \cup
            {Import(0, "this", 0), Import(0, "const", 0), Import(1, "const", 1),
             Import(1, "other", 0), Import(4, "this", 0)}
       [] r = "$typedef" -> Common \cup
            {TypeDef(0, <<>>, <<Primitive("0", "i64")>>), TypeDef(0, <<1>>, <<User("0", 0)>>),
             TypeDef(1, <<>>, <<>>), TypeDef(0, <<>>, <<Primitive("1", "unknown")>>)}
       [] r = "$type" -> Common \cup
            {TypeUse(0, "0"), TypeUse(1, "0"), TypeUse(1, "1"), TypeUse(10, "0")}
       [] OTHER -> {}]

Function(i, args) ==
  [kind |-> "function", index |-> i, number |-> 0, args |-> args, type |-> "i64"]
Argument(i, t) == [kind |-> "argument", index |-> i, type |-> t]
Empty == [kind |-> "empty"]
Label(l) == [kind |-> "label", name |-> l]
Order(assigned, order, args) ==
  [kind |-> "order", assigned |-> assigned, name |-> order, args |-> args]
Arg(k) == [kind |-> k]
ConstArg(n) == [kind |-> "const", number |-> n]
NumberArg(n) == [kind |-> "number", number |-> n]

FunctionLines ==
  [r \in Readers |->
     CASE r = "top" -> {Mark("$const"), Mark("$function")}
       [] r = "$const" -> {Const(0, "s", "a", 1), Mark("$end")}
       [] r = "$function" -> {Mark("$end"), Mark("$type")} \cup
            {Function(0, <<Empty>>), Function(1, <<Argument(0, "i64")>>),
             Function(0, <<Argument(1, "i64"), Empty, Argument(0, "i64")>>),
             Function(0, <<Argument(0, "unknown")>>), Function(0, <<Argument(4, "i64")>>),
             Function(4, <<>>)}
       [] r = "labels" -> {Label("entry"), Label("end"), Mark("}"), Mark("$end")}
       [] r = "orders" ->
            {Label("end"), Label("entry"), Mark("}"), Mark("blank"),
             Order("register", "arg", <<Arg("number"), Arg("word")>>),
             Order("register", "arg", <<Arg("word")>>),
             Order("none", "ret", <<Arg("register")>>),
             Order("@void", "ret", <<>>),
             Order("none", "jump_to", <<Arg("word")>>),
             Order("none", "jump_to", <<>>),
             Order("register", "const", <<Arg("primitive"), Arg("number")>>),
             Order("register", "const", <<Arg("register"), Arg("number")>>),
             Order("register", "const", <<Arg("primitive"), Arg("word"), Arg("number")>>),
             Order("@void", "const", <<Arg("primitive"), Arg("number")>>),
             Order("register", "get_field", <<Arg("register")>>),
             Order("register", "iadd", <<Arg("primitive"), Arg("register"), Arg("@void")>>),
             Order("register", "iadd", <<Arg("primitive"), Arg("register")>>)}
            \cup {Order("none", "set_field", <<Arg("register"), Arg("register"), Arg("bool"),
                                              Arg("type"), ConstArg(n)>>) : n \in {0, 1}}
            \cup {Order("none", "set_field", <<Arg("register"), Arg("register"), Arg("word"),
                                              Arg("type"), ConstArg(0)>>),
                  Order("none", "set_field", <<Arg("register"), Arg("register"), Arg("bool"),
                                              Arg("type")>>),
                  Order("none", "set_field", <<Arg("register"), Arg("register"), Arg("bool"),
                                              Arg("number"), NumberArg(1)>>)}
       [] OTHER -> {}]

TextLines == <<TableLines, FunctionLines>>
TextLengths == <<7, 11>>
=============================================================================
