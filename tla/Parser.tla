------------------------------- MODULE Parser -------------------------------
(***************************************************************************)
(* parser::parse: the text of a module, read line by line, becomes the     *)
(* tables of a Module.  Five nested readers share one position: parse at   *)
(* the top, one reader for each kind of section, parse_label_blocks in a   *)
(* function, parse_orders in a block.  Each goes on until it meets its own *)
(* closing line or the end of the text, and hands the rest to its caller.  *)
(*                                                                         *)
(* A line is a record of what the regular expressions see of it: its kind  *)
(* and the groups they capture.  Lines are chosen as they are read; code   *)
(* keeps them.  The text has as many bytes after the # of a constant as    *)
(* the constant says, and numbers that a regular expression has taken fit  *)
(* into size_t.                                                            *)
(*                                                                         *)
(* A text is taken, refused with a ParseException, refused with another    *)
(* exception, which nobody catches, or makes the parser read memory that   *)
(* is not its own; after that nothing is known and the model stops.        *)
(***************************************************************************)
EXTENDS Integers, Sequences, SequencesExt, FiniteSetsExt

CONSTANTS
  name,      \* the name of the module being parsed
  Lines,     \* for each kind of text its lines, by the reader that meets them
  MaxLines,  \* bound: lines of a text, for each kind
  SizeMax,   \* the largest size_t
  MaxEntries \* the longest table there is memory for

Keywords == {"$const", "$import", "$typedef", "$type", "$function"}
Readers == {"top", "orders", "labels"} \cup Keywords

ASSUME LinesAssumption == \A k \in DOMAIN Lines : DOMAIN Lines[k] = Readers
\* What the regular expressions capture of a line of each kind.
LineOK(line) ==
  /\ line.kind # "eof"
  /\ line.kind \in {"const", "import", "type", "function"} => line.index \in 0 .. SizeMax
  /\ line.kind = "const" => line.byte_size \in 0 .. SizeMax
  /\ line.kind = "import" => line.target \in {"this", "const", "other"}
  /\ line.kind = "typedef" => /\ line.parent \in Seq(Range(line.parent))
                              /\ line.fields \in Seq(Range(line.fields))
  /\ line.kind \in {"function", "order"} => line.args \in Seq(Range(line.args))
  /\ line.kind = "function" =>
       \A a \in Range(line.args) : a.kind = "argument" => a.index \in 0 .. SizeMax
ASSUME LineAssumption ==
  \A k \in DOMAIN Lines, r \in Readers : \A line \in Lines[k][r] : LineOK(line)
ASSUME SizeAssumption == SizeMax \in Nat /\ MaxEntries \in Nat /\ MaxEntries <= SizeMax
ASSUME MaxLinesAssumption == \A k \in DOMAIN Lines : MaxLines[k] \in Nat

\* The end of the text, after a line that ends in a newline or one that does not.
EndOfText == {[kind |-> "eof", newline |-> b] : b \in BOOLEAN}

VARIABLES
  kind,         \* the kind of text
  code,         \* the lines read
  ended,        \* the end of the text, once it is reached
  reader,       \* the innermost reader, "" when parse has returned
  const_values, import_module_names, type_defines, using_types, functions,
  map,          \* the map of the section reader, by index
  function,     \* the function being read: its index, name and argument types
  label_blocks, label_name, orders,
  result

tables == <<const_values, import_module_names, type_defines, using_types, functions>>
body == <<function, label_blocks, label_name, orders>>
vars == <<kind, code, ended, reader, tables, map, body, result>>

Results == {"parsing", "module", "nullptr", "terminated", "wild"}
NoTable == <<>>
NoName == ""
Brace == "}"   \* the line that closes a function

Init ==
  /\ kind \in DOMAIN Lines
  /\ code = <<>>
  /\ ended = {}
  /\ reader = "top"
  /\ const_values = NoTable /\ import_module_names = NoTable /\ using_types = NoTable
  /\ functions = NoTable /\ type_defines = <<>>
  /\ map = NoTable
  /\ function = NoTable /\ label_blocks = <<>> /\ label_name = "" /\ orders = <<>>
  /\ result = "parsing"

-----------------------------------------------------------------------------
\* move_until_next_line
ReadLine(line) ==
  /\ IF line \in EndOfText THEN UNCHANGED code
     ELSE Len(code) < MaxLines[kind] /\ code' = Append(code, line)
  /\ ended = {} \/ ended = {line}
  /\ ended' = {line} \cap EndOfText
  /\ UNCHANGED kind

\* Fault: the closing line of one reader closes any other too.
ClosesAny(line, mark) == line.kind \in {"}", "$end", "eof"}

Closes(line, mark) == line.kind \in {mark, "eof"}

Return(outcome) == reader' = "" /\ result' = outcome
GoOn(next) == reader' = next /\ UNCHANGED result

\* The first thing that goes wrong decides.
FirstFailure(outcomes) ==
  LET wrong == {k \in DOMAIN outcomes : outcomes[k] # "ok"}
  IN IF wrong = {} THEN "ok" ELSE outcomes[Min(wrong)]

\* Fault: an entry that is there already stays.
PutFirst(table, index, value) ==
  IF index \in DOMAIN table THEN table
  ELSE [i \in DOMAIN table \cup {index} |-> IF i = index THEN value ELSE table[i]]

\* map[index] = value
Put(table, index, value) ==
  [i \in DOMAIN table \cup {index} |-> IF i = index THEN value ELSE table[i]]

\* max_index + 1, and 0 for no entries at all: the index SizeMax wraps.
Length(table) == IF SizeMax \in DOMAIN table THEN 0 ELSE Max(DOMAIN table \cup {-1}) + 1

\* Every index of the table has been given.
NoGap(table) == \A i \in 0 .. Length(table) - 1 : i \in DOMAIN table

\* What the loop over the indexes copies.
Table(entries) == [i \in 0 .. Length(entries) - 1 |-> entries[i]]

\* A vector of that length is made before the loop over it refuses a gap;
\* bad_alloc and length_error are nobody's.
VectorOutcome(entries) ==
  IF Length(entries) <= MaxEntries THEN IF NoGap(entries) THEN "ok" ELSE "nullptr"
  ELSE "terminated"

\* get_const_value_as_string does not look at the length of the table, which
\* is a null pointer before the section of constants, nor at the type: of a
\* number, 8 bytes, it takes as many bytes as the text of the number has.
SizeOfNumber == 8
Readable(constant) == constant.type = "s" \/ constant.byte_size <= SizeOfNumber
ConstFound(n) == IF n \in DOMAIN const_values /\ Readable(const_values[n]) THEN "ok" ELSE "wild"
ConstString(n) == IF const_values[n].type = "s" THEN const_values[n].value ELSE "bytes"

\* parse_primitive_type; type#k needs no look-up
TypeFound(t) == IF t = "unknown" THEN "nullptr" ELSE "ok"

-----------------------------------------------------------------------------
(***************************************************************************)
(* parse: lines between sections are passed over.                          *)
(***************************************************************************)
Parse(line) ==
  /\ reader = "top"
  /\ CASE line.kind \in Keywords -> GoOn(line.kind) /\ map' = NoTable
       [] line.kind = "eof" -> Return("module") /\ UNCHANGED map
       [] OTHER -> UNCHANGED <<reader, result, map>>
  /\ type_defines' = IF line.kind = "$typedef" THEN <<>> ELSE type_defines
  /\ UNCHANGED <<const_values, import_module_names, using_types, functions, body>>

\* A line of a section with numbered entries.
Entry(line, entry, outcome, value) ==
  CASE line.kind = "blank" -> UNCHANGED <<reader, result, map>>
    [] line.kind = entry ->
         IF outcome = "ok"
         THEN map' = Put(map, line.index, value) /\ UNCHANGED <<reader, result>>
         ELSE Return(outcome) /\ UNCHANGED map
    [] OTHER -> Return("nullptr") /\ UNCHANGED map

\* A numbered section is over: its map becomes the table.
CloseTable(table, outcomes) ==
  /\ \E outcome \in outcomes :
       IF outcome = "ok" THEN GoOn("top") /\ table' = Table(map)
       ELSE Return(outcome) /\ UNCHANGED table
  /\ UNCHANGED map

\* calloc is not asked whether it succeeded, and the product that is its
\* argument wraps: entries are written through a null pointer or past the end
\* of what there is, unless the first gap comes before that.
CallocOutcomes(entries) ==
  IF Length(entries) <= MaxEntries THEN {VectorOutcome(entries)}
  ELSE {o \in {"wild", "nullptr"} : IF o = "wild" THEN 0 \in DOMAIN entries ELSE ~NoGap(entries)}

\* stoll and stod refuse with exceptions of their own.
ConstOutcome(line) ==
  CASE line.type = "s" -> "ok"
    [] line.type \in {"i", "f"} -> IF line.value = "no number" THEN "terminated" ELSE "ok"
    [] OTHER -> "nullptr"

\* Fault: past a value the position moves on by two.
RunsOffByTwo(line) == line.kind = "eof" /\ code # <<>> /\ Last(code).kind = "const"

\* Past a value the position moves on by one, over a newline or over the end.
RunsOff(line) ==
  line.kind = "eof" /\ ~line.newline /\ code # <<>> /\ Last(code).kind = "const"

ConstValue(line) == [byte_size |-> line.byte_size, type |-> line.type, value |-> line.value]

ParseConst(line) ==
  /\ reader = "$const"
  /\ IF ~Closes(line, "$end")
     THEN /\ Entry(line, "const", ConstOutcome(line), ConstValue(line))
          /\ UNCHANGED const_values
     ELSE IF RunsOff(line) THEN Return("wild") /\ UNCHANGED <<map, const_values>>
     ELSE CloseTable(const_values, CallocOutcomes(map))
  /\ UNCHANGED <<import_module_names, type_defines, using_types, functions, body>>

\* i:this, i:const#n; any other target leaves the name empty.
ImportOutcome(line) == IF line.target = "const" THEN ConstFound(line.number) ELSE "ok"
ImportName(line) ==
  CASE line.target = "this" -> name
    [] line.target = "const" -> ConstString(line.number)
    [] OTHER -> NoName

ParseImport(line) ==
  /\ reader = "$import"
  /\ IF ~Closes(line, "$end")
     THEN Entry(line, "import", ImportOutcome(line), ImportName(line))
          /\ UNCHANGED import_module_names
     ELSE CloseTable(import_module_names, {VectorOutcome(map)})
  /\ UNCHANGED <<const_values, type_defines, using_types, functions, body>>

\* The name of a used type is the number as it is written.
ParseType(line) ==
  /\ reader = "$type"
  /\ IF ~Closes(line, "$end")
     THEN Entry(line, "type", "ok",
                [import_index |-> line.import_index, type_name |-> line.number])
          /\ UNCHANGED using_types
     ELSE CloseTable(using_types, {VectorOutcome(map)})
  /\ UNCHANGED <<const_values, import_module_names, type_defines, functions, body>>

-----------------------------------------------------------------------------
(***************************************************************************)
(* parse_type_define: types are not numbered.  The name of a type, of its  *)
(* parent and of the type of a field are strings of constants; the name of *)
(* a field stays the number it is written as.  () is one empty field,      *)
(* which no field may be.                                                  *)
(***************************************************************************)
FieldOutcome(field) ==
  CASE field.kind = "primitive" -> TypeFound(field.type)
    [] field.kind = "user" -> ConstFound(field.type_name)
    [] OTHER -> "nullptr"

FieldName(field) == field.number

FieldInfo(field) ==
  [field_name |-> FieldName(field),
   type_name |-> IF field.kind = "user" THEN ConstString(field.type_name) ELSE NoName]

TypeOutcome(line) ==
  FirstFailure(<<ConstFound(line.number)>>
               \o [k \in DOMAIN line.parent |-> ConstFound(line.parent[k])]
               \o (IF line.fields = <<>> THEN <<"nullptr">>
                   ELSE [k \in DOMAIN line.fields |-> FieldOutcome(line.fields[k])]))

NewType(line) ==
  [name |-> ConstString(line.number),
   parent |-> [k \in DOMAIN line.parent |-> ConstString(line.parent[k])],
   fields |-> [k \in DOMAIN line.fields |-> FieldInfo(line.fields[k])]]

ParseTypeDefine(line) ==
  /\ reader = "$typedef"
  /\ CASE Closes(line, "$end") -> GoOn("top") /\ UNCHANGED type_defines
       [] line.kind = "blank" -> UNCHANGED <<reader, result, type_defines>>
       [] line.kind = "typedef" ->
            IF TypeOutcome(line) = "ok"
            THEN type_defines' = Append(type_defines, NewType(line))
                 /\ UNCHANGED <<reader, result>>
            ELSE Return(TypeOutcome(line)) /\ UNCHANGED type_defines
       [] OTHER -> Return("nullptr") /\ UNCHANGED type_defines
  /\ UNCHANGED <<const_values, import_module_names, using_types, functions, map, body>>

-----------------------------------------------------------------------------
(***************************************************************************)
(* parse_function: the head of a function, then its blocks.  Arguments are *)
(* numbered like the entries of a section; an empty argument ends them.    *)
(***************************************************************************)
Arguments(line) ==
  LET empty == {k \in DOMAIN line.args : line.args[k].kind = "empty"}
  IN IF empty = {} THEN line.args ELSE SubSeq(line.args, 1, Min(empty) - 1)

ArgumentOutcome(arg) == IF arg.kind = "argument" THEN TypeFound(arg.type) ELSE "nullptr"

\* arg_map: the type the last argument of an index gives
ArgumentTypes(line) ==
  LET args == Arguments(line) IN
  [i \in {args[k].index : k \in DOMAIN args} |->
     args[Max({k \in DOMAIN args : args[k].index = i})].type]

HeadOutcome(line) ==
  FirstFailure(<<ConstFound(line.number)>>
               \o [k \in DOMAIN Arguments(line) |-> ArgumentOutcome(Arguments(line)[k])]
               \o <<TypeFound(line.type)>>)

\* The types of the arguments become a vector last.
FunctionOutcome(line) ==
  IF HeadOutcome(line) = "ok" THEN VectorOutcome(ArgumentTypes(line)) ELSE HeadOutcome(line)

ParseFunction(line) ==
  /\ reader = "$function"
  /\ CASE Closes(line, "$end") -> CloseTable(functions, {VectorOutcome(map)}) /\ UNCHANGED body
       [] line.kind = "blank" -> UNCHANGED <<reader, result, functions, body>>
       [] line.kind = "function" ->
            IF FunctionOutcome(line) = "ok"
            THEN /\ GoOn("labels")
                 /\ function' = [index |-> line.index, name |-> ConstString(line.number),
                                 argument_types |-> Table(ArgumentTypes(line))]
                 /\ label_blocks' = <<>>
                 /\ UNCHANGED <<functions, label_name, orders>>
            ELSE /\ Return(FunctionOutcome(line))
                 /\ UNCHANGED <<functions, body>>
       [] OTHER -> Return("nullptr") /\ UNCHANGED <<functions, body>>
  /\ UNCHANGED <<const_values, import_module_names, type_defines, using_types, map>>

NewFunction ==
  [name |-> function.name, argument_types |-> function.argument_types,
   label_blocks |-> label_blocks]

\* label:end where a block may begin begins a block of that name.
ParseLabelBlocks(line) ==
  /\ reader = "labels"
  /\ CASE Closes(line, Brace) ->
            GoOn("$function") /\ map' = Put(map, function.index, NewFunction)
            /\ UNCHANGED <<label_name, orders>>
       [] line.kind = "label" ->
            GoOn("orders") /\ label_name' = line.name /\ orders' = <<>> /\ UNCHANGED map
       [] line.kind = "blank" -> UNCHANGED <<reader, result, map, label_name, orders>>
       [] OTHER -> Return("nullptr") /\ UNCHANGED <<map, label_name, orders>>
  /\ UNCHANGED <<tables, function, label_blocks>>

-----------------------------------------------------------------------------
(***************************************************************************)
(* parse_order: what each order reads of its arguments, and the number of  *)
(* arguments parse_order asks for before it reads them.                    *)
(***************************************************************************)
OrderNames == {"jump_to", "ret", "set_field", "const", "arg", "iadd"}

Reads(order) ==
  CASE order = "jump_to" -> <<"name">>
    [] order = "ret" -> <<"register">>
    [] order = "set_field" -> <<"register", "register", "bool", "using_type", "const_string">>
    [] order = "const" -> <<"primitive", "stoull">>
    [] order = "arg" -> <<"stoull">>
    [] order = "iadd" -> <<"primitive", "register", "register">>

AskedFor(order) == IF order = "iadd" THEN 2 ELSE Len(Reads(order))

\* The orders that need a register for their result, and the others.
Assigning == {"const", "arg", "iadd"}

\* parse_register_or_variable_number and the readers of other arguments
Accepted(read) ==
  CASE read = "register" -> {"register", "@void"}
    [] read = "bool" -> {"bool"}
    [] read = "using_type" -> {"type", "number"}
    [] read = "const_string" -> {"const", "number"}
    [] read = "primitive" -> {"primitive"}
    [] read = "stoull" -> {"number"}

ArgOutcome(read, arg) ==
  CASE read = "name" -> "ok"
    [] read = "const_string" /\ arg.kind \in Accepted(read) -> ConstFound(arg.number)
    [] read = "stoull" /\ arg.kind \notin Accepted(read) -> "terminated"
    [] OTHER -> IF arg.kind \in Accepted(read) THEN "ok" ELSE "nullptr"

\* An assignment to @void is none.
OrderOutcome(line) ==
  LET reads == Reads(line.name) IN
  IF line.assigned \notin {"none", "register", "@void"} \/ line.name \notin OrderNames
  THEN "nullptr"
  ELSE IF (line.assigned = "register") # (line.name \in Assigning) THEN "nullptr"
  ELSE IF Len(line.args) < AskedFor(line.name) THEN "nullptr"
  ELSE FirstFailure([k \in DOMAIN reads |->
                       IF k > Len(line.args) THEN "wild" ELSE ArgOutcome(reads[k], line.args[k])])

NewOrder(line) ==
  [name |-> line.name, args |-> line.args,
   field_name |-> IF line.name = "set_field" THEN ConstString(line.args[5].number) ELSE NoName]

ParseOrders(line) ==
  /\ reader = "orders"
  /\ CASE line.kind = "eof" \/ (line.kind = "label" /\ line.name = "end") ->
            /\ GoOn("labels")
            /\ label_blocks' = Append(label_blocks, [name |-> label_name, orders |-> orders])
            /\ UNCHANGED orders
       [] line.kind = "blank" -> UNCHANGED <<reader, result, label_blocks, orders>>
       [] line.kind = "order" /\ OrderOutcome(line) = "ok" ->
            orders' = Append(orders, NewOrder(line)) /\ UNCHANGED <<reader, result, label_blocks>>
       [] OTHER ->
            /\ Return(IF line.kind = "order" THEN OrderOutcome(line) ELSE "nullptr")
            /\ UNCHANGED <<label_blocks, orders>>
  /\ UNCHANGED <<tables, map, function, label_name>>

-----------------------------------------------------------------------------
Step(line) ==
  \/ Parse(line) \/ ParseConst(line) \/ ParseImport(line) \/ ParseType(line)
  \/ ParseTypeDefine(line) \/ ParseFunction(line) \/ ParseLabelBlocks(line) \/ ParseOrders(line)

Next ==
  /\ result = "parsing"
  /\ \E line \in Lines[kind][reader] \cup EndOfText : ReadLine(line) /\ Step(line)

Spec == Init /\ [][Next]_vars

-----------------------------------------------------------------------------
(***************************************************************************)
(* What a text says, read off its lines by position.  Sections do not      *)
(* nest, so one goes from its keyword to the next $end.                    *)
(***************************************************************************)
End(p, mark) == Min({q \in p .. Len(code) : code[q].kind = mark} \cup {Len(code) + 1})
Between(p, q, which) == {k \in p + 1 .. q - 1 : code[k].kind = which}

\* The section of a kind that counts for what is at p: the last one before it.
LastSection(keyword, p) == Max({q \in 1 .. p - 1 : code[q].kind = keyword} \cup {0})

\* The line that defines each index of that section: the last one.
Definitions(keyword, entry, p) ==
  LET from == LastSection(keyword, p)
      at == IF from = 0 THEN {} ELSE Between(from, End(from, "$end"), entry)
  IN [i \in {code[k].index : k \in at} |-> Max({k \in at : code[k].index = i})]

Constants(p) == Definitions("$const", "const", p)
Defined(p, n) == n \in DOMAIN Constants(p)
TextOf(p, n) ==
  LET line == code[Constants(p)[n]] IN IF line.type = "s" THEN line.value ELSE "bytes"

\* A table of a module is the text's: no index is left out, and each has what
\* its definition makes of it.
Agrees(table, definitions, Value(_)) ==
  /\ DOMAIN table = DOMAIN definitions
  /\ DOMAIN table = 0 .. Cardinality(DOMAIN table) - 1
  /\ \A i \in DOMAIN table : table[i] = Value(definitions[i])

EndPosition == Len(code) + 1
ConstText(p) ==
  [byte_size |-> code[p].byte_size, type |-> code[p].type, value |-> code[p].value]
ImportText(p) ==
  CASE code[p].target = "this" -> name
    [] code[p].target = "const" -> TextOf(p, code[p].number)
    [] code[p].target = "other" -> NoName
TypeText(p) == [import_index |-> code[p].import_index, type_name |-> code[p].number]

\* The indexes a line gives to entries and arguments.
Indexes(line) ==
  CASE line.kind \in {"const", "import", "type"} -> {line.index}
    [] line.kind = "function" ->
         {line.index} \cup {a.index : a \in {b \in Range(line.args) : b.kind = "argument"}}
    [] OTHER -> {}

\* No index is SizeMax, which makes a table empty.
Unwrapped == \A p \in DOMAIN code : SizeMax \notin Indexes(code[p])

\* Whatever the order of sections and of entries in them, and however often
\* an index or a section is repeated, a module that parse returns has the
\* constants, imports and used types of its text, and names come from the
\* constants that stood before them; unless an index is SizeMax.
TablesFromText ==
  result = "module" /\ Unwrapped =>
    /\ Agrees(const_values, Constants(EndPosition), ConstText)
    /\ Agrees(import_module_names, Definitions("$import", "import", EndPosition), ImportText)
    /\ Agrees(using_types, Definitions("$type", "type", EndPosition), TypeText)

\* The number of elements of S, a set of numbers, up to x.
Rank(S, x) == Cardinality({y \in S : y <= x})

\* The values of f, whose arguments are numbers, in their order.
InOrder(f) ==
  [k \in 1 .. Cardinality(DOMAIN f) |-> f[CHOOSE x \in DOMAIN f : Rank(DOMAIN f, x) = k]]

\* The blocks of the function whose head is at p: of the label lines in its
\* body the first opens a block, the second closes it, and so on, whatever
\* they are called.
Labels(p) == Between(p, End(p, Brace), "label")
Opening(p) == {l \in Labels(p) : Rank(Labels(p), l) % 2 = 1}
BlockEnd(p, l) == Min({m \in Labels(p) : m > l} \cup {End(p, Brace)})

OrderText(p, k) ==
  [name |-> code[k].name, args |-> code[k].args,
   field_name |-> IF code[k].name = "set_field" THEN TextOf(p, code[k].args[5].number)
                  ELSE NoName]
BlockText(p, l) ==
  [name |-> code[l].name,
   orders |-> InOrder([k \in Between(l, BlockEnd(p, l), "order") |-> OrderText(p, k)])]

FunctionText(p) ==
  [name |-> TextOf(p, code[p].number),
   argument_types |-> ArgumentTypes(code[p]),
   label_blocks |-> InOrder([l \in Opening(p) |-> BlockText(p, l)])]

\* The readers of functions, blocks and orders hand the position on to each
\* other: a module has the functions of its text, each with its own blocks and
\* orders in their order, also when the text ends before they are closed.
FunctionsFromText ==
  result = "module" /\ Unwrapped =>
    Agrees(functions, Definitions("$function", "function", EndPosition), FunctionText)

\* The constants a line takes names from.
ConstRefs(line) ==
  CASE line.kind = "import" -> IF line.target = "const" THEN {line.number} ELSE {}
    [] line.kind = "typedef" -> {line.number} \cup Range(line.parent)
         \cup {f.type_name : f \in {g \in Range(line.fields) : g.kind = "user"}}
    [] line.kind = "function" -> {line.number}
    [] line.kind = "order" /\ line.name = "set_field" ->
         {line.args[k].number : k \in {n \in DOMAIN line.args :
            n = 5 /\ line.args[n].kind \in {"const", "number"}}}
    [] OTHER -> {}

Numeric(line) ==
  /\ line.kind = "const" => line.value # "no number"
  /\ line.kind = "order" => \A k \in DOMAIN line.args :
       <<line.name, k>> \in {<<"const", 2>>, <<"arg", 1>>} => line.args[k].kind = "number"

\* Constants stand before what is named by them and are strings, or numbers
\* that are no longer than they are stored; iadd has all its operands; what is
\* read as a number is one; there is memory for as many entries as the indexes
\* ask for; and a newline follows a constant.
Sound ==
  /\ \A p \in DOMAIN code :
       /\ \A n \in ConstRefs(code[p]) : Defined(p, n) /\ Readable(code[Constants(p)[n]])
       /\ \A i \in Indexes(code[p]) : i < MaxEntries
       /\ code[p].kind = "order" /\ code[p].name = "iadd" => Len(code[p].args) > 2
       /\ Numeric(code[p])
  /\ code # <<>> /\ Last(code).kind = "const" => \E e \in ended : e.newline

\* Any other text is taken or refused by parse itself: it reads only what is
\* there and lets no exception out.
SafeOnSoundText == result \in {"wild", "terminated"} => ~Sound
=============================================================================
