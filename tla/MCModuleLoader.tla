--------------------------- MODULE MCModuleLoader ---------------------------
(***************************************************************************)
(* Small programs for ModuleLoader: module A defines A (the type of its    *)
(* module object) and T, module B defines U.  Every choice of parents is   *)
(* there, circles included; field names may clash along a chain of parents *)
(* and a field may be of a type that is not found.                         *)
(***************************************************************************)
EXTENDS ModuleLoader

MCModules == {"A", "B"}
MCTypes == {"A", "T", "U"}
MCHome == [t \in MCTypes |-> IF t = "U" THEN "B" ELSE "A"]
MCConst == [n \in {"4"} |-> "T"]

\* The modules import each other and themselves, in different orders; or B
\* imports only itself.
ImportChoices ==
  { [A |-> <<"A", "B">>, B |-> <<"B", "A">>],
    [A |-> <<"B", "A">>, B |-> <<"B">>] }

Indexes(imports, m, from) == {k \in DOMAIN imports[m] : imports[m][k] = from}

\* References to type t that module m can make.
RefTo(imports, m, t) ==
  {[import_index |-> k, type_name |-> t] : k \in Indexes(imports, m, MCHome[t])}

Parents(imports, t) == {Null} \cup UNION {RefTo(imports, MCHome[t], u) : u \in MCTypes}

ParentChoices(imports) ==
  {[A |-> a, T |-> t, U |-> u] :
     a \in Parents(imports, "A"), t \in Parents(imports, "T"), u \in Parents(imports, "U")}

Field(f, info) == [field_name |-> f, user_def_type |-> info]

FieldChoices(imports) ==
  LET own == CHOOSE r \in RefTo(imports, "A", "T") : TRUE
      lost == [own EXCEPT !.type_name = "U"]
  IN { [A |-> a, T |-> <<Field("x", Null)>>, U |-> u] :
         a \in {<<>>, <<Field("y", own)>>, <<Field("y", lost)>>},
         u \in {<<>>, <<Field("x", Null)>>, <<Field("z", Null), Field("w", Null)>>} }

Program(imports, parent_info, field_infos, set_field_types, broken) ==
  [import_module_names |-> imports,
   parent_info |-> parent_info,
   field_infos |-> field_infos,
   using_type_infos |->
     [m \in MCModules |->
        IF m = "A" THEN <<[import_index |-> CHOOSE k \in Indexes(imports, "A", "A") : TRUE,
                          number |-> "4"]>>
        ELSE <<>>],
   functions |-> [m \in MCModules |->
     IF m = "A" THEN <<[return_type_info |-> 1, argument_type_infos |-> <<0, 1>>],
                       [return_type_info |-> 0, argument_type_infos |-> <<>>]>>
     ELSE <<[return_type_info |-> 0, argument_type_infos |-> <<0>>]>>],
   set_field_types |-> [m \in MCModules |-> IF m = "A" THEN set_field_types ELSE {}],
   broken |-> broken]

\* Programs that parse and hold no set_field order, and without parents and
\* fields also the others.
MCSources ==
  UNION { { Program(imports, p, f, {}, {}) :
              p \in ParentChoices(imports), f \in FieldChoices(imports) } : imports \in ImportChoices }
  \cup
  { Program(imports, [t \in MCTypes |-> Null], [t \in MCTypes |-> <<>>], o, b) :
      imports \in ImportChoices, o \in {{}, {1}}, b \in {{}, {"B"}} }
=============================================================================
