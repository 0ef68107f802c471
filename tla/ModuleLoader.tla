---------------------------- MODULE ModuleLoader ----------------------------
(***************************************************************************)
(* CatVM::load_module: the module asked for and everything it imports are  *)
(* parsed, then linked in passes over the modules this call has parsed:    *)
(* imports, parents and own fields of types, field layouts, the types a    *)
(* module uses, function signatures, module objects, orders.  Each pass    *)
(* needs the one before it to be complete for every module.                *)
(*                                                                         *)
(* Loading runs on one thread; what is nondeterministic is the order of    *)
(* the unordered containers, the program, and the sequence of calls, of    *)
(* which some fail half-way (return nullptr) and leave what they did.      *)
(***************************************************************************)
EXTENDS Naturals, Sequences, SequencesExt

CONSTANTS
  Modules, Types, FieldNames,
  home,          \* the module that defines each type
  const_values,  \* the type a constant names, by the number of the constant
  Null,
  Sources,       \* the programs considered
  MaxCalls       \* bound: calls of load_module

(***************************************************************************)
(* What the parser makes of a program.  A reference to a type is a pair:   *)
(* an index into the imports of the module and a name to look up there.    *)
(* In the text the name is the number of a constant, here a string of      *)
(* digits; parse_type_define replaces it by the string the constant holds. *)
(***************************************************************************)
ConstNumbers == DOMAIN const_values
TypeInfo == [import_index : Nat \ {0}, type_name : Types]
UsingInfo == [import_index : Nat \ {0}, number : ConstNumbers]
FunctionInfo == [return_type_info : Nat, argument_type_infos : Seq(Nat)]   \* 0: a primitive type
FieldInfo == [field_name : FieldNames, user_def_type : TypeInfo \cup {Null}]   \* Null: a primitive type

\* Indexes are not checked: one that is out of range reads past the end of a
\* vector, so programs have none.
Imported(s, m, info) == info.import_index \in DOMAIN s.import_module_names[m]

IsSource(s) ==
  /\ s.import_module_names \in [Modules -> Seq(Modules)]
  /\ s.parent_info \in [Types -> TypeInfo \cup {Null}]
  /\ s.field_infos \in [Types -> Seq(FieldInfo)]
  /\ s.using_type_infos \in [Modules -> Seq(UsingInfo)]
  /\ s.functions \in [Modules -> Seq(FunctionInfo)]          \* types by using-type index
  /\ s.set_field_types \in [Modules -> SUBSET (Nat \ {0})]  \* using-type indexes of set_field orders
  /\ s.broken \subseteq Modules                             \* does not parse
  /\ \A t \in Types :
       /\ s.parent_info[t] # Null => Imported(s, home[t], s.parent_info[t])
       /\ \A f \in Range(s.field_infos[t]) :
            f.user_def_type # Null => Imported(s, home[t], f.user_def_type)
  /\ \A m \in Modules : \A info \in Range(s.using_type_infos[m]) : Imported(s, m, info)
  /\ \A m \in Modules : \A f \in Range(s.functions[m]) :
       {f.return_type_info} \cup Range(f.argument_type_infos)
         \subseteq {0} \cup DOMAIN s.using_type_infos[m]

ASSUME HomeAssumption == home \in [Types -> Modules]
\* No type is named like a number.
ASSUME ConstAssumption == const_values \in [ConstNumbers -> Types] /\ ConstNumbers \cap Types = {}
ASSUME NullAssumption == Null \notin Modules \cup Types \cup TypeInfo \cup {"primitive"}
ASSUME SourceAssumption == \A s \in Sources : IsSource(s)
ASSUME CallsAssumption == MaxCalls \in Nat

VARIABLES
  source,                 \* the program text, never changed
  pre_loaded_module_map,  \* the modules whose text the machine has
  loaded_module_map,
  import_modules, parent, add_fields, all_fields,
  reference_fields,       \* the set of positions of reference fields; none before the layout
  using_types,
  signatures,             \* return_type and argument_types of the functions
  module_fields,          \* length of the module object; Null when there is none
  linked,                 \* modules whose orders are linked
  \* load_module: where it is and its locals
  pc, target_module, pre_load_modules, loaded, todo, type, current_type, parents,
  result, calls

typeVars == <<parent, add_fields, all_fields, reference_fields>>
moduleVars == <<import_modules, using_types, signatures, module_fields, linked>>
mapVars == <<source, pre_loaded_module_map, loaded_module_map>>
callVars == <<target_module, pre_load_modules, loaded, result, calls>>
walkVars == <<type, current_type, parents>>
vars == <<typeVars, moduleVars, mapVars, callVars, walkVars, pc, todo>>

Init ==
  /\ source \in Sources
  /\ pre_loaded_module_map \in SUBSET Modules
  /\ loaded_module_map = {}
  /\ import_modules = [m \in Modules |-> <<>>]
  /\ parent = [t \in Types |-> Null]
  /\ add_fields = [t \in Types |-> <<>>]
  /\ all_fields = [t \in Types |-> <<>>]
  /\ reference_fields = [t \in Types |-> {}]
  /\ using_types = [m \in Modules |-> <<>>]
  /\ signatures = [m \in Modules |-> [n \in DOMAIN source.functions[m] |->
                                      [return_type |-> Null, argument_types |-> <<>>]]]
  /\ module_fields = [m \in Modules |-> Null]
  /\ linked = {}
  /\ pc = "idle"
  /\ target_module = Null
  /\ pre_load_modules = {} /\ loaded = {} /\ todo = {}
  /\ type = Null /\ current_type = Null /\ parents = <<>>
  /\ result = Null
  /\ calls = 0

-----------------------------------------------------------------------------
PreLoadModule(m) ==
  /\ pc = "idle"
  /\ m \notin pre_loaded_module_map
  /\ pre_loaded_module_map' = pre_loaded_module_map \cup {m}
  /\ UNCHANGED <<typeVars, moduleVars, source, loaded_module_map, callVars, walkVars, pc, todo>>

\* A look into either map finds what was put there, or nothing.
GetModule(m) == IF m \in loaded_module_map THEN m ELSE Null
GetPreLoadedModule(m) == IF m \in pre_loaded_module_map THEN m ELSE Null

CallLoad(m) ==
  /\ pc = "idle"
  /\ calls < MaxCalls
  /\ calls' = calls + 1
  /\ pc' = "fetch"
  /\ target_module' = Null
  /\ pre_load_modules' = {m}
  /\ loaded' = {}
  /\ result' = Null
  /\ UNCHANGED <<typeVars, moduleVars, mapVars, walkVars, todo>>

\* Fault: a call that fails returns the module it was parsing.
ReturnTarget == pc' = "idle" /\ result' = target_module

\* return nullptr
ReturnNull == pc' = "idle" /\ result' = Null
Crash == pc' = "crashed" /\ UNCHANGED result

\* Fault: a module that is there already is parsed once more.
FetchModuleAgain(m) ==
  /\ pc = "fetch"
  /\ m \in pre_load_modules
  /\ IF GetPreLoadedModule(m) = Null
     THEN /\ ReturnNull
          /\ UNCHANGED <<pre_load_modules, target_module, loaded, loaded_module_map>>
     ELSE IF m \in source.broken
     THEN /\ Crash
          /\ UNCHANGED <<pre_load_modules, target_module, loaded, loaded_module_map>>
     ELSE /\ target_module' = IF target_module = Null THEN m ELSE target_module
          /\ loaded' = loaded \cup {m}
          /\ loaded_module_map' = loaded_module_map \cup {m}
          /\ pre_load_modules' =
               (pre_load_modules \ {m}) \cup Range(source.import_module_names[m])
          /\ UNCHANGED <<pc, result>>
  /\ UNCHANGED <<typeVars, moduleVars, source, pre_loaded_module_map, walkVars, todo, calls>>

\* A name from the set of modules still to parse, whichever begin() is.  A
\* module that does not parse is a null pointer, dereferenced at once.
FetchModule(m) ==
  LET imports == Range(source.import_module_names[m]) IN
  /\ pc = "fetch"
  /\ m \in pre_load_modules
  /\ IF m \in loaded_module_map
     THEN /\ pre_load_modules' = pre_load_modules \ {m}
          /\ UNCHANGED <<pc, result, target_module, loaded, loaded_module_map>>
     ELSE IF GetPreLoadedModule(m) = Null
     THEN /\ ReturnNull
          /\ UNCHANGED <<pre_load_modules, target_module, loaded, loaded_module_map>>
     ELSE IF m \in source.broken
     THEN /\ Crash
          /\ UNCHANGED <<pre_load_modules, target_module, loaded, loaded_module_map>>
     ELSE /\ target_module' = IF target_module = Null THEN m ELSE target_module
          /\ loaded' = loaded \cup {m}
          /\ loaded_module_map' = loaded_module_map \cup {m}
          /\ pre_load_modules' = (pre_load_modules \ {m}) \cup imports
          /\ UNCHANGED <<pc, result>>
  /\ UNCHANGED <<typeVars, moduleVars, source, pre_loaded_module_map, walkVars, todo, calls>>

\* Fault: every module there is gets linked again.
FetchDoneAll ==
  /\ pc = "fetch"
  /\ pre_load_modules = {}
  /\ IF loaded = {} THEN ReturnNull ELSE pc' = "imports" /\ UNCHANGED result
  /\ todo' = loaded_module_map
  /\ UNCHANGED <<typeVars, moduleVars, mapVars, walkVars, target_module, pre_load_modules,
                 loaded, calls>>

\* Everything is parsed.  A call for a module that was there already has
\* nothing to link, and no target to return.
FetchDone ==
  /\ pc = "fetch"
  /\ pre_load_modules = {}
  /\ IF loaded = {} THEN ReturnNull ELSE pc' = "imports" /\ UNCHANGED result
  /\ todo' = loaded
  /\ UNCHANGED <<typeVars, moduleVars, mapVars, walkVars, target_module, pre_load_modules,
                 loaded, calls>>

-----------------------------------------------------------------------------
(***************************************************************************)
(* The passes.                                                             *)
(***************************************************************************)
TypesOf(ms) == {t \in Types : home[t] \in ms}

\* One element of a pass is done, which may end the pass; next is the one
\* after it and work what it has to do.
Advance(x, next, work) ==
  /\ todo' = IF todo = {x} THEN work ELSE todo \ {x}
  /\ pc' = IF todo = {x} THEN next ELSE pc

\* Fault: names are looked up in the first import.
LookupFirst(m, info) ==
  IF info.type_name \in TypesOf({import_modules[m][1]}) THEN info.type_name ELSE Null

\* import_modules[import_index]->type_define_map[name]
Lookup(m, info) ==
  IF info.type_name \in TypesOf({import_modules[m][info.import_index]})
  THEN info.type_name ELSE Null

\* get_module of every name; the first that is missing ends the call.
LinkImports(m) ==
  LET names == source.import_module_names[m]
      found == {k \in DOMAIN names : \A n \in 1 .. k : GetModule(names[n]) # Null}
  IN
  /\ pc = "imports" /\ m \in todo
  /\ import_modules' = [import_modules EXCEPT ![m] = @ \o [k \in found |-> names[k]]]
  /\ IF found = DOMAIN names
     THEN Advance(m, "types", loaded) /\ UNCHANGED result
     ELSE ReturnNull /\ UNCHANGED todo
  /\ UNCHANGED <<typeVars, using_types, signatures, module_fields, linked, mapVars,
                 walkVars, target_module, pre_load_modules, loaded, calls>>

\* The parent and the own fields of every type the module defines.
ParentOf(t) ==
  LET info == source.parent_info[t] IN IF info = Null THEN parent[t] ELSE Lookup(home[t], info)

OwnFields(t) ==
  [k \in DOMAIN source.field_infos[t] |->
     LET info == source.field_infos[t][k] IN
     [name |-> info.field_name,
      type |-> IF info.user_def_type = Null THEN "primitive"
               ELSE Lookup(home[t], info.user_def_type)]]

ResolveTypes(m) ==
  /\ pc = "types" /\ m \in todo
  /\ parent' = [t \in Types |-> IF home[t] = m THEN ParentOf(t) ELSE parent[t]]
  /\ add_fields' =
       [t \in Types |-> IF home[t] = m THEN add_fields[t] \o OwnFields(t) ELSE add_fields[t]]
  /\ IF TypesOf(loaded) = {} THEN Advance(m, "using", loaded)
     ELSE Advance(m, "layout", TypesOf(loaded))
  /\ UNCHANGED <<all_fields, reference_fields, moduleVars, mapVars, callVars, walkVars>>

\* The layout of a type: up its parents, which must not come round ...
BeginLayout(t) ==
  /\ pc = "layout" /\ t \in todo
  /\ type' = t
  /\ current_type' = t
  /\ parents' = <<>>
  /\ pc' = "walk"
  /\ UNCHANGED <<typeVars, moduleVars, mapVars, callVars, todo>>

\* Fault: the parents are left in the order they were found.
WalkParentsUp ==
  /\ pc = "walk"
  /\ IF current_type = Null
     THEN pc' = "flatten" /\ UNCHANGED <<result, current_type, parents>>
     ELSE IF current_type \in Range(parents)
     THEN ReturnNull /\ UNCHANGED <<current_type, parents>>
     ELSE /\ parents' = Append(parents, current_type)
          /\ current_type' = parent[current_type]
          /\ UNCHANGED <<pc, result>>
  /\ UNCHANGED <<typeVars, moduleVars, mapVars, target_module, pre_load_modules, loaded,
                 calls, todo, type>>

WalkParents ==
  /\ pc = "walk"
  /\ IF current_type = Null
     THEN pc' = "flatten" /\ UNCHANGED <<result, current_type, parents>>
     ELSE IF current_type \in Range(parents)
     THEN ReturnNull /\ UNCHANGED <<current_type, parents>>
     ELSE /\ parents' = <<current_type>> \o parents
          /\ current_type' = parent[current_type]
          /\ UNCHANGED <<pc, result>>
  /\ UNCHANGED <<typeVars, moduleVars, mapVars, target_module, pre_load_modules, loaded,
                 calls, todo, type>>

\* ... and down again, the fields of the oldest parent first.  A name that
\* is there already ends the call; a field whose type was not found is a
\* null pointer.
InheritedFields == FlattenSeq([k \in DOMAIN parents |-> add_fields[parents[k]]])

FlattenFields ==
  LET fields == InheritedFields
      fresh == {k \in DOMAIN fields : \A a, b \in 1 .. k : a # b => fields[a].name # fields[b].name}
      done == fresh = DOMAIN fields
      wild == \E k \in DOMAIN fields : fields[k].type = Null
  IN
  /\ pc = "flatten"
  /\ all_fields' = [all_fields EXCEPT ![type] = @ \o [k \in fresh |-> fields[k]]]
  /\ IF done /\ ~wild
     THEN /\ reference_fields' = [reference_fields EXCEPT ![type] =
                                    {{k \in DOMAIN fields : fields[k].type # "primitive"}}]
          /\ pc' = IF todo = {type} THEN "using" ELSE "layout"
          /\ todo' = IF todo = {type} THEN loaded ELSE todo \ {type}
          /\ UNCHANGED result
     ELSE /\ IF done THEN Crash ELSE ReturnNull
          /\ UNCHANGED <<reference_fields, todo>>
  /\ UNCHANGED <<parent, add_fields, moduleVars, mapVars, target_module, pre_load_modules,
                 loaded, calls, walkVars>>

\* parse_type keeps the number of the constant as the name of the type, not
\* the string the constant holds.
ParseType(info) == [import_index |-> info.import_index, type_name |-> info.number]

ResolveUsingTypes(m) ==
  LET infos == source.using_type_infos[m] IN
  /\ pc = "using" /\ m \in todo
  /\ using_types' = [using_types EXCEPT ![m] = @ \o [k \in DOMAIN infos |->
                                                     Lookup(m, ParseType(infos[k]))]]
  /\ Advance(m, "functions", loaded)
  /\ UNCHANGED <<typeVars, import_modules, signatures, module_fields, linked, mapVars,
                 callVars, walkVars>>

\* A primitive type, or type#k: a used type, by its index.
TypeOf(m, k) == IF k = 0 THEN "primitive" ELSE using_types[m][k]

\* The return type is assigned, the types of the arguments are appended.
Signature(m, n) ==
  LET f == source.functions[m][n] IN
  [return_type |-> TypeOf(m, f.return_type_info),
   argument_types |-> signatures[m][n].argument_types
                        \o [k \in DOMAIN f.argument_type_infos |->
                              TypeOf(m, f.argument_type_infos[k])]]

ResolveSignatures(m) ==
  /\ pc = "functions" /\ m \in todo
  /\ signatures' = [signatures EXCEPT ![m] = [n \in DOMAIN source.functions[m] |-> Signature(m, n)]]
  /\ Advance(m, "module_fields", loaded)
  /\ UNCHANGED <<typeVars, import_modules, using_types, module_fields, linked, mapVars,
                 callVars, walkVars>>

\* The module object: one cell for every own field of the type that has the
\* name of the module.
CreateModuleObject(m) ==
  /\ pc = "module_fields" /\ m \in todo
  /\ module_fields' =
       IF m \in TypesOf({m}) THEN [module_fields EXCEPT ![m] = Len(add_fields[m])] ELSE module_fields
  /\ Advance(m, "orders", loaded)
  /\ UNCHANGED <<typeVars, import_modules, using_types, signatures, linked, mapVars,
                 callVars, walkVars>>

\* Order::link.  set_field looks its field up in a used type without asking
\* whether the type was found.
LinkOrders(m) ==
  /\ pc = "orders" /\ m \in todo
  /\ IF \E k \in source.set_field_types[m] : using_types[m][k] = Null
     THEN Crash /\ UNCHANGED <<linked, todo>>
     ELSE /\ linked' = linked \cup {m}
          /\ todo' = todo \ {m}
          /\ IF todo = {m} THEN pc' = "idle" /\ result' = target_module
             ELSE UNCHANGED <<pc, result>>
  /\ UNCHANGED <<typeVars, import_modules, using_types, signatures, module_fields, mapVars,
                 target_module, pre_load_modules, loaded, calls, walkVars>>

-----------------------------------------------------------------------------
LoadStep ==
  \/ FetchDone \/ WalkParents \/ FlattenFields
  \/ \E t \in Types : BeginLayout(t)
  \/ \E m \in Modules :
       \/ FetchModule(m) \/ LinkImports(m) \/ ResolveTypes(m)
       \/ ResolveUsingTypes(m) \/ ResolveSignatures(m) \/ CreateModuleObject(m) \/ LinkOrders(m)

Next == LoadStep \/ \E m \in Modules : PreLoadModule(m) \/ CallLoad(m)

Spec == Init /\ [][Next]_vars

\* A call of load_module keeps running.
FairSpec == Spec /\ WF_vars(LoadStep)

-----------------------------------------------------------------------------
\* An import index means the module the program says, in whichever call and
\* order the modules were loaded and whichever calls failed: no module is
\* linked twice.
ImportsInOrder ==
  \A m \in Modules : IsPrefix(import_modules[m], source.import_module_names[m])

\* What the program says of a type, read without the loader.
DeclaredParent(t) ==
  LET info == source.parent_info[t]
      from == source.import_module_names[home[t]]
  IN IF info = Null THEN Null
     ELSE IF from[info.import_index] = home[info.type_name] THEN info.type_name ELSE Null

DeclaredNames(t) == [k \in DOMAIN source.field_infos[t] |-> source.field_infos[t][k].field_name]
Names(fields) == [k \in DOMAIN fields |-> fields[k].name]
LaidOut(t) == reference_fields[t] # {}

\* An object of a type can be used as one of its parent: the layout is the
\* parent's layout followed by the fields the type declares, no name twice.
\* The field index an order is linked with is then the same for both.
LayoutExtendsParent ==
  \A t \in Types :
    LET p == DeclaredParent(t)
        base == IF p = Null THEN <<>> ELSE Names(all_fields[p])
    IN (LaidOut(t) /\ (p # Null => LaidOut(p))) =>
         /\ Names(all_fields[t]) = base \o DeclaredNames(t)
         /\ IsInjective(Names(all_fields[t]))

\* The types of a function are the ones its text lists, each once: the used
\* type an index stands for, as it is after linking, or a primitive.
SignaturesResolved(m) ==
  \A n \in DOMAIN source.functions[m] :
    LET f == source.functions[m][n]
        type_of(k) == IF k = 0 THEN "primitive" ELSE using_types[m][k]
    IN /\ signatures[m][n].return_type = type_of(f.return_type_info)
       /\ signatures[m][n].argument_types =
            [k \in DOMAIN f.argument_type_infos |-> type_of(f.argument_type_infos[k])]

\* A module that load_module returns is complete: it and the modules parsed
\* with it are linked, their types are laid out, their functions have the
\* types the text lists, and what they import is loaded.
SuccessIsComplete ==
  (pc = "idle" /\ result # Null) =>
    /\ result \in loaded
    /\ loaded \subseteq linked
    /\ \A t \in TypesOf(loaded) : LaidOut(t)
    /\ \A m \in loaded : SignaturesResolved(m)
    /\ \A m \in loaded : Range(source.import_module_names[m]) \subseteq loaded_module_map

\* load_module runs into a null pointer for three reasons, each of them in the
\* text and there before linking begins: a module that does not parse, a field
\* of a type that is not where it is looked for, and set_field, whose type is
\* never found.  Linking adds none of its own.
CrashHasCause ==
  pc = "crashed" =>
    \/ source.broken \cap pre_load_modules # {}
    \/ \E t \in Types : \E k \in DOMAIN source.field_infos[t] :
         LET info == source.field_infos[t][k].user_def_type IN
         info # Null /\ source.import_module_names[home[t]][info.import_index] # home[info.type_name]
    \/ \E m \in loaded : source.set_field_types[m] # {}

\* load_module ends, also for imports that form a circle and for types that
\* are their own ancestors.
LoadEnds == (pc = "fetch") ~> (pc \in {"idle", "crashed"})

\* The sample program in CatLa.cpp declares the types it uses by the number
\* of the constant that holds their name, as it does in its type definitions:
\* once loaded, a used type is the type of that name.
UsingTypesResolve ==
  (pc = "idle" /\ result # Null) =>
    \A m \in loaded : \A k \in DOMAIN using_types[m] :
      using_types[m][k] = const_values[source.using_type_infos[m][k].number]
=============================================================================
