------------------------- MODULE ModuleLoaderProofs -------------------------
(***************************************************************************)
(* What load_module promises, for any number of modules and types, any     *)
(* programs and any sequence of calls: imports are linked once and in      *)
(* order, a layout extends the layout of the parent, a module that is      *)
(* returned is complete, and a crash has its cause in the text.            *)
(*                                                                         *)
(* What the invariant adds to the properties is where each pass is: which  *)
(* modules it has still to reach (nothing is filled in yet), and that the  *)
(* ones behind it have what the program declares.  Calls that failed leave *)
(* their modules in between for good, and no later pass touches those.     *)
(***************************************************************************)
EXTENDS ModuleLoader, SequenceTheorems, WellFoundedInduction, TLAPS

(***************************************************************************)
(* The invariant.                                                          *)
(***************************************************************************)
ModulePasses == {"imports", "types", "using", "functions", "module_fields", "orders"}
LayoutPass == {"layout", "walk", "flatten"}
LaidPasses == {"using", "functions", "module_fields", "orders"}
Passes == ModulePasses \cup LayoutPass

names == source.import_module_names
FieldDescs == [name : FieldNames, type : Types \cup {Null, "primitive"}]

\* The values of the variables and what is left of a pass.
LoaderType ==
  /\ source \in Sources
  /\ loaded_module_map \subseteq Modules
  /\ loaded \subseteq loaded_module_map
  /\ pre_load_modules \subseteq Modules
  /\ import_modules \in [Modules -> Seq(Modules)]
  /\ parent \in [Types -> Types \cup {Null}]
  /\ add_fields \in [Types -> Seq(FieldDescs)]
  /\ DOMAIN all_fields = Types
  /\ DOMAIN reference_fields = Types
  /\ pc \in Passes \cup {"idle", "fetch", "crashed"}
  /\ pc \in ModulePasses => todo \subseteq loaded
  /\ pc \in LayoutPass => todo \subseteq TypesOf(loaded)

\* The module that is returned is the first that was parsed; a call that has
\* not ended, or failed, has returned none.
TargetInv ==
  /\ pc \in Passes \cup {"fetch"} => target_module \in loaded \/ (loaded = {} /\ target_module = Null)
  /\ pc \in Passes => loaded # {}
  /\ result # Null => pc = "idle"

\* What a parsed module imports is parsed or going to be.
FetchInv ==
  /\ pc = "fetch" => \A m \in loaded : Range(names[m]) \subseteq loaded_module_map \cup pre_load_modules
  /\ pc \in Passes => \A m \in loaded : Range(names[m]) \subseteq loaded_module_map

\* A module of this call, or of a later one, that a pass has yet to reach.
Ahead(m, passes, pass) ==
  \/ m \notin loaded_module_map
  \/ pc \in passes /\ m \in loaded
  \/ pc = pass /\ m \in todo

Unlinked(m) == Ahead(m, {"fetch"}, "imports")
Unresolved(m) == Ahead(m, {"fetch", "imports"}, "types")

\* Linking a module fills its imports in once.
ImportOnce ==
  \A m \in Modules :
    /\ import_modules[m] \in {<<>>, names[m]}
    /\ Unlinked(m) => import_modules[m] = <<>>

ImportsDone ==
  /\ pc = "imports" => \A m \in loaded \ todo : import_modules[m] = names[m]
  /\ pc \in Passes \ {"imports"} => \A m \in loaded : import_modules[m] = names[m]

\* The fields a type declares, with their types looked up where the program
\* says.
DeclaredType(t, info) ==
  IF info = Null THEN "primitive"
  ELSE IF names[home[t]][info.import_index] = home[info.type_name] THEN info.type_name ELSE Null

DeclaredFields(t) ==
  [k \in DOMAIN source.field_infos[t] |->
     [name |-> source.field_infos[t][k].field_name,
      type |-> DeclaredType(t, source.field_infos[t][k].user_def_type)]]

Resolved(t) == parent[t] = DeclaredParent(t) /\ add_fields[t] = DeclaredFields(t)

\* Resolving a module fills its types in once, from complete imports.
ResolveOnce ==
  \A t \in Types :
    /\ Resolved(t) \/ (parent[t] = Null /\ add_fields[t] = <<>>)
    /\ Unresolved(home[t]) => parent[t] = Null /\ add_fields[t] = <<>>
    /\ parent[t] # Null => home[parent[t]] \in loaded_module_map

ResolveDone ==
  /\ pc = "types" => \A t \in TypesOf(loaded \ todo) : Resolved(t)
  /\ pc \in LayoutPass \cup LaidPasses => \A t \in TypesOf(loaded) : Resolved(t)

\* A chain of parents of types that will not be resolved any more, from some
\* type down to t.
Links(c) == \A k \in 1 .. Len(c) - 1 : parent[c[k + 1]] = c[k]

ChainTo(c, t) ==
  /\ c \in Seq(Types) /\ c # <<>> /\ c[Len(c)] = t
  /\ Links(c)
  /\ \A k \in 1 .. Len(c) : home[c[k]] \in loaded_module_map /\ ~Unresolved(home[c[k]])

FieldsOf(c) == [k \in DOMAIN c |-> add_fields[c[k]]]

\* The parents that have been found, the oldest first.
WalkInv ==
  /\ pc \in {"walk", "flatten"} =>
       /\ type \in todo
       /\ current_type \in Types \cup {Null}
       /\ current_type # Null => home[current_type] \in loaded_module_map
       /\ parents = <<>> => current_type = type
       /\ parents # <<>> => ChainTo(parents, type) /\ current_type = parent[parents[1]]
  /\ pc = "flatten" => current_type = Null

NotLaid(t) ==
  \/ Ahead(home[t], {"fetch", "imports", "types"}, "none")
  \/ pc \in LayoutPass /\ t \in todo

\* A type is laid out once, with the fields of the chain of its parents.
LaidRight(t) ==
  /\ Resolved(t)
  /\ IsInjective(Names(all_fields[t]))
  /\ \E c \in Seq(Types) : /\ ChainTo(c, t) /\ parent[c[1]] = Null
                           /\ all_fields[t] = FlattenSeq(FieldsOf(c))

LayoutOnce ==
  \A t \in Types :
    /\ NotLaid(t) => all_fields[t] = <<>> /\ ~LaidOut(t)
    /\ LaidOut(t) => LaidRight(t)

LayoutDone ==
  /\ pc \in LayoutPass => \A t \in TypesOf(loaded) \ todo : LaidOut(t)
  /\ pc \in LaidPasses => \A t \in TypesOf(loaded) : LaidOut(t)

\* What is returned is linked and laid out, and its imports are loaded.
ReturnsLinked ==
  (pc = "idle" /\ result # Null) =>
    /\ result \in loaded
    /\ loaded \subseteq linked
    /\ \A t \in TypesOf(loaded) : LaidOut(t)
    /\ \A m \in loaded : Range(names[m]) \subseteq loaded_module_map

LinkInv == pc = "orders" => loaded \ todo \subseteq linked

LoaderInv ==
  /\ LoaderType /\ TargetInv /\ FetchInv
  /\ ImportOnce /\ ImportsDone
  /\ ResolveOnce /\ ResolveDone
  /\ WalkInv /\ LayoutOnce /\ LayoutDone /\ LinkInv
  /\ ReturnsLinked /\ CrashHasCause

-----------------------------------------------------------------------------
(***************************************************************************)
(* Sequences.                                                              *)
(***************************************************************************)

\* A set of numbers that is not empty has a least element.
LEMMA LeastNumber ==
  ASSUME NEW S \in SUBSET Nat, S # {}
  PROVE  \E n \in S : \A m \in S : n <= m
  <1> DEFINE less == {ss \in Nat \X Nat : ss[1] < ss[2]}
  <1>1. IsWellFoundedOn(less, Nat)
    BY NatLessThanWellFounded DEF OpToRel
  <1>2. PICK n \in S : \A m \in S : <<m, n>> \notin less
    <2> HIDE DEF less
    <2> QED
      BY <1>1, WFMin
  <1>3. \A m \in S : n <= m
    <2> TAKE m \in S
    <2>1. m < n => <<m, n>> \in less
      OBVIOUS
    <2> HIDE DEF less
    <2> QED
      BY <1>2, <2>1
  <1> QED
    BY <1>3

FlattenStep(s, f, i) == IF i = 1 THEN s[i] ELSE f[i - 1] \o s[i]

\* The recursion in FlattenSeq has a solution.
LEMMA FlattenExists ==
  ASSUME NEW s, NEW n \in Nat
  PROVE  \E f : f = [i \in 1 .. n |-> FlattenStep(s, f, i)]
  <1> DEFINE P(k) == \E f : f = [i \in 1 .. k |-> FlattenStep(s, f, i)]
             Bad == {k \in Nat : ~P(k)}
  <1>1. Bad = {}
    <2> SUFFICES ASSUME Bad # {} PROVE FALSE
      OBVIOUS
    <2>1. PICK k \in Bad : \A m \in Bad : k <= m
      <3> HIDE DEF Bad
      <3>1. Bad \in SUBSET Nat
        BY DEF Bad
      <3> QED
        BY <3>1, LeastNumber
    <2>2. k # 0
      <3>1. P(0)
        <4>1. <<>> = [i \in 1 .. 0 |-> FlattenStep(s, <<>>, i)]
          OBVIOUS
        <4> QED
          BY <4>1
      <3> QED
        BY <2>1, <3>1
    <2>3. P(k - 1)
      <3>1. k - 1 \in Nat /\ ~(k <= k - 1)
        BY <2>1, <2>2
      <3> HIDE DEF P
      <3> QED
        BY <2>1, <3>1
    <2>4. PICK f : f = [i \in 1 .. k - 1 |-> FlattenStep(s, f, i)]
      BY <2>3
    <2> DEFINE g == [i \in 1 .. k |-> IF i = k THEN FlattenStep(s, f, i) ELSE f[i]]
    <2>5. ASSUME NEW i \in 1 .. k PROVE g[i] = FlattenStep(s, g, i)
      <3>1. \A j \in 1 .. k - 1 : f[j] = FlattenStep(s, f, j)
        BY <2>4
      <3>2. i # 1 => i - 1 \in 1 .. k - 1 /\ i - 1 \in 1 .. k /\ i - 1 # k
        BY <2>1
      <3>3. i # k => i \in 1 .. k - 1
        BY <2>1
      <3>4. i # 1 => g[i - 1] = f[i - 1]
        BY <3>2
      <3>5. FlattenStep(s, g, i) = FlattenStep(s, f, i)
        BY <3>4 DEF FlattenStep
      <3> QED
        BY <3>1, <3>3, <3>5
    <2>6. g = [i \in 1 .. k |-> FlattenStep(s, g, i)]
      BY <2>5
    <2> QED
      <3> HIDE DEF g
      <3>1. P(k)
        BY <2>6
      <3> QED
        BY <2>1, <3>1
  <1> QED
    BY <1>1

\* FlattenSeq is the value at the end of any such solution.
LEMMA FlattenValue ==
  ASSUME NEW s, Len(s) \in Nat, Len(s) # 0
  PROVE  \E f : /\ f = [i \in 1 .. Len(s) |-> FlattenStep(s, f, i)]
                /\ FlattenSeq(s) = f[Len(s)]
  <1> DEFINE g == CHOOSE f : f = [i \in 1 .. Len(s) |-> FlattenStep(s, f, i)]
  <1>1. g = [i \in 1 .. Len(s) |-> FlattenStep(s, g, i)]
    <2>1. \E f : f = [i \in 1 .. Len(s) |-> FlattenStep(s, f, i)]
      BY FlattenExists
    <2> QED
      BY <2>1
  <1>2. FlattenSeq(s) = g[Len(s)]
    BY DEF FlattenSeq, FlattenStep
  <1> HIDE DEF g
  <1> QED
    BY <1>1, <1>2

\* FlattenSeq of one sequence more.
LEMMA FlattenAppend ==
  ASSUME NEW s, NEW r, NEW n \in Nat \ {0}, Len(s) = n, Len(r) = n + 1,
         \A i \in 1 .. n : r[i] = s[i]
  PROVE  FlattenSeq(r) = FlattenSeq(s) \o r[n + 1]
  <1>1. PICK f : /\ f = [i \in 1 .. n |-> FlattenStep(s, f, i)]
                 /\ FlattenSeq(s) = f[n]
    BY FlattenValue
  <1>2. PICK g : /\ g = [i \in 1 .. n + 1 |-> FlattenStep(r, g, i)]
                 /\ FlattenSeq(r) = g[n + 1]
    BY FlattenValue
  <1>a. \A i \in 1 .. n : f[i] = FlattenStep(s, f, i)
    BY <1>1
  <1>b. \A i \in 1 .. n + 1 : g[i] = FlattenStep(r, g, i)
    BY <1>2
  <1> DEFINE Differ == {i \in 1 .. n : f[i] # g[i]}
  <1>3. Differ = {}
    <2> SUFFICES ASSUME Differ # {} PROVE FALSE
      OBVIOUS
    <2>1. PICK i \in Differ : \A j \in Differ : i <= j
      <3>1. Differ \in SUBSET Nat
        OBVIOUS
      <3> HIDE DEF Differ
      <3> QED
        BY <3>1, LeastNumber
    <2>2. i \in 1 .. n /\ f[i] = FlattenStep(s, f, i) /\ g[i] = FlattenStep(r, g, i)
      <3>1. i \in 1 .. n /\ i \in 1 .. n + 1
        BY <2>1
      <3> QED
        BY <1>a, <1>b, <3>1
    <2>3. i # 1 => f[i - 1] = g[i - 1]
      BY <2>1
    <2> QED
      BY <2>1, <2>2, <2>3 DEF FlattenStep
  <1>4. f[n] = g[n]
    BY <1>3
  <1>5. g[n + 1] = g[n] \o r[n + 1]
    <2>1. n + 1 \in 1 .. n + 1 /\ n + 1 # 1 /\ (n + 1) - 1 = n
      OBVIOUS
    <2> QED
      BY <1>b, <2>1 DEF FlattenStep
  <1> QED
    BY <1>1, <1>2, <1>4, <1>5

\* FlattenSeq of a single sequence.
LEMMA FlattenOne ==
  ASSUME NEW r, Len(r) = 1
  PROVE  FlattenSeq(r) = r[1]
  <1>1. PICK f : /\ f = [i \in 1 .. 1 |-> FlattenStep(r, f, i)]
                 /\ FlattenSeq(r) = f[1]
    BY FlattenValue
  <1> QED
    BY <1>1 DEF FlattenStep

\* What FlattenSeq returns is a sequence, each of whose elements is one of a
\* sequence it was given.
LEMMA FlattenElements ==
  ASSUME NEW T, NEW s \in Seq(Seq(T)), s # <<>>
  PROVE  /\ FlattenSeq(s) \in Seq(T)
         /\ \A k \in DOMAIN FlattenSeq(s) :
              \E i \in DOMAIN s : \E j \in DOMAIN s[i] : FlattenSeq(s)[k] = s[i][j]
  <1>0. Len(s) \in Nat \ {0} /\ DOMAIN s = 1 .. Len(s) /\ \A i \in 1 .. Len(s) : s[i] \in Seq(T)
    BY ElementOfSeq, EmptySeq
  <1>1. PICK f : /\ f = [i \in 1 .. Len(s) |-> FlattenStep(s, f, i)]
                 /\ FlattenSeq(s) = f[Len(s)]
    BY <1>0, FlattenValue
  <1> DEFINE Good(q) == /\ q \in Seq(T)
                        /\ \A k \in DOMAIN q : \E i \in DOMAIN s : \E j \in DOMAIN s[i] : q[k] = s[i][j]
             Bad == {n \in 1 .. Len(s) : ~Good(f[n])}
  <1>2. ASSUME NEW q, NEW i \in 1 .. Len(s), Good(q) PROVE Good(q \o s[i])
    <2>1. q \in Seq(T) /\ s[i] \in Seq(T)
      BY <1>0, <1>2
    <2>2. /\ q \o s[i] \in Seq(T) /\ Len(q) \in Nat /\ Len(s[i]) \in Nat
          /\ DOMAIN q = 1 .. Len(q) /\ DOMAIN s[i] = 1 .. Len(s[i])
          /\ DOMAIN (q \o s[i]) = 1 .. Len(q) + Len(s[i])
          /\ \A k \in 1 .. Len(q) + Len(s[i]) :
               (q \o s[i])[k] = IF k <= Len(q) THEN q[k] ELSE s[i][k - Len(q)]
      BY <2>1
    <2>3. ASSUME NEW k \in DOMAIN (q \o s[i])
          PROVE  \E m \in DOMAIN s : \E j \in DOMAIN s[m] : (q \o s[i])[k] = s[m][j]
      <3>1. CASE k <= Len(q)
        <4>1. k \in DOMAIN q /\ (q \o s[i])[k] = q[k]
          BY <2>2, <3>1
        <4> QED
          BY <1>2, <4>1
      <3>2. CASE ~(k <= Len(q))
        <4>1. k - Len(q) \in DOMAIN s[i] /\ (q \o s[i])[k] = s[i][k - Len(q)]
          BY <2>2, <3>2
        <4> QED
          BY <1>0, <4>1
      <3> QED
        BY <3>1, <3>2
    <2> QED
      BY <2>2, <2>3
  <1>3. Good(s[1])
    <2>1. 1 \in DOMAIN s /\ s[1] \in Seq(T)
      BY <1>0
    <2> QED
      BY <2>1
  <1>4. Bad = {}
    <2> SUFFICES ASSUME Bad # {} PROVE FALSE
      OBVIOUS
    <2>1. PICK n \in Bad : \A m \in Bad : n <= m
      <3>1. Bad \in SUBSET Nat
        OBVIOUS
      <3> HIDE DEF Bad
      <3> QED
        BY <3>1, LeastNumber
    <2>2. n \in 1 .. Len(s) /\ ~Good(f[n]) /\ f[n] = FlattenStep(s, f, n)
      BY <1>1, <2>1
    <2>3. n # 1 => Good(f[n - 1])
      <3>1. n # 1 => n - 1 \in 1 .. Len(s) /\ n - 1 \notin Bad
        <4> HIDE DEF Good
        <4> QED
          BY <1>0, <2>1, <2>2
      <3> HIDE DEF Good
      <3> QED
        BY <3>1
    <2> HIDE DEF Good
    <2> QED
      BY <1>2, <1>3, <2>2, <2>3 DEF FlattenStep
  <1>5. Good(f[Len(s)])
    <2> HIDE DEF Good
    <2> QED
      BY <1>0, <1>4
  <1>6. Good(FlattenSeq(s))
    <2> HIDE DEF Good
    <2> QED
      BY <1>1, <1>5
  <1> QED
    BY <1>6

-----------------------------------------------------------------------------
(***************************************************************************)
(* Programs.                                                               *)
(***************************************************************************)

\* What SourceAssumption says of the program that is loaded.
LEMMA SourceFacts ==
  ASSUME source \in Sources
  PROVE  /\ names \in [Modules -> Seq(Modules)]
         /\ source.parent_info \in [Types -> TypeInfo \cup {Null}]
         /\ source.field_infos \in [Types -> Seq(FieldInfo)]
         /\ \A t \in Types : source.parent_info[t] # Null =>
              source.parent_info[t].import_index \in DOMAIN names[home[t]]
         /\ home \in [Types -> Modules]
         /\ Null \notin Modules /\ Null \notin Types /\ Null # "primitive"
  <1>1. IsSource(source)
    BY SourceAssumption
  <1> QED
    BY <1>1, HomeAssumption, NullAssumption DEF IsSource, Imported, names

\* A reference to a type names a type.
LEMMA InfoFacts ==
  /\ \A info \in TypeInfo : info.type_name \in Types
  /\ \A f \in FieldInfo : f.field_name \in FieldNames /\ f.user_def_type \in TypeInfo \cup {Null}
  BY DEF TypeInfo, FieldInfo

\* The declared fields are descriptions of fields.
LEMMA DeclaredFieldsType ==
  ASSUME source \in Sources, NEW t \in Types
  PROVE  DeclaredFields(t) \in Seq(FieldDescs)
  <1>1. source.field_infos[t] \in Seq(FieldInfo)
    BY SourceFacts
  <1>2. PICK infos : infos = source.field_infos[t]
    OBVIOUS
  <1>3. /\ Len(infos) \in Nat /\ DOMAIN infos = 1 .. Len(infos)
        /\ \A k \in 1 .. Len(infos) : infos[k] \in FieldInfo
    BY <1>1, <1>2
  <1>4. \A k \in 1 .. Len(infos) :
          /\ infos[k].field_name \in FieldNames
          /\ DeclaredType(t, infos[k].user_def_type) \in Types \cup {Null, "primitive"}
    BY <1>3, InfoFacts DEF DeclaredType
  <1>5. \A k \in 1 .. Len(infos) :
          [name |-> infos[k].field_name, type |-> DeclaredType(t, infos[k].user_def_type)]
            \in FieldDescs
    BY <1>4 DEF FieldDescs
  <1>6. DeclaredFields(t) = [k \in 1 .. Len(infos) |->
          [name |-> infos[k].field_name, type |-> DeclaredType(t, infos[k].user_def_type)]]
    BY <1>2, <1>3 DEF DeclaredFields
  <1> HIDE DEF FieldDescs
  <1> QED
    BY <1>3, <1>5, <1>6, IsASeq

\* What the program declares does not change.
LEMMA DeclaredKept ==
  ASSUME source' = source, NEW t
  PROVE  DeclaredParent(t)' = DeclaredParent(t) /\ DeclaredFields(t)' = DeclaredFields(t)
  BY DEF DeclaredParent, DeclaredFields, DeclaredType, names

-----------------------------------------------------------------------------
(***************************************************************************)
(* Loading goes forward: no step makes a module or a type one that a pass  *)
(* has yet to reach.                                                       *)
(***************************************************************************)
Forward ==
  /\ source' = source
  /\ loaded_module_map \subseteq loaded_module_map'
  /\ \A m \in Modules : (Unlinked(m)' => Unlinked(m)) /\ (Unresolved(m)' => Unresolved(m))
  /\ \A t \in Types : NotLaid(t)' => NotLaid(t)

\* What was linked stays linked.
LEMMA ImportsKept ==
  ASSUME ImportOnce, Forward, import_modules' = import_modules
  PROVE  ImportOnce'
  <1>1. names' = names
    BY DEF Forward, names
  <1> QED
    BY <1>1 DEF ImportOnce, Forward

\* Types that have been passed by do not change.
SettledKept ==
  \A t \in Types :
    (home[t] \in loaded_module_map /\ ~Unresolved(home[t])) =>
      parent'[t] = parent[t] /\ add_fields'[t] = add_fields[t]

\* A layout stays right.
LEMMA LaidKept ==
  ASSUME source \in Sources, Forward, SettledKept,
         NEW t \in Types, LaidRight(t), all_fields'[t] = all_fields[t]
  PROVE  LaidRight(t)'
  <1>1. PICK c \in Seq(Types) : /\ ChainTo(c, t) /\ parent[c[1]] = Null
                                /\ all_fields[t] = FlattenSeq(FieldsOf(c))
    BY DEF LaidRight
  <1>2. /\ Len(c) \in Nat \ {0} /\ DOMAIN c = 1 .. Len(c) /\ c[Len(c)] = t
        /\ \A k \in 1 .. Len(c) : c[k] \in Types
    BY <1>1, EmptySeq, LenProperties, ElementOfSeq DEF ChainTo
  <1>3. \A k \in 1 .. Len(c) : /\ home[c[k]] \in Modules
                               /\ home[c[k]] \in loaded_module_map /\ ~Unresolved(home[c[k]])
    BY <1>1, <1>2, SourceFacts DEF ChainTo
  <1>4. \A k \in 1 .. Len(c) : parent'[c[k]] = parent[c[k]] /\ add_fields'[c[k]] = add_fields[c[k]]
    BY <1>2, <1>3 DEF SettledKept
  <1>5. \A k \in 1 .. Len(c) :
          home[c[k]] \in loaded_module_map' /\ ~Unresolved(home[c[k]])'
    BY <1>3 DEF Forward
  <1>6. Links(c)'
    <2>1. \A k \in 1 .. Len(c) - 1 : k + 1 \in 1 .. Len(c)
      BY <1>2
    <2> QED
      BY <1>1, <1>4, <2>1 DEF ChainTo, Links
  <1>7. ChainTo(c, t)'
    BY <1>1, <1>5, <1>6 DEF ChainTo
  <1>8. parent'[c[1]] = Null
    BY <1>1, <1>2, <1>4
  <1>9. FieldsOf(c)' = FieldsOf(c)
    BY <1>2, <1>4 DEF FieldsOf
  <1>10. all_fields'[t] = FlattenSeq(FieldsOf(c)')
    BY <1>1, <1>9
  <1>11. Resolved(t)'
    <2>1. parent'[t] = parent[t] /\ add_fields'[t] = add_fields[t]
      BY <1>2, <1>4
    <2> QED
      BY <2>1, DeclaredKept DEF LaidRight, Resolved, Forward
  <1>12. IsInjective(Names(all_fields[t]))'
    BY DEF LaidRight
  <1> QED
    BY <1>1, <1>7, <1>8, <1>10, <1>11, <1>12 DEF LaidRight

\* What was resolved and laid out stays so.
LEMMA TypesKept ==
  ASSUME source \in Sources, ResolveOnce, LayoutOnce, Forward, UNCHANGED typeVars
  PROVE  ResolveOnce' /\ LayoutOnce'
  <1>1. UNCHANGED <<parent, add_fields, all_fields, reference_fields>>
    BY DEF typeVars
  <1>2. \A t \in Types : home[t] \in Modules
    BY SourceFacts
  <1>3. \A t : Resolved(t)' <=> Resolved(t)
    BY <1>1, DeclaredKept DEF Resolved, Forward
  <1>4. ResolveOnce'
    BY <1>1, <1>2, <1>3 DEF ResolveOnce, Forward
  <1>5. SettledKept
    BY <1>1 DEF SettledKept
  <1>6. \A t : LaidOut(t)' <=> LaidOut(t)
    BY <1>1 DEF LaidOut
  <1>7. LayoutOnce'
    BY <1>1, <1>5, <1>6, LaidKept DEF LayoutOnce, Forward
  <1> QED
    BY <1>4, <1>7

\* A step that changes neither imports nor types.
LEMMA FrameKept ==
  ASSUME LoaderInv, Forward, UNCHANGED <<parent, add_fields, all_fields, reference_fields>>,
         import_modules' = import_modules
  PROVE  /\ ImportOnce' /\ ResolveOnce' /\ LayoutOnce'
         /\ \A t : (Resolved(t)' <=> Resolved(t)) /\ (LaidOut(t)' <=> LaidOut(t))
         /\ names' = names
  <1>1. source \in Sources /\ ImportOnce /\ ResolveOnce /\ LayoutOnce
    BY DEF LoaderInv, LoaderType
  <1>2. names' = names
    BY DEF Forward, names
  <1>3. \A t : (Resolved(t)' <=> Resolved(t)) /\ (LaidOut(t)' <=> LaidOut(t))
    BY DeclaredKept DEF Resolved, LaidOut, Forward
  <1> QED
    BY <1>1, <1>2, <1>3, ImportsKept, TypesKept DEF typeVars

\* A call that fails leaves what it did.
LEMMA FailInv ==
  ASSUME LoaderInv, pc \in Passes \cup {"fetch"}, pc' \in {"idle", "crashed"}, result' = Null,
         UNCHANGED <<parent, add_fields, all_fields, reference_fields, import_modules,
                     source, loaded_module_map, pre_load_modules, loaded>>,
         CrashHasCause'
  PROVE  LoaderInv'
  <1>1. Forward
    BY DEF Forward, Unlinked, Unresolved, NotLaid, Ahead, LayoutPass
  <1>2. ImportOnce' /\ ResolveOnce' /\ LayoutOnce'
    BY <1>1, FrameKept
  <1>3. LoaderType'
    BY DEF LoaderInv, LoaderType, Passes, ModulePasses, LayoutPass
  <1>4. TargetInv' /\ FetchInv' /\ ImportsDone' /\ LayoutDone' /\ LinkInv'
    BY DEF TargetInv, FetchInv, ImportsDone, LayoutDone, LinkInv, Passes, ModulePasses,
           LayoutPass, LaidPasses
  <1>5. ResolveDone' /\ WalkInv' /\ ReturnsLinked'
    BY DEF ResolveDone, WalkInv, ReturnsLinked, LayoutPass, LaidPasses
  <1> QED
    BY <1>2, <1>3, <1>4, <1>5 DEF LoaderInv

\* Nothing is loaded at first.
LEMMA InitLoaderInv == Init => LoaderInv
  <1> SUFFICES ASSUME Init PROVE LoaderInv
    OBVIOUS
  <1>1. LoaderType
    BY DEF Init, LoaderType, Passes, ModulePasses, LayoutPass
  <1>2. TargetInv /\ FetchInv /\ ImportsDone /\ LayoutDone /\ LinkInv
    BY DEF Init, TargetInv, FetchInv, ImportsDone, LayoutDone, LinkInv, Passes, ModulePasses,
           LayoutPass, LaidPasses
  <1>3. ResolveDone /\ WalkInv /\ ReturnsLinked /\ CrashHasCause
    BY DEF Init, ResolveDone, WalkInv, ReturnsLinked, CrashHasCause, LayoutPass, LaidPasses
  <1>4. ImportOnce /\ ResolveOnce /\ LayoutOnce
    BY DEF Init, ImportOnce, ResolveOnce, LayoutOnce, LaidOut
  <1> QED
    BY <1>1, <1>2, <1>3, <1>4 DEF LoaderInv

\* The text of one more module is there.
LEMMA PreLoadModuleInv ==
  ASSUME LoaderInv, NEW m, PreLoadModule(m)
  PROVE  LoaderInv'
  <1>1. UNCHANGED <<parent, add_fields, all_fields, reference_fields, import_modules, linked,
                    source, loaded_module_map, target_module, pre_load_modules, loaded, result,
                    pc, todo, type, current_type, parents>> /\ pc = "idle"
    BY DEF PreLoadModule, typeVars, moduleVars, callVars, walkVars
  <1>2. Forward
    BY <1>1 DEF Forward, Unlinked, Unresolved, NotLaid, Ahead
  <1>3. /\ ImportOnce' /\ ResolveOnce' /\ LayoutOnce'
        /\ \A t : LaidOut(t)' <=> LaidOut(t)
        /\ names' = names
    BY <1>1, <1>2, FrameKept
  <1>4. LoaderType'
    BY <1>1 DEF LoaderInv, LoaderType, TypesOf
  <1>5. TargetInv' /\ FetchInv' /\ ImportsDone' /\ LayoutDone' /\ LinkInv'
    BY <1>1 DEF TargetInv, FetchInv, ImportsDone, LayoutDone, LinkInv, Passes, ModulePasses,
           LayoutPass, LaidPasses
  <1>6. ResolveDone' /\ WalkInv' /\ CrashHasCause'
    BY <1>1 DEF ResolveDone, WalkInv, CrashHasCause, LayoutPass, LaidPasses
  <1>7. ReturnsLinked'
    BY <1>1, <1>3 DEF LoaderInv, ReturnsLinked, TypesOf
  <1> QED
    BY <1>3, <1>4, <1>5, <1>6, <1>7 DEF LoaderInv

\* A call begins with nothing parsed.
LEMMA CallLoadInv ==
  ASSUME LoaderInv, NEW m \in Modules, CallLoad(m)
  PROVE  LoaderInv'
  <1>1. /\ UNCHANGED <<parent, add_fields, all_fields, reference_fields, import_modules, source,
                       loaded_module_map>>
        /\ pc = "idle" /\ pc' = "fetch" /\ loaded' = {} /\ target_module' = Null
        /\ pre_load_modules' = {m} /\ result' = Null
    BY DEF CallLoad, typeVars, moduleVars, mapVars
  <1>2. Forward
    BY <1>1 DEF Forward, Unlinked, Unresolved, NotLaid, Ahead, LayoutPass
  <1>3. ImportOnce' /\ ResolveOnce' /\ LayoutOnce'
    BY <1>1, <1>2, FrameKept
  <1>4. LoaderType'
    BY <1>1 DEF LoaderInv, LoaderType, Passes, ModulePasses, LayoutPass
  <1>5. TargetInv' /\ FetchInv' /\ ImportsDone' /\ LayoutDone' /\ LinkInv'
    BY <1>1 DEF TargetInv, FetchInv, ImportsDone, LayoutDone, LinkInv, Passes, ModulePasses,
           LayoutPass, LaidPasses
  <1>6. ResolveDone' /\ WalkInv' /\ CrashHasCause' /\ ReturnsLinked'
    BY <1>1 DEF ResolveDone, WalkInv, CrashHasCause, ReturnsLinked, LayoutPass, LaidPasses
  <1> QED
    BY <1>3, <1>4, <1>5, <1>6 DEF LoaderInv

\* One name is taken from the set of modules to parse.
LEMMA FetchModuleInv ==
  ASSUME LoaderInv, NEW m \in Modules, FetchModule(m)
  PROVE  LoaderInv'
  <1>1. /\ UNCHANGED <<parent, add_fields, all_fields, reference_fields, import_modules, source>>
        /\ pc = "fetch" /\ m \in pre_load_modules
    BY DEF FetchModule, typeVars, moduleVars
  <1>r. result = Null
    BY <1>1 DEF LoaderInv, TargetInv
  <1>2. CASE m \in loaded_module_map
    <2>1. /\ pre_load_modules' = pre_load_modules \ {m}
          /\ UNCHANGED <<pc, result, target_module, loaded, loaded_module_map>>
      BY <1>2 DEF FetchModule
    <2>2. Forward
      BY <1>1, <2>1 DEF Forward, Unlinked, Unresolved, NotLaid, Ahead, LayoutPass
    <2>3. ImportOnce' /\ ResolveOnce' /\ LayoutOnce' /\ names' = names
      BY <1>1, <2>2, FrameKept
    <2>4. LoaderType'
      BY <1>1, <2>1 DEF LoaderInv, LoaderType, Passes, ModulePasses, LayoutPass
    <2>5. TargetInv' /\ ImportsDone' /\ LayoutDone' /\ LinkInv'
      BY <1>1, <2>1 DEF LoaderInv, TargetInv, ImportsDone, LayoutDone, LinkInv, Passes,
             ModulePasses, LayoutPass, LaidPasses
    <2>6. ResolveDone' /\ WalkInv' /\ CrashHasCause' /\ ReturnsLinked'
      BY <1>1, <2>1 DEF ResolveDone, WalkInv, CrashHasCause, ReturnsLinked, LayoutPass,
             LaidPasses
    <2>7. FetchInv'
      BY <1>1, <1>2, <2>1, <2>3 DEF LoaderInv, FetchInv, Passes, ModulePasses, LayoutPass
    <2> QED
      BY <2>3, <2>4, <2>5, <2>6, <2>7 DEF LoaderInv
  <1>3. CASE m \notin loaded_module_map /\ GetPreLoadedModule(m) = Null
    <2>1. /\ pc' = "idle" /\ result' = Null
          /\ UNCHANGED <<pre_load_modules, loaded, loaded_module_map>>
      BY <1>3 DEF FetchModule, ReturnNull
    <2>2. CrashHasCause'
      BY <2>1 DEF CrashHasCause
    <2> QED
      BY <1>1, <2>1, <2>2, FailInv
  <1>4. CASE m \notin loaded_module_map /\ GetPreLoadedModule(m) # Null /\ m \in source.broken
    <2>1. /\ pc' = "crashed" /\ result' = Null
          /\ UNCHANGED <<pre_load_modules, loaded, loaded_module_map>>
      BY <1>r, <1>4 DEF FetchModule, Crash
    <2>2. CrashHasCause'
      BY <1>1, <1>4, <2>1 DEF CrashHasCause
    <2> QED
      BY <1>1, <2>1, <2>2, FailInv
  <1>5. CASE m \notin loaded_module_map /\ GetPreLoadedModule(m) # Null /\ m \notin source.broken
    <2>1. /\ target_module' = IF target_module = Null THEN m ELSE target_module
          /\ loaded' = loaded \cup {m}
          /\ loaded_module_map' = loaded_module_map \cup {m}
          /\ pre_load_modules' = (pre_load_modules \ {m}) \cup Range(names[m])
          /\ UNCHANGED <<pc, result>>
      BY <1>5 DEF FetchModule, names
    <2>2. Forward
      BY <1>1, <1>5, <2>1 DEF Forward, Unlinked, Unresolved, NotLaid, Ahead, LayoutPass
    <2>3. ImportOnce' /\ ResolveOnce' /\ LayoutOnce' /\ names' = names
      BY <1>1, <2>2, FrameKept
    <2>4. LoaderType'
      <3>1. Range(names[m]) \subseteq Modules
        <4>1. names[m] \in Seq(Modules)
          BY SourceFacts DEF LoaderInv, LoaderType
        <4> QED
          BY <4>1 DEF Range
      <3> QED
        BY <1>1, <2>1, <3>1 DEF LoaderInv, LoaderType, Passes, ModulePasses, LayoutPass
    <2>5. TargetInv' /\ ImportsDone' /\ LayoutDone' /\ LinkInv'
      BY <1>1, <2>1 DEF LoaderInv, TargetInv, ImportsDone, LayoutDone, LinkInv, Passes,
             ModulePasses, LayoutPass, LaidPasses
    <2>6. ResolveDone' /\ WalkInv' /\ CrashHasCause' /\ ReturnsLinked'
      BY <1>1, <2>1 DEF ResolveDone, WalkInv, CrashHasCause, ReturnsLinked, LayoutPass,
             LaidPasses
    <2>7. FetchInv'
      BY <1>1, <2>1, <2>3 DEF LoaderInv, FetchInv, Passes, ModulePasses, LayoutPass
    <2> QED
      BY <2>3, <2>4, <2>5, <2>6, <2>7 DEF LoaderInv
  <1> QED
    BY <1>2, <1>3, <1>4, <1>5

\* All names are taken: every import of a parsed module is parsed.
LEMMA FetchDoneInv ==
  ASSUME LoaderInv, FetchDone
  PROVE  LoaderInv'
  <1>1. /\ UNCHANGED <<parent, add_fields, all_fields, reference_fields, import_modules, source,
                       loaded_module_map, target_module, pre_load_modules, loaded>>
        /\ pc = "fetch" /\ pre_load_modules = {} /\ todo' = loaded
    BY DEF FetchDone, typeVars, moduleVars, mapVars
  <1>2. CASE loaded = {}
    <2>1. pc' = "idle" /\ result' = Null
      BY <1>2 DEF FetchDone, ReturnNull
    <2>2. CrashHasCause'
      BY <2>1 DEF CrashHasCause
    <2> QED
      BY <1>1, <2>1, <2>2, FailInv
  <1>3. CASE loaded # {}
    <2>1. pc' = "imports" /\ result' = result
      BY <1>3 DEF FetchDone
    <2>2. Forward
      BY <1>1, <2>1 DEF Forward, Unlinked, Unresolved, NotLaid, Ahead, LayoutPass
    <2>3. ImportOnce' /\ ResolveOnce' /\ LayoutOnce' /\ names' = names
      BY <1>1, <2>2, FrameKept
    <2>4. LoaderType'
      BY <1>1, <2>1 DEF LoaderInv, LoaderType, Passes, ModulePasses, LayoutPass
    <2>5. TargetInv' /\ FetchInv' /\ ImportsDone' /\ LayoutDone' /\ LinkInv'
      BY <1>1, <1>3, <2>1, <2>3 DEF LoaderInv, TargetInv, FetchInv, ImportsDone, LayoutDone,
             LinkInv, Passes, ModulePasses, LayoutPass, LaidPasses
    <2>6. ResolveDone' /\ WalkInv' /\ CrashHasCause' /\ ReturnsLinked'
      BY <2>1 DEF ResolveDone, WalkInv, CrashHasCause, ReturnsLinked, LayoutPass, LaidPasses
    <2> QED
      BY <2>3, <2>4, <2>5, <2>6 DEF LoaderInv
  <1> QED
    BY <1>2, <1>3

-----------------------------------------------------------------------------
(***************************************************************************)
(* The passes.                                                             *)
(***************************************************************************)

\* The imports of a module are all there, and are filled in.
LEMMA LinkImportsInv ==
  ASSUME LoaderInv, NEW m \in Modules, LinkImports(m)
  PROVE  LoaderInv'
  <1>0. LoaderType /\ TargetInv /\ FetchInv /\ ImportOnce /\ ImportsDone
    BY DEF LoaderInv
  <1>1. /\ UNCHANGED <<parent, add_fields, all_fields, reference_fields, source,
                       loaded_module_map, target_module, pre_load_modules, loaded>>
        /\ pc = "imports" /\ m \in todo
    BY DEF LinkImports, typeVars, mapVars
  <1>2. m \in loaded /\ import_modules[m] = <<>>
    BY <1>0, <1>1 DEF LoaderType, ImportOnce, Unlinked, Ahead, ModulePasses
  <1>3. names[m] \in Seq(Modules) /\ DOMAIN names[m] = 1 .. Len(names[m]) /\ Len(names[m]) \in Nat
    BY <1>0, SourceFacts DEF LoaderType
  <1> DEFINE found == {k \in DOMAIN names[m] : \A n \in 1 .. k : GetModule(names[m][n]) # Null}
  <1>4. found = DOMAIN names[m]
    <2>1. Range(names[m]) \subseteq loaded_module_map
      BY <1>0, <1>1, <1>2 DEF FetchInv, Passes, ModulePasses
    <2>2. \A n \in DOMAIN names[m] : names[m][n] \in loaded_module_map /\ names[m][n] \in Modules
      BY <1>3, <2>1 DEF Range
    <2>3. Null \notin Modules
      BY NullAssumption
    <2>4. \A n \in DOMAIN names[m] : GetModule(names[m][n]) # Null
      BY <2>2, <2>3 DEF GetModule
    <2>5. \A k \in DOMAIN names[m] : \A n \in 1 .. k : n \in DOMAIN names[m]
      BY <1>3
    <2> QED
      BY <2>4, <2>5
  <1>5. /\ import_modules' = [import_modules EXCEPT ![m] = @ \o [k \in found |-> names[m][k]]]
        /\ Advance(m, "types", loaded) /\ result' = result
    BY <1>4 DEF LinkImports, names
  <1>6. /\ import_modules' \in [Modules -> Seq(Modules)]
        /\ import_modules'[m] = names[m]
        /\ \A n \in Modules \ {m} : import_modules'[n] = import_modules[n]
    <2>1. [k \in found |-> names[m][k]] = names[m]
      BY <1>3, <1>4
    <2> HIDE DEF found
    <2>2. import_modules[m] \o [k \in found |-> names[m][k]] = names[m]
      BY <1>2, <1>3, <2>1, ConcatEmptySeq
    <2> QED
      BY <1>0, <1>3, <1>5, <2>2 DEF LoaderType
  <1> HIDE DEF found
  <1>7. \/ todo = {m} /\ pc' = "types" /\ todo' = loaded
        \/ todo # {m} /\ pc' = "imports" /\ todo' = todo \ {m}
    BY <1>1, <1>5 DEF Advance
  <1>8. Forward
    <2>1. todo \subseteq loaded
      BY <1>0, <1>1 DEF LoaderType, ModulePasses
    <2> QED
      BY <1>1, <1>7, <2>1 DEF Forward, Unlinked, Unresolved, NotLaid, Ahead, LayoutPass
  <1>n. names' = names
    BY <1>1 DEF names
  <1>9. ResolveOnce' /\ LayoutOnce'
    BY <1>0, <1>1, <1>8, TypesKept DEF LoaderInv, LoaderType, typeVars
  <1>10. LoaderType'
    BY <1>0, <1>1, <1>6, <1>7 DEF LoaderType, Passes, ModulePasses, LayoutPass
  <1>11. TargetInv' /\ FetchInv' /\ LayoutDone' /\ LinkInv'
    BY <1>0, <1>1, <1>5, <1>7, <1>n DEF TargetInv, FetchInv, LayoutDone, LinkInv, Passes,
       ModulePasses, LayoutPass, LaidPasses
  <1>12. ImportsDone'
    BY <1>0, <1>1, <1>6, <1>7, <1>n DEF LoaderType, ImportsDone, Passes, ModulePasses, LayoutPass
  <1>13. ImportOnce'
    <2>1. ~Unlinked(m)'
      BY <1>0, <1>1, <1>2, <1>7 DEF LoaderType, Unlinked, Ahead
    <2> QED
      BY <1>0, <1>6, <1>8, <1>n, <2>1 DEF ImportOnce, Forward
  <1>14. ResolveDone'
    <2>1. pc' = "types" => todo' = loaded'
      BY <1>1, <1>7
    <2> QED
      BY <1>7, <2>1 DEF ResolveDone, LayoutPass, LaidPasses, TypesOf
  <1>15. WalkInv' /\ CrashHasCause' /\ ReturnsLinked'
    BY <1>7 DEF WalkInv, CrashHasCause, ReturnsLinked
  <1> QED
    BY <1>9, <1>10, <1>11, <1>12, <1>13, <1>14, <1>15 DEF LoaderInv

\* A look-up in complete imports finds what the program declares.
LEMMA LookupDeclared ==
  ASSUME LoaderInv, NEW t \in Types, import_modules[home[t]] = names[home[t]]
  PROVE  /\ parent[t] = Null => ParentOf(t) = DeclaredParent(t)
         /\ OwnFields(t) = DeclaredFields(t)
         /\ DeclaredParent(t) \in Types \cup {Null}
         /\ DeclaredParent(t) # Null => home[DeclaredParent(t)] \in Range(names[home[t]])
  <1>0. source \in Sources
    BY DEF LoaderInv, LoaderType
  <1>1. \A info \in TypeInfo :
          Lookup(home[t], info) =
            IF names[home[t]][info.import_index] = home[info.type_name] THEN info.type_name ELSE Null
    BY InfoFacts DEF Lookup, TypesOf
  <1>2. source.parent_info[t] \in TypeInfo \cup {Null}
    BY <1>0, SourceFacts
  <1>3. parent[t] = Null => ParentOf(t) = DeclaredParent(t)
    BY <1>1, <1>2 DEF ParentOf, DeclaredParent, names
  <1>4. OwnFields(t) = DeclaredFields(t)
    <2>1. PICK infos : infos = source.field_infos[t]
      OBVIOUS
    <2>2. infos \in Seq(FieldInfo)
      BY <1>0, <2>1, SourceFacts
    <2>3. \A k \in DOMAIN infos : infos[k].user_def_type \in TypeInfo \cup {Null}
      BY <2>2, InfoFacts
    <2>4. \A k \in DOMAIN infos :
            (IF infos[k].user_def_type = Null THEN "primitive"
             ELSE Lookup(home[t], infos[k].user_def_type)) = DeclaredType(t, infos[k].user_def_type)
      BY <1>1, <2>3 DEF DeclaredType
    <2>5. OwnFields(t) = [k \in DOMAIN infos |->
            [name |-> infos[k].field_name,
             type |-> IF infos[k].user_def_type = Null THEN "primitive"
                      ELSE Lookup(home[t], infos[k].user_def_type)]]
      BY <2>1 DEF OwnFields
    <2>6. DeclaredFields(t) = [k \in DOMAIN infos |->
            [name |-> infos[k].field_name,
             type |-> DeclaredType(t, infos[k].user_def_type)]]
      BY <2>1 DEF DeclaredFields
    <2> QED
      BY <2>4, <2>5, <2>6, Zenon
  <1>5. DeclaredParent(t) \in Types \cup {Null}
    BY <1>2, InfoFacts DEF DeclaredParent
  <1>6. DeclaredParent(t) # Null => home[DeclaredParent(t)] \in Range(names[home[t]])
    <2>1. source.parent_info[t] # Null =>
            source.parent_info[t].import_index \in DOMAIN names[home[t]]
      BY <1>0, SourceFacts
    <2> QED
      BY <2>1 DEF DeclaredParent, Range, names
  <1> QED
    BY <1>3, <1>4, <1>5, <1>6

\* The types of a module get the parent and the fields the program declares.
LEMMA ResolveTypesInv ==
  ASSUME LoaderInv, NEW m \in Modules, ResolveTypes(m)
  PROVE  LoaderInv'
  <1>0. /\ LoaderType /\ TargetInv /\ FetchInv /\ ImportOnce /\ ImportsDone /\ ResolveOnce
        /\ ResolveDone /\ LayoutOnce /\ source \in Sources
    BY DEF LoaderInv, LoaderType
  <1>1. /\ UNCHANGED <<all_fields, reference_fields, import_modules, source, loaded_module_map,
                       target_module, pre_load_modules, loaded, result>>
        /\ pc = "types" /\ m \in todo
    BY DEF ResolveTypes, moduleVars, mapVars, callVars
  <1>2. /\ todo \subseteq loaded /\ m \in loaded /\ m \in loaded_module_map
        /\ import_modules[m] = names[m] /\ Range(names[m]) \subseteq loaded_module_map
    BY <1>0, <1>1 DEF LoaderType, ImportsDone, FetchInv, Passes, ModulePasses
  <1>3. Unresolved(m)
    BY <1>1 DEF Unresolved, Ahead
  <1>4. \A t \in Types : home[t] \in Modules
    BY <1>0, SourceFacts
  <1>5. ASSUME NEW t \in Types, home[t] = m
        PROVE  /\ parent'[t] = DeclaredParent(t) /\ add_fields'[t] = DeclaredFields(t)
               /\ DeclaredParent(t) \in Types \cup {Null}
               /\ DeclaredParent(t) # Null => home[DeclaredParent(t)] \in loaded_module_map
               /\ DeclaredFields(t) \in Seq(FieldDescs)
    <2>1. parent[t] = Null /\ add_fields[t] = <<>>
      BY <1>0, <1>3, <1>5 DEF ResolveOnce
    <2>2. /\ ParentOf(t) = DeclaredParent(t) /\ OwnFields(t) = DeclaredFields(t)
          /\ DeclaredParent(t) \in Types \cup {Null}
          /\ DeclaredParent(t) # Null => home[DeclaredParent(t)] \in Range(names[m])
      BY <1>2, <1>5, <2>1, LookupDeclared
    <2>3. DeclaredFields(t) \in Seq(FieldDescs)
      BY <1>0, DeclaredFieldsType
    <2>4. parent'[t] = ParentOf(t) /\ add_fields'[t] = add_fields[t] \o OwnFields(t)
      BY <1>5 DEF ResolveTypes
    <2>5. add_fields'[t] = DeclaredFields(t)
      BY <2>1, <2>2, <2>3, <2>4, ConcatEmptySeq
    <2> QED
      BY <1>2, <2>2, <2>3, <2>4, <2>5
  <1>6. \A t \in Types : home[t] # m => parent'[t] = parent[t] /\ add_fields'[t] = add_fields[t]
    BY DEF ResolveTypes
  <1>7. \/ todo = {m} /\ TypesOf(loaded) = {} /\ pc' = "using" /\ todo' = loaded
        \/ todo = {m} /\ TypesOf(loaded) # {} /\ pc' = "layout" /\ todo' = TypesOf(loaded)
        \/ todo # {m} /\ pc' = "types" /\ todo' = todo \ {m}
    BY <1>1 DEF ResolveTypes, Advance
  <1>8. Forward
    BY <1>1, <1>2, <1>7 DEF Forward, Unlinked, Unresolved, NotLaid, Ahead, LayoutPass, TypesOf
  <1>n. names' = names
    BY <1>1 DEF names
  <1>9. LoaderType'
    <2>1. parent' \in [Types -> Types \cup {Null}]
      <3>1. \A t \in Types : parent'[t] \in Types \cup {Null}
        BY <1>0, <1>5, <1>6 DEF LoaderType
      <3>2. parent' = [t \in Types |-> IF home[t] = m THEN ParentOf(t) ELSE parent[t]]
        BY DEF ResolveTypes
      <3> QED
        BY <3>1, <3>2
    <2>2. add_fields' \in [Types -> Seq(FieldDescs)]
      <3>1. \A t \in Types : add_fields'[t] \in Seq(FieldDescs)
        BY <1>0, <1>5, <1>6 DEF LoaderType
      <3>2. add_fields' =
              [t \in Types |-> IF home[t] = m THEN add_fields[t] \o OwnFields(t) ELSE add_fields[t]]
        BY DEF ResolveTypes
      <3> QED
        BY <3>1, <3>2
    <2> QED
      BY <1>0, <1>1, <1>2, <1>7, <2>1, <2>2 DEF LoaderType, Passes, ModulePasses, LayoutPass, TypesOf
  <1>10. TargetInv' /\ FetchInv' /\ LinkInv' /\ ImportsDone'
    BY <1>0, <1>1, <1>2, <1>7, <1>n DEF TargetInv, FetchInv, LinkInv, ImportsDone, Passes,
       ModulePasses, LayoutPass
  <1>11. ImportOnce'
    BY <1>0, <1>1, <1>8, ImportsKept
  <1>12. \A t \in Types : Resolved(t)' <=> (home[t] = m \/ Resolved(t))
    BY <1>1, <1>5, <1>6, DeclaredKept DEF Resolved
  <1>13. ResolveOnce'
    <2>1. \A t \in Types : home[t] = m => ~Unresolved(home[t])'
      BY <1>1, <1>2, <1>7 DEF Unresolved, Ahead
    <2> QED
      BY <1>0, <1>1, <1>4, <1>5, <1>6, <1>8, <1>12, <2>1 DEF ResolveOnce, Forward
  <1>14. ResolveDone'
    <2>1. pc' = "types" => TypesOf(loaded \ todo') \subseteq TypesOf(loaded \ todo) \cup TypesOf({m})
      BY <1>7 DEF TypesOf
    <2>2. pc' # "types" => TypesOf(loaded) \subseteq TypesOf(loaded \ todo) \cup TypesOf({m})
      BY <1>7 DEF TypesOf
    <2>3. \A t \in TypesOf(loaded \ todo) \cup TypesOf({m}) : Resolved(t)'
      BY <1>0, <1>1, <1>12 DEF ResolveDone, TypesOf
    <2>4. TypesOf(loaded)' = TypesOf(loaded) /\ TypesOf(loaded \ todo)' = TypesOf(loaded \ todo')
      BY <1>1 DEF TypesOf
    <2> QED
      BY <1>7, <2>1, <2>2, <2>3, <2>4 DEF ResolveDone, LayoutPass, LaidPasses
  <1>15. LayoutOnce'
    <2>1. SettledKept
      BY <1>3, <1>6 DEF SettledKept
    <2>2. \A t : LaidOut(t)' <=> LaidOut(t)
      BY <1>1 DEF LaidOut
    <2> QED
      BY <1>0, <1>1, <1>8, <2>1, <2>2, LaidKept DEF LayoutOnce, Forward
  <1>16. LayoutDone'
    <2>1. TypesOf(loaded)' = TypesOf(loaded)
      BY <1>1 DEF TypesOf
    <2> QED
      BY <1>7, <2>1 DEF LayoutDone, LayoutPass, LaidPasses
  <1>17. WalkInv' /\ CrashHasCause' /\ ReturnsLinked'
    BY <1>7 DEF WalkInv, CrashHasCause, ReturnsLinked
  <1> QED
    BY <1>9, <1>10, <1>11, <1>13, <1>14, <1>15, <1>16, <1>17 DEF LoaderInv

\* The walk up the parents begins at the type.
LEMMA BeginLayoutInv ==
  ASSUME LoaderInv, NEW t \in Types, BeginLayout(t)
  PROVE  LoaderInv'
  <1>0. /\ LoaderType /\ TargetInv /\ FetchInv /\ ImportsDone /\ ResolveDone /\ LayoutDone
    BY DEF LoaderInv
  <1>1. /\ UNCHANGED <<parent, add_fields, all_fields, reference_fields, import_modules, source,
                       loaded_module_map, target_module, pre_load_modules, loaded, result, todo>>
        /\ pc = "layout" /\ t \in todo /\ pc' = "walk"
        /\ type' = t /\ current_type' = t /\ parents' = <<>>
    BY DEF BeginLayout, typeVars, moduleVars, mapVars, callVars
  <1>2. Forward
    BY <1>1 DEF Forward, Unlinked, Unresolved, NotLaid, Ahead, LayoutPass
  <1>3. /\ ImportOnce' /\ ResolveOnce' /\ LayoutOnce' /\ names' = names
        /\ \A u : (Resolved(u)' <=> Resolved(u)) /\ (LaidOut(u)' <=> LaidOut(u))
    BY <1>1, <1>2, FrameKept
  <1>4. TypesOf(loaded)' = TypesOf(loaded)
    BY <1>1 DEF TypesOf
  <1>5. LoaderType'
    BY <1>0, <1>1, <1>4 DEF LoaderType, Passes, ModulePasses, LayoutPass
  <1>6. TargetInv' /\ FetchInv' /\ ImportsDone' /\ LinkInv'
    BY <1>0, <1>1, <1>3 DEF TargetInv, FetchInv, ImportsDone, LinkInv, Passes, ModulePasses,
       LayoutPass
  <1>7. ResolveDone' /\ LayoutDone'
    BY <1>0, <1>1, <1>3, <1>4 DEF ResolveDone, LayoutDone, LayoutPass, LaidPasses
  <1>8. home[t] \in loaded_module_map
    BY <1>0, <1>1 DEF LoaderType, LayoutPass, TypesOf
  <1>9. WalkInv' /\ CrashHasCause' /\ ReturnsLinked'
    BY <1>1, <1>8 DEF WalkInv, CrashHasCause, ReturnsLinked
  <1> QED
    BY <1>3, <1>5, <1>6, <1>7, <1>9 DEF LoaderInv

\* One parent up.
LEMMA WalkParentsInv ==
  ASSUME LoaderInv, WalkParents
  PROVE  LoaderInv'
  <1>0. /\ LoaderType /\ TargetInv /\ FetchInv /\ ImportsDone /\ ResolveOnce /\ ResolveDone
        /\ LayoutDone /\ WalkInv
    BY DEF LoaderInv
  <1>1. /\ UNCHANGED <<parent, add_fields, all_fields, reference_fields, import_modules, source,
                       loaded_module_map, target_module, pre_load_modules, loaded, todo, type>>
        /\ pc = "walk"
    BY DEF WalkParents, typeVars, moduleVars, mapVars
  <1>2. CASE current_type # Null /\ current_type \in Range(parents)
    <2>1. pc' = "idle" /\ result' = Null
      BY <1>2 DEF WalkParents, ReturnNull
    <2>2. CrashHasCause'
      BY <2>1 DEF CrashHasCause
    <2> QED
      BY <1>1, <2>1, <2>2, FailInv DEF Passes, LayoutPass
  <1>3. CASE ~(current_type # Null /\ current_type \in Range(parents))
    <2>1. result' = result /\ pc' \in {"walk", "flatten"}
      BY <1>1, <1>3 DEF WalkParents
    <2>2. Forward
      BY <1>1, <2>1 DEF Forward, Unlinked, Unresolved, NotLaid, Ahead, LayoutPass
    <2>3. /\ ImportOnce' /\ ResolveOnce' /\ LayoutOnce' /\ names' = names
          /\ \A u : (Resolved(u)' <=> Resolved(u)) /\ (LaidOut(u)' <=> LaidOut(u))
      BY <1>1, <2>2, FrameKept
    <2>4. TypesOf(loaded)' = TypesOf(loaded)
      BY <1>1 DEF TypesOf
    <2>5. LoaderType'
      BY <1>0, <1>1, <2>1, <2>4 DEF LoaderType, Passes, ModulePasses, LayoutPass
    <2>6. TargetInv' /\ FetchInv' /\ ImportsDone' /\ LinkInv'
      BY <1>0, <1>1, <2>1, <2>3 DEF TargetInv, FetchInv, ImportsDone, LinkInv, Passes,
         ModulePasses, LayoutPass
    <2>7. ResolveDone' /\ LayoutDone'
      BY <1>0, <1>1, <2>1, <2>3, <2>4 DEF ResolveDone, LayoutDone, LayoutPass, LaidPasses
    <2>8. CrashHasCause' /\ ReturnsLinked'
      BY <2>1 DEF CrashHasCause, ReturnsLinked
    <2>9. /\ type \in todo /\ current_type \in Types \cup {Null}
          /\ current_type # Null => home[current_type] \in loaded_module_map
          /\ parents = <<>> => current_type = type
          /\ parents # <<>> => ChainTo(parents, type) /\ current_type = parent[parents[1]]
      BY <1>0, <1>1 DEF WalkInv
    <2>10. \A m \in Modules : Unresolved(m)' <=> Unresolved(m)
      BY <1>1, <2>1 DEF Unresolved, Ahead
    <2>11. CASE current_type = Null
      <3>1. pc' = "flatten" /\ UNCHANGED <<current_type, parents>>
        BY <2>11 DEF WalkParents
      <3>2. parents # <<>> => ChainTo(parents, type)'
        <4>1. ASSUME parents # <<>> PROVE \A k \in 1 .. Len(parents) : home[parents[k]] \in Modules
          BY <1>0, <2>9, <4>1, SourceFacts DEF ChainTo, LoaderType
        <4> QED
          BY <1>1, <2>9, <2>10, <3>1, <4>1 DEF ChainTo, Links
      <3>3. WalkInv'
        BY <1>1, <2>9, <2>11, <3>1, <3>2 DEF WalkInv
      <3> QED
        BY <2>3, <2>5, <2>6, <2>7, <2>8, <3>3 DEF LoaderInv
    <2>12. CASE current_type # Null
      <3>1. /\ parents' = <<current_type>> \o parents /\ current_type' = parent[current_type]
            /\ pc' = "walk"
        BY <1>1, <1>3, <2>12 DEF WalkParents
      <3>2. PICK x : x = current_type
        OBVIOUS
      <3>3. x \in Types /\ home[x] \in loaded_module_map /\ home[x] \in Modules
        BY <1>0, <2>9, <2>12, <3>2 DEF LoaderType
      <3>4. parents \in Seq(Types)
        <4>1. CASE parents = <<>>
          BY <4>1
        <4>2. CASE parents # <<>>
          BY <2>9, <4>2 DEF ChainTo
        <4> QED
          BY <4>1, <4>2
      <3>5. PICK n \in Nat : n = Len(parents)
        BY <3>4
      <3>6. /\ parents' \in Seq(Types) /\ Len(parents') = n + 1
            /\ parents'[1] = x
            /\ \A k \in 1 .. n : parents'[k + 1] = parents[k]
        BY <3>1, <3>2, <3>3, <3>4, <3>5
      <3>7. parents'[n + 1] = type
        <4>1. CASE parents = <<>>
          BY <2>9, <3>2, <3>5, <3>6, <4>1
        <4>2. CASE parents # <<>>
          <5>1. parents[n] = type /\ n \in 1 .. n
            BY <2>9, <3>4, <3>5, <4>2, EmptySeq DEF ChainTo
          <5> QED
            BY <3>6, <5>1
        <4> QED
          BY <4>1, <4>2
      <3>8. Links(parents)'
        <4> SUFFICES ASSUME NEW k \in 1 .. n PROVE parent[parents'[k + 1]] = parents'[k]
          BY <1>1, <3>6 DEF Links
        <4>1. parents # <<>>
          BY <3>4, <3>5, EmptySeq
        <4>2. parents'[k + 1] = parents[k]
          BY <3>6
        <4>3. CASE k = 1
          BY <2>9, <3>2, <3>6, <4>1, <4>2, <4>3
        <4>4. CASE k # 1
          <5>1. k - 1 \in 1 .. n - 1 /\ k - 1 \in 1 .. n /\ (k - 1) + 1 = k
            BY <4>4
          <5>2. parents'[k] = parents[k - 1]
            BY <3>6, <5>1
          <5>3. parent[parents[(k - 1) + 1]] = parents[k - 1]
            BY <2>9, <3>5, <4>1, <5>1 DEF ChainTo, Links
          <5> QED
            BY <4>2, <5>1, <5>2, <5>3
        <4> QED
          BY <4>3, <4>4
      <3>9. ASSUME NEW k \in 1 .. n + 1
            PROVE  home[parents'[k]] \in loaded_module_map' /\ ~Unresolved(home[parents[k]])'
        <4>1. home[parents'[k]] \in loaded_module_map
          <5>1. CASE k = 1
            BY <3>3, <3>6, <5>1
          <5>2. CASE k # 1
            <6>1. k - 1 \in 1 .. n /\ (k - 1) + 1 = k /\ parents # <<>>
              BY <3>4, <3>5, <5>2, EmptySeq
            <6>2. parents'[k] = parents[k - 1] /\ home[parents[k - 1]] \in loaded_module_map
              BY <2>9, <3>5, <3>6, <6>1 DEF ChainTo
            <6> QED
              BY <6>2
          <5> QED
            BY <5>1, <5>2
        <4>3. home[parents'[k]] \in loaded_module_map'
          BY <1>1, <4>1
        <4>4. ~Unresolved(home[parents[k]])'
          BY <3>1, <4>3 DEF Unresolved, Ahead
        <4> QED
          BY <4>3, <4>4
      <3>10. ChainTo(parents, type)'
        <4>1. parents' # <<>>
          BY <3>5, <3>6
        <4> QED
          BY <1>1, <3>6, <3>7, <3>8, <3>9, <4>1 DEF ChainTo
      <3>11. /\ current_type' \in Types \cup {Null}
             /\ current_type' # Null => home[current_type'] \in loaded_module_map
             /\ current_type' = parent'[parents'[1]]
        BY <1>0, <1>1, <3>1, <3>2, <3>3, <3>6 DEF LoaderType, ResolveOnce
      <3>12. parents' # <<>>
        BY <3>5, <3>6
      <3>13. WalkInv'
        BY <1>1, <2>9, <3>1, <3>10, <3>11, <3>12 DEF WalkInv
      <3> QED
        BY <2>3, <2>5, <2>6, <2>7, <2>8, <3>13 DEF LoaderInv
    <2> QED
      BY <2>11, <2>12
  <1> QED
    BY <1>2, <1>3

\* The passes after the layout change nothing that was found.
LEMMA LatePassInv ==
  ASSUME LoaderInv, NEW m \in Modules, m \in todo,
         pc \in {"using", "functions", "module_fields"},
         NEW next \in LaidPasses, Advance(m, next, loaded),
         UNCHANGED <<parent, add_fields, all_fields, reference_fields, import_modules, linked,
                     source, loaded_module_map, target_module, pre_load_modules, loaded, result>>
  PROVE  LoaderInv'
  <1>0. /\ LoaderType /\ TargetInv /\ FetchInv /\ ImportsDone /\ ResolveDone /\ LayoutDone
    BY DEF LoaderInv
  <1>1. pc \in LaidPasses /\ pc' \in LaidPasses
    BY DEF Advance, LaidPasses
  <1>2. /\ pc \in Passes \ {"imports"} /\ pc' \in Passes \ {"imports"}
        /\ pc' \notin {"idle", "crashed", "fetch", "imports", "types", "walk", "flatten", "none"}
        /\ pc' \notin LayoutPass /\ pc \in ModulePasses /\ pc' \in ModulePasses
    BY <1>1 DEF LaidPasses, Passes, ModulePasses, LayoutPass
  <1>3. todo' \subseteq loaded /\ (pc' = "orders" => todo' = loaded)
    BY <1>0, <1>2 DEF Advance, LoaderType, LaidPasses
  <1>4. Forward
    BY <1>2 DEF Forward, Unlinked, Unresolved, NotLaid, Ahead
  <1>5. /\ ImportOnce' /\ ResolveOnce' /\ LayoutOnce' /\ names' = names
        /\ \A u : (Resolved(u)' <=> Resolved(u)) /\ (LaidOut(u)' <=> LaidOut(u))
    BY <1>4, FrameKept
  <1>6. TypesOf(loaded)' = TypesOf(loaded)
    BY DEF TypesOf
  <1>7. LoaderType'
    BY <1>0, <1>2, <1>3 DEF LoaderType
  <1>8. TargetInv' /\ FetchInv' /\ ImportsDone'
    BY <1>0, <1>2, <1>5 DEF TargetInv, FetchInv, ImportsDone
  <1>9. LinkInv'
    BY <1>3 DEF LinkInv
  <1>10. ResolveDone' /\ LayoutDone'
    BY <1>0, <1>1, <1>2, <1>5, <1>6 DEF ResolveDone, LayoutDone
  <1>11. WalkInv' /\ CrashHasCause' /\ ReturnsLinked'
    BY <1>2 DEF WalkInv, CrashHasCause, ReturnsLinked
  <1> QED
    BY <1>5, <1>7, <1>8, <1>9, <1>10, <1>11 DEF LoaderInv

\* The last pass ends the call with the module that was asked for.
LEMMA LinkOrdersInv ==
  ASSUME LoaderInv, NEW m \in Modules, LinkOrders(m)
  PROVE  LoaderInv'
  <1>0. /\ LoaderType /\ TargetInv /\ FetchInv /\ ImportsDone /\ ResolveDone /\ LayoutDone
        /\ LinkInv
    BY DEF LoaderInv
  <1>1. /\ UNCHANGED <<parent, add_fields, all_fields, reference_fields, import_modules, source,
                       loaded_module_map, target_module, pre_load_modules, loaded>>
        /\ pc = "orders" /\ m \in todo /\ todo \subseteq loaded
    BY <1>0 DEF LinkOrders, typeVars, mapVars, LoaderType, ModulePasses
  <1>r. result = Null
    BY <1>0, <1>1 DEF TargetInv
  <1>2. CASE \E k \in source.set_field_types[m] : using_types[m][k] = Null
    <2>1. pc' = "crashed" /\ result' = Null
      BY <1>2, <1>r DEF LinkOrders, Crash
    <2>2. CrashHasCause'
      BY <1>1, <1>2 DEF CrashHasCause
    <2> QED
      BY <1>1, <2>1, <2>2, FailInv DEF Passes, ModulePasses
  <1>3. CASE ~(\E k \in source.set_field_types[m] : using_types[m][k] = Null)
    <2>1. /\ linked' = linked \cup {m} /\ todo' = todo \ {m}
          /\ IF todo = {m} THEN pc' = "idle" /\ result' = target_module
             ELSE pc' = pc /\ result' = result
      BY <1>3 DEF LinkOrders
    <2>2. pc' \in {"idle", "orders"}
      BY <1>1, <2>1
    <2>3. Forward
      BY <1>1, <2>2 DEF Forward, Unlinked, Unresolved, NotLaid, Ahead, LayoutPass
    <2>4. /\ ImportOnce' /\ ResolveOnce' /\ LayoutOnce' /\ names' = names
          /\ \A u : (Resolved(u)' <=> Resolved(u)) /\ (LaidOut(u)' <=> LaidOut(u))
      BY <1>1, <2>3, FrameKept
    <2>5. TypesOf(loaded)' = TypesOf(loaded)
      BY <1>1 DEF TypesOf
    <2>6. LoaderType'
      BY <1>0, <1>1, <2>1, <2>2 DEF LoaderType, Passes, ModulePasses, LayoutPass
    <2>7. TargetInv' /\ FetchInv' /\ ImportsDone' /\ LinkInv'
      BY <1>0, <1>1, <1>r, <2>1, <2>2, <2>4 DEF TargetInv, FetchInv, ImportsDone, LinkInv, Passes,
         ModulePasses, LayoutPass
    <2>8. ResolveDone' /\ LayoutDone'
      BY <1>0, <1>1, <2>2, <2>4, <2>5 DEF ResolveDone, LayoutDone, LayoutPass, LaidPasses
    <2>9. WalkInv' /\ CrashHasCause'
      BY <2>2 DEF WalkInv, CrashHasCause
    <2>10. ReturnsLinked'
      <3> SUFFICES ASSUME pc' = "idle", result' # Null
                   PROVE  /\ result' \in loaded' /\ loaded' \subseteq linked'
                          /\ \A t \in TypesOf(loaded)' : LaidOut(t)'
                          /\ \A n \in loaded' : Range(names[n])' \subseteq loaded_module_map'
        BY DEF ReturnsLinked, names
      <3>1. todo = {m} /\ result' = target_module /\ target_module # Null
        BY <1>1, <2>1
      <3>2. result' \in loaded'
        BY <1>0, <1>1, <3>1 DEF TargetInv, Passes, ModulePasses
      <3>3. loaded' \subseteq linked'
        BY <1>0, <1>1, <2>1, <3>1 DEF LinkInv
      <3>4. \A t \in TypesOf(loaded)' : LaidOut(t)'
        BY <1>0, <1>1, <2>4, <2>5 DEF LayoutDone, LaidPasses
      <3>5. \A n \in loaded' : Range(names[n])' \subseteq loaded_module_map'
        BY <1>0, <1>1, <2>4 DEF FetchInv, Passes, ModulePasses
      <3> QED
        BY <3>2, <3>3, <3>4, <3>5
    <2> QED
      BY <2>4, <2>6, <2>7, <2>8, <2>9, <2>10 DEF LoaderInv
  <1> QED
    BY <1>2, <1>3

\* The fields of a chain of types.
LEMMA FieldsOfFacts ==
  ASSUME LoaderType, NEW c \in Seq(Types), c # <<>>
  PROVE  /\ FieldsOf(c) \in Seq(Seq(FieldDescs)) /\ FieldsOf(c) # <<>>
         /\ Len(FieldsOf(c)) = Len(c) /\ DOMAIN FieldsOf(c) = 1 .. Len(c)
         /\ \A k \in 1 .. Len(c) : c[k] \in Types /\ FieldsOf(c)[k] = add_fields[c[k]]
         /\ FlattenSeq(FieldsOf(c)) \in Seq(FieldDescs)
  <1>1. /\ Len(c) \in Nat \ {0} /\ DOMAIN c = 1 .. Len(c)
        /\ \A k \in 1 .. Len(c) : c[k] \in Types
    BY EmptySeq, LenProperties, ElementOfSeq
  <1>2. FieldsOf(c) = [k \in 1 .. Len(c) |-> add_fields[c[k]]]
    BY <1>1 DEF FieldsOf
  <1>3. \A k \in 1 .. Len(c) : add_fields[c[k]] \in Seq(FieldDescs)
    BY <1>1 DEF LoaderType
  <1>4. FieldsOf(c) \in Seq(Seq(FieldDescs))
    BY <1>1, <1>2, <1>3, IsASeq
  <1>5. Len(FieldsOf(c)) = Len(c) /\ DOMAIN FieldsOf(c) = 1 .. Len(c)
    BY <1>1, <1>2, <1>4, LenProperties
  <1>6. FieldsOf(c) # <<>>
    BY <1>1, <1>5, EmptySeq
  <1>7. FlattenSeq(FieldsOf(c)) \in Seq(FieldDescs)
    BY <1>4, <1>6, FlattenElements
  <1> QED
    BY <1>1, <1>2, <1>4, <1>5, <1>6, <1>7

\* A field without a type was declared with a type that is not where it is
\* looked for.
LEMMA LostField ==
  ASSUME LoaderInv, NEW t \in Types, NEW j \in DOMAIN add_fields[t], add_fields[t][j].type = Null
  PROVE  \E k \in DOMAIN source.field_infos[t] :
           LET info == source.field_infos[t][k].user_def_type IN
           info # Null /\ names[home[t]][info.import_index] # home[info.type_name]
  <1>0. source \in Sources /\ ResolveOnce
    BY DEF LoaderInv, LoaderType
  <1>1. add_fields[t] = DeclaredFields(t)
    <2>1. add_fields[t] # <<>>
      OBVIOUS
    <2> QED
      BY <1>0, <2>1 DEF ResolveOnce, Resolved
  <1>2. PICK infos : infos = source.field_infos[t]
    OBVIOUS
  <1>3. infos \in Seq(FieldInfo) /\ Null \notin Types /\ Null # "primitive"
    BY <1>0, <1>2, SourceFacts
  <1>4. j \in DOMAIN infos /\ DeclaredType(t, infos[j].user_def_type) = Null
    BY <1>1, <1>2 DEF DeclaredFields
  <1>5. infos[j] \in FieldInfo
    BY <1>3, <1>4
  <1>6. infos[j].user_def_type \in TypeInfo \cup {Null}
    BY <1>5, InfoFacts
  <1>7. /\ infos[j].user_def_type # Null
        /\ names[home[t]][infos[j].user_def_type.import_index]
             # home[infos[j].user_def_type.type_name]
    BY <1>3, <1>4, <1>6, InfoFacts DEF DeclaredType
  <1> QED
    BY <1>2, <1>4, <1>7

\* The layout of a type: the fields of the chain of its parents, or the call
\* fails.
LEMMA FlattenFieldsInv ==
  ASSUME LoaderInv, FlattenFields
  PROVE  LoaderInv'
  <1>0. /\ LoaderType /\ TargetInv /\ FetchInv /\ ImportOnce /\ ImportsDone /\ ResolveOnce
        /\ ResolveDone /\ LayoutOnce /\ LayoutDone /\ WalkInv /\ source \in Sources
    BY DEF LoaderInv, LoaderType
  <1>1. /\ UNCHANGED <<parent, add_fields, import_modules, source, loaded_module_map,
                       target_module, pre_load_modules, loaded, type, current_type, parents>>
        /\ pc = "flatten"
    BY DEF FlattenFields, moduleVars, mapVars, walkVars
  <1>r. result = Null
    BY <1>0, <1>1 DEF TargetInv
  <1>2. /\ type \in todo /\ type \in TypesOf(loaded) /\ type \in Types
        /\ home[type] \in loaded /\ home[type] \in loaded_module_map
    BY <1>0, <1>1 DEF WalkInv, LoaderType, LayoutPass, TypesOf
  <1>3. parents # <<>> /\ ChainTo(parents, type) /\ parent[parents[1]] = Null
    BY <1>0, <1>1, <1>2, SourceFacts DEF WalkInv
  <1> DEFINE fields == InheritedFields
             fresh == {k \in DOMAIN fields :
                         \A a, b \in 1 .. k : a # b => fields[a].name # fields[b].name}
  <1>4. fields = FlattenSeq(FieldsOf(parents)) /\ fields \in Seq(FieldDescs)
    BY <1>0, <1>3, FieldsOfFacts DEF InheritedFields, FieldsOf, ChainTo
  <1>5. all_fields[type] = <<>> /\ Resolved(type)
    BY <1>0, <1>1, <1>2 DEF LayoutOnce, NotLaid, LayoutPass, ResolveDone
  <1>6. all_fields' = [all_fields EXCEPT ![type] = @ \o [k \in fresh |-> fields[k]]]
    BY DEF FlattenFields
  <1>7. DOMAIN all_fields' = Types /\ \A t \in Types \ {type} : all_fields'[t] = all_fields[t]
    BY <1>0, <1>6 DEF LoaderType
  <1>n. names' = names
    BY <1>1 DEF names
  <1>8. SettledKept /\ TypesOf(loaded)' = TypesOf(loaded) /\ \A t : Resolved(t)' <=> Resolved(t)
    BY <1>1, DeclaredKept DEF SettledKept, TypesOf, Resolved
  <1>9. CASE fresh = DOMAIN fields /\ ~(\E k \in DOMAIN fields : fields[k].type = Null)
    <2>1. /\ reference_fields' = [reference_fields EXCEPT ![type] =
                                    {{k \in DOMAIN fields : fields[k].type # "primitive"}}]
          /\ pc' = IF todo = {type} THEN "using" ELSE "layout"
          /\ todo' = IF todo = {type} THEN loaded ELSE todo \ {type}
          /\ result' = result
      BY <1>9 DEF FlattenFields
    <2>2. /\ DOMAIN reference_fields' = Types
          /\ \A t \in Types : LaidOut(t)' <=> (t = type \/ LaidOut(t))
      <3>1. PICK refs : refs = {{k \in DOMAIN fields : fields[k].type # "primitive"}}
        OBVIOUS
      <3>2. refs # {}
        BY <3>1
      <3>3. reference_fields' = [reference_fields EXCEPT ![type] = refs]
        BY <2>1, <3>1
      <3> HIDE DEF fields, fresh
      <3> QED
        BY <1>0, <1>2, <3>2, <3>3 DEF LoaderType, LaidOut
    <2>3. all_fields'[type] = fields
      <3>1. [k \in fresh |-> fields[k]] = fields
        BY <1>4, <1>9
      <3> HIDE DEF fields, fresh
      <3>2. all_fields[type] \o [k \in fresh |-> fields[k]] = fields
        BY <1>4, <1>5, <3>1, ConcatEmptySeq
      <3> QED
        BY <1>0, <1>2, <1>6, <3>2 DEF LoaderType
    <2>4. \A a, b \in DOMAIN fields : a # b => fields[a].name # fields[b].name
      <3> TAKE a, b \in DOMAIN fields
      <3>1. /\ a \in Nat /\ b \in Nat
            /\ \A k \in DOMAIN fields : \A u, v \in 1 .. k : u # v => fields[u].name # fields[v].name
            /\ DOMAIN fields = 1 .. Len(fields) /\ Len(fields) \in Nat
        BY <1>4, <1>9
      <3> HIDE DEF fields, fresh
      <3>2. CASE a <= b
        <4>1. a \in 1 .. b /\ b \in 1 .. b
          BY <3>1, <3>2
        <4> QED
          BY <3>1, <4>1
      <3>3. CASE b <= a
        <4>1. a \in 1 .. a /\ b \in 1 .. a
          BY <3>1, <3>3
        <4> QED
          BY <3>1, <4>1
      <3> QED
        BY <3>1, <3>2, <3>3
    <2>f. PICK fs : fs = fields
      OBVIOUS
    <2> HIDE DEF fields, fresh
    <2>5. \/ todo = {type} /\ pc' = "using" /\ todo' = loaded
          \/ todo # {type} /\ pc' = "layout" /\ todo' = todo \ {type}
      BY <2>1
    <2>6. Forward
      BY <1>1, <1>2, <2>5 DEF Forward, Unlinked, Unresolved, NotLaid, Ahead, LayoutPass
    <2>7. IsInjective(Names(all_fields[type]))'
      <3>1. DOMAIN Names(fs) = DOMAIN fs /\ \A k \in DOMAIN fs : Names(fs)[k] = fs[k].name
        BY DEF Names
      <3>2. IsInjective(Names(fs))
        BY <2>4, <2>f, <3>1 DEF IsInjective
      <3>3. all_fields'[type'] = fs
        BY <1>1, <2>3, <2>f
      <3> QED
        BY <3>2, <3>3 DEF Names, IsInjective
    <2>8. PICK c : c = parents
      OBVIOUS
    <2>9. LaidRight(type)'
      <3>1. c \in Seq(Types) /\ c # <<>> /\ ChainTo(c, type) /\ parent[c[1]] = Null
        BY <1>3, <2>8 DEF ChainTo
      <3>2. \A k \in 1 .. Len(c) : home[c[k]] \in Modules
        BY <1>0, <3>1, SourceFacts
      <3>3. ChainTo(c, type)'
        BY <1>1, <2>6, <3>1, <3>2 DEF ChainTo, Links, Forward
      <3>4. FieldsOf(c)' = FieldsOf(c)
        BY <1>1 DEF FieldsOf
      <3>5. all_fields'[type'] = FlattenSeq(FieldsOf(c)')
        BY <1>1, <1>4, <2>3, <2>8, <3>4
      <3>6. Resolved(type)'
        BY <1>1, <1>5, DeclaredKept DEF Resolved
      <3> QED
        BY <1>1, <2>7, <3>1, <3>3, <3>5, <3>6 DEF LaidRight
    <2>10. LayoutOnce'
      <3>1. ASSUME NEW t \in Types, LaidOut(t)' PROVE LaidRight(t)'
        <4>1. CASE t = type
          <5>1. type' = t
            BY <1>1, <4>1
          <5> QED
            BY <2>9, <5>1 DEF LaidRight, Resolved, ChainTo, Links
        <4>2. CASE t # type
          <5>1. LaidRight(t) /\ all_fields'[t] = all_fields[t]
            BY <1>0, <1>7, <2>2, <3>1, <4>2 DEF LayoutOnce
          <5> QED
            BY <1>0, <1>8, <2>6, <5>1, LaidKept
        <4> QED
          BY <4>1, <4>2
      <3>2. ASSUME NEW t \in Types, NotLaid(t)' PROVE all_fields'[t] = <<>> /\ ~LaidOut(t)'
        <4>1. t # type
          BY <1>1, <1>2, <2>5, <3>2 DEF NotLaid, Ahead, LayoutPass
        <4>2. NotLaid(t)
          BY <2>6, <3>2 DEF Forward
        <4> QED
          BY <1>0, <1>7, <2>2, <4>1, <4>2 DEF LayoutOnce
      <3> QED
        BY <3>1, <3>2 DEF LayoutOnce
    <2>11. LayoutDone'
      <3>1. \A t \in TypesOf(loaded) : t \notin todo \/ t = type => LaidOut(t)'
        BY <1>0, <1>1, <2>2 DEF LayoutDone, LayoutPass, TypesOf
      <3> QED
        BY <1>8, <2>5, <3>1 DEF LayoutDone, LayoutPass, LaidPasses
    <2>12. ResolveOnce'
      BY <1>0, <1>1, <1>8, <2>6, SourceFacts DEF ResolveOnce, Forward
    <2>13. ImportOnce'
      BY <1>0, <1>1, <2>6, ImportsKept
    <2>14. LoaderType'
      BY <1>0, <1>1, <1>7, <1>8, <2>2, <2>5 DEF LoaderType, Passes, ModulePasses, LayoutPass
    <2>15. TargetInv' /\ FetchInv' /\ ImportsDone' /\ LinkInv'
      BY <1>0, <1>1, <1>n, <2>1, <2>5 DEF TargetInv, FetchInv, ImportsDone, LinkInv, Passes,
         ModulePasses, LayoutPass
    <2>16. ResolveDone'
      BY <1>0, <1>1, <1>8, <2>5 DEF ResolveDone, LayoutPass, LaidPasses
    <2>17. WalkInv' /\ CrashHasCause' /\ ReturnsLinked'
      BY <2>5 DEF WalkInv, CrashHasCause, ReturnsLinked
    <2> QED
      BY <2>10, <2>11, <2>12, <2>13, <2>14, <2>15, <2>16, <2>17 DEF LoaderInv
  <1>10. CASE ~(fresh = DOMAIN fields /\ ~(\E k \in DOMAIN fields : fields[k].type = Null))
    <2>1. /\ reference_fields' = reference_fields
          /\ fresh = DOMAIN fields => pc' = "crashed" /\ result' = result
          /\ fresh # DOMAIN fields => pc' = "idle" /\ result' = Null
      BY <1>10 DEF FlattenFields, Crash, ReturnNull
    <2>2. pc' \in {"idle", "crashed"} /\ result' = Null
      <3> HIDE DEF fields, fresh
      <3> QED
        BY <1>r, <2>1
    <2>3. CrashHasCause'
      <3> SUFFICES ASSUME pc' = "crashed"
                   PROVE  \E t \in Types : \E k \in DOMAIN source.field_infos[t] :
                            LET info == source.field_infos[t][k].user_def_type IN
                            info # Null /\ names[home[t]][info.import_index] # home[info.type_name]
        BY <1>1 DEF CrashHasCause, names
      <3>1. PICK k \in DOMAIN fields : fields[k].type = Null
        <4>1. fresh = DOMAIN fields
          <5> HIDE DEF fields, fresh
          <5> QED
            BY <2>1
        <4> QED
          BY <1>10, <4>1
      <3>2. PICK i \in DOMAIN FieldsOf(parents) : \E j \in DOMAIN FieldsOf(parents)[i] :
              fields[k] = FieldsOf(parents)[i][j]
        <4>1. FieldsOf(parents) \in Seq(Seq(FieldDescs)) /\ FieldsOf(parents) # <<>>
          BY <1>0, <1>3, FieldsOfFacts DEF ChainTo
        <4> HIDE DEF fields, fresh
        <4> QED
          BY <1>4, <3>1, <4>1, FlattenElements
      <3>3. parents[i] \in Types /\ FieldsOf(parents)[i] = add_fields[parents[i]]
        BY <1>0, <1>3, FieldsOfFacts DEF ChainTo
      <3>4. \E j \in DOMAIN add_fields[parents[i]] : add_fields[parents[i]][j].type = Null
        BY <3>1, <3>2, <3>3
      <3> HIDE DEF fields, fresh
      <3> QED
        BY <3>3, <3>4, LostField
    <2> HIDE DEF fields, fresh
    <2>4. Forward
      BY <1>1, <2>2 DEF Forward, Unlinked, Unresolved, NotLaid, Ahead, LayoutPass
    <2>5. LayoutOnce'
      <3>1. \A t \in Types : LaidOut(t)' <=> LaidOut(t)
        BY <2>1 DEF LaidOut
      <3>2. ~LaidOut(type)
        BY <1>0, <1>1, <1>2 DEF LayoutOnce, NotLaid, LayoutPass
      <3>3. ASSUME NEW t \in Types, LaidOut(t)' PROVE LaidRight(t)'
        <4>1. LaidRight(t) /\ all_fields'[t] = all_fields[t]
          BY <1>0, <1>7, <3>1, <3>2, <3>3 DEF LayoutOnce
        <4> QED
          BY <1>0, <1>8, <2>4, <4>1, LaidKept
      <3>4. ASSUME NEW t \in Types, NotLaid(t)' PROVE all_fields'[t] = <<>> /\ ~LaidOut(t)'
        <4>1. t # type
          BY <1>1, <1>2, <2>2, <3>4 DEF NotLaid, Ahead, LayoutPass
        <4>2. NotLaid(t)
          BY <2>4, <3>4 DEF Forward
        <4> QED
          BY <1>0, <1>7, <3>1, <4>1, <4>2 DEF LayoutOnce
      <3> QED
        BY <3>3, <3>4 DEF LayoutOnce
    <2>6. ResolveOnce'
      BY <1>0, <1>1, <1>8, <2>4, SourceFacts DEF ResolveOnce, Forward
    <2>7. ImportOnce'
      BY <1>0, <1>1, <2>4, ImportsKept
    <2>8. LoaderType'
      BY <1>0, <1>1, <1>7, <2>1, <2>2 DEF LoaderType, Passes, ModulePasses, LayoutPass
    <2>9. TargetInv' /\ FetchInv' /\ ImportsDone' /\ LayoutDone' /\ LinkInv'
      BY <2>2 DEF TargetInv, FetchInv, ImportsDone, LayoutDone, LinkInv, Passes, ModulePasses,
         LayoutPass, LaidPasses
    <2>10. ResolveDone' /\ WalkInv' /\ ReturnsLinked'
      BY <2>2 DEF ResolveDone, WalkInv, ReturnsLinked, LayoutPass, LaidPasses
    <2> QED
      BY <2>3, <2>5, <2>6, <2>7, <2>8, <2>9, <2>10 DEF LoaderInv
  <1> QED
    BY <1>9, <1>10

\* A step that changes nothing.
LEMMA StutterInv ==
  ASSUME LoaderInv, UNCHANGED vars
  PROVE  LoaderInv'
  <1>0. /\ LoaderType /\ TargetInv /\ FetchInv /\ ImportsDone /\ ResolveDone /\ LayoutDone
        /\ LinkInv /\ WalkInv /\ ReturnsLinked /\ CrashHasCause
    BY DEF LoaderInv
  <1>1. UNCHANGED <<parent, add_fields, all_fields, reference_fields, import_modules, linked,
                    source, loaded_module_map, target_module, pre_load_modules, loaded, result,
                    pc, todo, type, current_type, parents>>
    BY DEF vars, typeVars, moduleVars, mapVars, callVars, walkVars
  <1>2. Forward /\ \A m : Unresolved(m)' <=> Unresolved(m)
    BY <1>1 DEF Forward, Unlinked, Unresolved, NotLaid, Ahead
  <1>3. /\ ImportOnce' /\ ResolveOnce' /\ LayoutOnce' /\ names' = names
        /\ \A t : (Resolved(t)' <=> Resolved(t)) /\ (LaidOut(t)' <=> LaidOut(t))
    BY <1>1, <1>2, FrameKept
  <1>4. TypesOf(loaded)' = TypesOf(loaded) /\ TypesOf(loaded \ todo)' = TypesOf(loaded \ todo)
    BY <1>1 DEF TypesOf
  <1>5. LoaderType'
    BY <1>0, <1>1, <1>4 DEF LoaderType
  <1>6. TargetInv' /\ FetchInv' /\ ImportsDone' /\ LinkInv'
    BY <1>0, <1>1, <1>3 DEF TargetInv, FetchInv, ImportsDone, LinkInv
  <1>7. ResolveDone' /\ LayoutDone'
    BY <1>0, <1>1, <1>3, <1>4 DEF ResolveDone, LayoutDone
  <1>8. ChainTo(parents, type)' <=> ChainTo(parents, type)
    BY <1>1, <1>2 DEF ChainTo, Links
  <1>9. WalkInv'
    BY <1>0, <1>1, <1>8 DEF WalkInv
  <1>10. ReturnsLinked'
    BY <1>0, <1>1, <1>3, <1>4 DEF ReturnsLinked
  <1>11. CrashHasCause'
    <2>1. UNCHANGED <<pc, source, pre_load_modules, loaded>>
      BY <1>1
    <2>2. CrashHasCause' <=> CrashHasCause
      BY ONLY <2>1, Zenon DEF CrashHasCause
    <2> QED
      BY <1>0, <2>2
  <1> QED
    BY <1>3, <1>5, <1>6, <1>7, <1>9, <1>10, <1>11 DEF LoaderInv

\* No step of load_module, and no call, breaks the invariant.
LEMMA NextLoaderInv == LoaderInv /\ [Next]_vars => LoaderInv'
  <1> SUFFICES ASSUME LoaderInv, [Next]_vars PROVE LoaderInv'
    OBVIOUS
  <1>1. CASE FetchDone
    BY <1>1, FetchDoneInv
  <1>2. CASE WalkParents
    BY <1>2, WalkParentsInv
  <1>3. CASE FlattenFields
    BY <1>3, FlattenFieldsInv
  <1>4. ASSUME NEW t \in Types, BeginLayout(t) PROVE LoaderInv'
    BY <1>4, BeginLayoutInv
  <1>5. ASSUME NEW m \in Modules, FetchModule(m) PROVE LoaderInv'
    BY <1>5, FetchModuleInv
  <1>6. ASSUME NEW m \in Modules, LinkImports(m) PROVE LoaderInv'
    BY <1>6, LinkImportsInv
  <1>7. ASSUME NEW m \in Modules, ResolveTypes(m) PROVE LoaderInv'
    BY <1>7, ResolveTypesInv
  <1>8. ASSUME NEW m \in Modules, ResolveUsingTypes(m) PROVE LoaderInv'
    <2>1. /\ m \in todo /\ pc = "using" /\ Advance(m, "functions", loaded)
          /\ UNCHANGED <<parent, add_fields, all_fields, reference_fields, import_modules, linked,
                         source, loaded_module_map, target_module, pre_load_modules, loaded,
                         result>>
      BY <1>8 DEF ResolveUsingTypes, typeVars, mapVars, callVars
    <2>2. "functions" \in LaidPasses
      BY DEF LaidPasses
    <2> QED
      BY <2>1, <2>2, LatePassInv
  <1>9. ASSUME NEW m \in Modules, ResolveSignatures(m) PROVE LoaderInv'
    <2>1. /\ m \in todo /\ pc = "functions" /\ Advance(m, "module_fields", loaded)
          /\ UNCHANGED <<parent, add_fields, all_fields, reference_fields, import_modules, linked,
                         source, loaded_module_map, target_module, pre_load_modules, loaded,
                         result>>
      BY <1>9 DEF ResolveSignatures, typeVars, mapVars, callVars
    <2>2. "module_fields" \in LaidPasses
      BY DEF LaidPasses
    <2> QED
      BY <2>1, <2>2, LatePassInv
  <1>10. ASSUME NEW m \in Modules, CreateModuleObject(m) PROVE LoaderInv'
    <2>1. /\ m \in todo /\ pc = "module_fields" /\ Advance(m, "orders", loaded)
          /\ UNCHANGED <<parent, add_fields, all_fields, reference_fields, import_modules, linked,
                         source, loaded_module_map, target_module, pre_load_modules, loaded,
                         result>>
      BY <1>10 DEF CreateModuleObject, typeVars, mapVars, callVars
    <2>2. "orders" \in LaidPasses
      BY DEF LaidPasses
    <2> QED
      BY <2>1, <2>2, LatePassInv
  <1>11. ASSUME NEW m \in Modules, LinkOrders(m) PROVE LoaderInv'
    BY <1>11, LinkOrdersInv
  <1>12. ASSUME NEW m \in Modules, PreLoadModule(m) PROVE LoaderInv'
    BY <1>12, PreLoadModuleInv
  <1>13. ASSUME NEW m \in Modules, CallLoad(m) PROVE LoaderInv'
    BY <1>13, CallLoadInv
  <1>14. CASE UNCHANGED vars
    BY <1>14, StutterInv
  <1> QED
    BY <1>1, <1>2, <1>3, <1>4, <1>5, <1>6, <1>7, <1>8, <1>9, <1>10, <1>11, <1>12, <1>13, <1>14
    DEF Next, LoadStep

\* The invariant holds in every state of the loader.
LEMMA LoaderInvAlways == Spec => []LoaderInv
  <1>1. Init => LoaderInv
    BY InitLoaderInv
  <1>2. LoaderInv /\ [Next]_vars => LoaderInv'
    BY NextLoaderInv
  <1> QED
    BY <1>1, <1>2, PTL DEF Spec

-----------------------------------------------------------------------------
(***************************************************************************)
(* The signatures of functions.                                            *)
(***************************************************************************)
BeforeFunctions == {"fetch", "imports", "types", "layout", "walk", "flatten", "using"}
AfterFunctions == {"module_fields", "orders"}

\* No argument type has been appended to a function yet.
NoSignature(m) == \A n \in DOMAIN source.functions[m] : signatures[m][n].argument_types = <<>>

\* A module gets its signatures once, when its used types are complete.
SignatureInv ==
  /\ DOMAIN signatures = Modules
  /\ \A m \in Modules : Ahead(m, BeforeFunctions, "functions") => NoSignature(m)
  /\ pc = "functions" => \A m \in loaded \ todo : SignaturesResolved(m)
  /\ pc \in AfterFunctions => \A m \in loaded : SignaturesResolved(m)
  /\ (pc = "idle" /\ result # Null) => \A m \in loaded : SignaturesResolved(m)

\* A step that leaves signatures and used types alone, and takes no pass back.
LEMMA SignatureKept ==
  ASSUME SignatureInv, UNCHANGED <<signatures, using_types, source>>,
         \A m \in Modules : Ahead(m, BeforeFunctions, "functions")' =>
                            Ahead(m, BeforeFunctions, "functions"),
         loaded' \subseteq Modules,
         pc' = "functions" => \A m \in loaded' \ todo' : SignaturesResolved(m),
         pc' \in AfterFunctions \/ (pc' = "idle" /\ result' # Null) =>
           \A m \in loaded' : SignaturesResolved(m)
  PROVE  SignatureInv'
  <1>1. \A m : SignaturesResolved(m)' <=> SignaturesResolved(m)
    BY DEF SignaturesResolved
  <1>2. \A m : NoSignature(m)' <=> NoSignature(m)
    BY DEF NoSignature
  <1> QED
    BY <1>1, <1>2 DEF SignatureInv

\* One module gets its signatures.
LEMMA ResolveSignaturesDone ==
  ASSUME LoaderInv, SignatureInv, NEW m \in Modules, ResolveSignatures(m)
  PROVE  SignatureInv'
  <1>1. /\ pc = "functions" /\ m \in todo /\ todo \subseteq loaded /\ loaded \subseteq Modules
        /\ source \in Sources
    BY DEF ResolveSignatures, LoaderInv, LoaderType, ModulePasses
  <1>2. /\ UNCHANGED <<using_types, source, loaded, loaded_module_map, result>>
        /\ \/ todo = {m} /\ pc' = "module_fields" /\ todo' = loaded
           \/ todo # {m} /\ pc' = "functions" /\ todo' = todo \ {m}
    BY <1>1 DEF ResolveSignatures, Advance, mapVars, callVars
  <1>3. /\ DOMAIN signatures' = Modules
        /\ \A k \in Modules \ {m} : signatures'[k] = signatures[k]
        /\ \A n \in DOMAIN source.functions[m] : signatures'[m][n] = Signature(m, n)
    BY DEF ResolveSignatures, SignatureInv
  <1>4. NoSignature(m)
    BY <1>1 DEF SignatureInv, Ahead
  <1>5. SignaturesResolved(m)'
    <2> SUFFICES ASSUME NEW n \in DOMAIN source.functions[m]
                 PROVE  LET f == source.functions[m][n]
                            type_of(k) == IF k = 0 THEN "primitive" ELSE using_types[m][k]
                        IN /\ signatures'[m][n].return_type = type_of(f.return_type_info)
                           /\ signatures'[m][n].argument_types =
                                [k \in DOMAIN f.argument_type_infos |->
                                   type_of(f.argument_type_infos[k])]
      BY <1>2 DEF SignaturesResolved
    <2> DEFINE f == source.functions[m][n]
               list == [k \in DOMAIN f.argument_type_infos |-> TypeOf(m, f.argument_type_infos[k])]
    <2>1. f.argument_type_infos \in Seq(Nat)
      <3>1. source.functions \in [Modules -> Seq(FunctionInfo)]
        BY <1>1, SourceAssumption DEF IsSource
      <3>2. f \in FunctionInfo
        BY <3>1, ElementOfSeq
      <3> QED
        BY <3>2 DEF FunctionInfo
    <2>2. list \in Seq({list[k] : k \in DOMAIN f.argument_type_infos})
      BY <2>1
    <2>3. /\ Signature(m, n).return_type = TypeOf(m, f.return_type_info)
          /\ Signature(m, n).argument_types = signatures[m][n].argument_types \o list
      BY DEF Signature
    <2>4. signatures[m][n].argument_types = <<>>
      BY <1>4 DEF NoSignature
    <2> HIDE DEF list
    <2>5. <<>> \o list = list
      BY <2>2, ConcatEmptySeq
    <2>6. /\ signatures'[m][n].return_type = TypeOf(m, f.return_type_info)
          /\ signatures'[m][n].argument_types = list
      BY <1>3, <2>3, <2>4, <2>5
    <2> QED
      BY <2>6 DEF list, TypeOf
  <1>6. ASSUME NEW k \in Modules \ {m}
        PROVE  /\ SignaturesResolved(k) => SignaturesResolved(k)'
               /\ NoSignature(k) => NoSignature(k)'
    <2>1. signatures'[k] = signatures[k] /\ using_types' = using_types /\ source' = source
      BY <1>2, <1>3
    <2>2. SignaturesResolved(k) => SignaturesResolved(k)'
      BY <2>1 DEF SignaturesResolved
    <2>3. NoSignature(k) => NoSignature(k)'
      BY <2>1 DEF NoSignature
    <2> QED
      BY <2>2, <2>3
  <1>7. ASSUME NEW k \in loaded \ todo
        PROVE  k \in Modules \ {m} /\ SignaturesResolved(k)'
    <2>1. k \in Modules \ {m}
      BY <1>1
    <2>2. SignaturesResolved(k)
      BY <1>1 DEF SignatureInv
    <2> QED
      BY <1>6, <2>1, <2>2
  <1>8. \A k \in Modules : Ahead(k, BeforeFunctions, "functions")' =>
                          k # m /\ Ahead(k, BeforeFunctions, "functions")
    BY <1>1, <1>2 DEF Ahead, BeforeFunctions, LoaderInv, LoaderType
  <1> QED
    BY <1>1, <1>2, <1>3, <1>5, <1>6, <1>7, <1>8 DEF SignatureInv, AfterFunctions

\* Every step of the loader keeps what is known of the signatures.
LEMMA NextSignatureInv == LoaderInv /\ LoaderInv' /\ SignatureInv /\ [Next]_vars => SignatureInv'
  <1> SUFFICES ASSUME LoaderInv, LoaderInv', SignatureInv, [Next]_vars PROVE SignatureInv'
    OBVIOUS
  <1>0. /\ loaded \subseteq Modules /\ loaded' \subseteq Modules /\ loaded \subseteq loaded_module_map
        /\ pc \in ModulePasses => todo \subseteq loaded
    BY DEF LoaderInv, LoaderType
  <1>1. ASSUME UNCHANGED <<signatures, using_types, source, loaded, loaded_module_map>>,
               pc \in BeforeFunctions,
               pc' \in BeforeFunctions \/ pc' = "crashed" \/ (pc' = "idle" /\ result' = Null)
        PROVE  SignatureInv'
    <2>1. \A m \in Modules : Ahead(m, BeforeFunctions, "functions")' =>
                             Ahead(m, BeforeFunctions, "functions")
      BY <1>1 DEF Ahead, BeforeFunctions
    <2> QED
      BY <1>0, <1>1, <2>1, SignatureKept DEF BeforeFunctions, AfterFunctions
  <1>2. CASE FetchDone
    BY <1>1, <1>2 DEF FetchDone, ReturnNull, moduleVars, mapVars, BeforeFunctions
  <1>3. CASE WalkParents
    BY <1>1, <1>3 DEF WalkParents, ReturnNull, moduleVars, mapVars, BeforeFunctions
  <1>4. CASE FlattenFields
    BY <1>1, <1>4 DEF FlattenFields, ReturnNull, Crash, moduleVars, mapVars, BeforeFunctions
  <1>5. ASSUME NEW t \in Types, BeginLayout(t) PROVE SignatureInv'
    BY <1>1, <1>5 DEF BeginLayout, moduleVars, mapVars, callVars, BeforeFunctions
  <1>6. ASSUME NEW m \in Modules, FetchModule(m) PROVE SignatureInv'
    <2>1. /\ UNCHANGED <<signatures, using_types, source>> /\ pc = "fetch"
          /\ pc' = "fetch" \/ pc' = "crashed" \/ (pc' = "idle" /\ result' = Null)
          /\ \/ loaded' = loaded /\ loaded_module_map' = loaded_module_map
             \/ /\ m \notin loaded_module_map
                /\ loaded' = loaded \cup {m} /\ loaded_module_map' = loaded_module_map \cup {m}
      BY <1>6 DEF FetchModule, ReturnNull, Crash, moduleVars
    <2>2. \A k \in Modules : Ahead(k, BeforeFunctions, "functions")' =>
                             Ahead(k, BeforeFunctions, "functions")
      BY <2>1 DEF Ahead, BeforeFunctions
    <2> QED
      BY <1>0, <2>1, <2>2, SignatureKept DEF AfterFunctions
  <1>7. ASSUME NEW m \in Modules, LinkImports(m) PROVE SignatureInv'
    BY <1>1, <1>7 DEF LinkImports, Advance, ReturnNull, mapVars, BeforeFunctions
  <1>8. ASSUME NEW m \in Modules, ResolveTypes(m) PROVE SignatureInv'
    BY <1>1, <1>8 DEF ResolveTypes, Advance, moduleVars, mapVars, callVars, BeforeFunctions
  <1>9. ASSUME NEW m \in Modules, ResolveUsingTypes(m) PROVE SignatureInv'
    <2>1. /\ UNCHANGED <<signatures, source, loaded, loaded_module_map>> /\ pc = "using"
          /\ pc' = "using" \/ (pc' = "functions" /\ todo' = loaded)
      BY <1>9 DEF ResolveUsingTypes, Advance, mapVars, callVars
    <2>2. \A k \in Modules : Ahead(k, BeforeFunctions, "functions")' =>
                             Ahead(k, BeforeFunctions, "functions")
      BY <2>1 DEF Ahead, BeforeFunctions
    <2>3. \A k : NoSignature(k)' <=> NoSignature(k)
      BY <2>1 DEF NoSignature
    <2> QED
      BY <1>0, <2>1, <2>2, <2>3 DEF SignatureInv, AfterFunctions
  <1>10. ASSUME NEW m \in Modules, ResolveSignatures(m) PROVE SignatureInv'
    BY <1>10, ResolveSignaturesDone
  <1>11. ASSUME NEW m \in Modules, CreateModuleObject(m) PROVE SignatureInv'
    <2>1. /\ UNCHANGED <<signatures, using_types, source, loaded, loaded_module_map>>
          /\ pc \in AfterFunctions /\ pc' \in AfterFunctions
      BY <1>11 DEF CreateModuleObject, Advance, mapVars, callVars, AfterFunctions
    <2>2. \A k \in Modules : Ahead(k, BeforeFunctions, "functions")' =>
                             Ahead(k, BeforeFunctions, "functions")
      BY <2>1 DEF Ahead, BeforeFunctions, AfterFunctions
    <2> QED
      BY <1>0, <2>1, <2>2, SignatureKept DEF SignatureInv, AfterFunctions
  <1>12. ASSUME NEW m \in Modules, LinkOrders(m) PROVE SignatureInv'
    <2>1. /\ UNCHANGED <<signatures, using_types, source, loaded, loaded_module_map>>
          /\ pc = "orders" /\ pc' \in {"orders", "idle", "crashed"}
      BY <1>12 DEF LinkOrders, Crash, mapVars
    <2>2. \A k \in Modules : Ahead(k, BeforeFunctions, "functions")' =>
                             Ahead(k, BeforeFunctions, "functions")
      BY <2>1 DEF Ahead, BeforeFunctions
    <2> QED
      BY <1>0, <2>1, <2>2, SignatureKept DEF SignatureInv, AfterFunctions
  <1>13. ASSUME NEW m \in Modules, PreLoadModule(m) PROVE SignatureInv'
    <2>1. /\ UNCHANGED <<signatures, using_types, source, loaded, loaded_module_map, result>>
          /\ pc = "idle" /\ pc' = "idle"
      BY <1>13 DEF PreLoadModule, moduleVars, callVars
    <2>2. \A k \in Modules : Ahead(k, BeforeFunctions, "functions")' =>
                             Ahead(k, BeforeFunctions, "functions")
      BY <2>1 DEF Ahead, BeforeFunctions
    <2> QED
      BY <1>0, <2>1, <2>2, SignatureKept DEF SignatureInv, AfterFunctions
  <1>14. ASSUME NEW m \in Modules, CallLoad(m) PROVE SignatureInv'
    <2>1. /\ UNCHANGED <<signatures, using_types, source, loaded_module_map>>
          /\ pc' = "fetch" /\ loaded' = {}
      BY <1>14 DEF CallLoad, moduleVars, mapVars
    <2>2. \A k \in Modules : Ahead(k, BeforeFunctions, "functions")' =>
                             Ahead(k, BeforeFunctions, "functions")
      BY <2>1 DEF Ahead, BeforeFunctions
    <2> QED
      BY <1>0, <2>1, <2>2, SignatureKept DEF AfterFunctions
  <1>15. CASE UNCHANGED vars
    <2>1. UNCHANGED <<signatures, using_types, source, loaded, loaded_module_map, result, pc, todo>>
      BY <1>15 DEF vars, moduleVars, mapVars, callVars
    <2>2. \A k \in Modules : Ahead(k, BeforeFunctions, "functions")' =>
                             Ahead(k, BeforeFunctions, "functions")
      BY <2>1 DEF Ahead
    <2> QED
      BY <1>0, <2>1, <2>2, SignatureKept DEF SignatureInv
  <1> QED
    BY <1>2, <1>3, <1>4, <1>5, <1>6, <1>7, <1>8, <1>9, <1>10, <1>11, <1>12, <1>13, <1>14, <1>15
    DEF Next, LoadStep

\* Before the first call no function has types.
LEMMA InitSignatureInv == Init => SignatureInv
  <1> SUFFICES ASSUME Init PROVE SignatureInv
    OBVIOUS
  <1>1. \A m \in Modules : NoSignature(m)
    BY DEF Init, NoSignature
  <1> QED
    BY <1>1 DEF Init, SignatureInv, AfterFunctions

-----------------------------------------------------------------------------
(***************************************************************************)
(* The layout of a type and the layout of its parent.                      *)
(***************************************************************************)

\* There is one chain of parents from a type up to one that has none.
LEMMA ChainUnique ==
  ASSUME Null \notin Types, NEW t, NEW c \in Seq(Types), NEW d \in Seq(Types),
         c # <<>>, d # <<>>, c[Len(c)] = t, d[Len(d)] = t,
         Links(c), Links(d), parent[c[1]] = Null, parent[d[1]] = Null
  PROVE  c = d
  <1>1. PICK x \in Nat \ {0} : x = Len(c) /\ \A k \in 1 .. x : c[k] \in Types
    BY EmptySeq, LenProperties, ElementOfSeq
  <1>2. PICK y \in Nat \ {0} : y = Len(d) /\ \A k \in 1 .. y : d[k] \in Types
    BY EmptySeq, LenProperties, ElementOfSeq
  <1>c. \A k \in 1 .. x - 1 : parent[c[k + 1]] = c[k]
    BY <1>1 DEF Links
  <1>d. \A k \in 1 .. y - 1 : parent[d[k + 1]] = d[k]
    BY <1>2 DEF Links
  <1> DEFINE Bad == {j \in Nat : j < x /\ j < y /\ c[x - j] # d[y - j]}
  <1>3. Bad = {}
    <2> SUFFICES ASSUME Bad # {} PROVE FALSE
      OBVIOUS
    <2>1. PICK j \in Bad : \A i \in Bad : j <= i
      <3>1. Bad \in SUBSET Nat
        OBVIOUS
      <3> HIDE DEF Bad
      <3> QED
        BY <3>1, LeastNumber
    <2>2. j \in Nat /\ j < x /\ j < y /\ c[x - j] # d[y - j]
      BY <2>1
    <2>3. j # 0
      BY <1>1, <1>2, <2>2
    <2>4. PICK i \in Nat : j = i + 1
      <3>1. j - 1 \in Nat /\ j = (j - 1) + 1
        BY <2>2, <2>3
      <3> QED
        BY <3>1
    <2>5. c[x - i] = d[y - i]
      BY <2>1, <2>2, <2>4
    <2>6. parent[c[x - i]] = c[x - j]
      <3>1. x - j \in 1 .. x - 1 /\ (x - j) + 1 = x - i
        BY <2>2, <2>4
      <3> QED
        BY <1>c, <3>1
    <2>7. parent[d[y - i]] = d[y - j]
      <3>1. y - j \in 1 .. y - 1 /\ (y - j) + 1 = y - i
        BY <2>2, <2>4
      <3> QED
        BY <1>d, <3>1
    <2> QED
      BY <2>2, <2>5, <2>6, <2>7
  <1>4. \A j \in Nat : j < x /\ j < y => c[x - j] = d[y - j]
    BY <1>3
  <1> HIDE DEF Bad
  <1>5. ~(x < y)
    <2> SUFFICES ASSUME x < y PROVE FALSE
      OBVIOUS
    <2>1. x - 1 \in Nat /\ x - 1 < x /\ x - 1 < y /\ x - (x - 1) = 1 /\ y - (x - 1) = (y - x) + 1
      OBVIOUS
    <2>2. c[1] = d[(y - x) + 1]
      BY <1>4, <2>1
    <2>3. y - x \in 1 .. y - 1 /\ y - x \in 1 .. y
      OBVIOUS
    <2>4. parent[d[(y - x) + 1]] = d[y - x]
      BY <1>d, <2>3
    <2> QED
      BY <1>2, <2>2, <2>3, <2>4
  <1>6. ~(y < x)
    <2> SUFFICES ASSUME y < x PROVE FALSE
      OBVIOUS
    <2>1. y - 1 \in Nat /\ y - 1 < x /\ y - 1 < y /\ y - (y - 1) = 1 /\ x - (y - 1) = (x - y) + 1
      OBVIOUS
    <2>2. d[1] = c[(x - y) + 1]
      BY <1>4, <2>1
    <2>3. x - y \in 1 .. x - 1 /\ x - y \in 1 .. x
      OBVIOUS
    <2>4. parent[c[(x - y) + 1]] = c[x - y]
      BY <1>c, <2>3
    <2> QED
      BY <1>1, <2>2, <2>3, <2>4
  <1>7. x = y
    BY <1>5, <1>6
  <1>8. ASSUME NEW k \in 1 .. x PROVE c[k] = d[k]
    <2>1. x - k \in Nat /\ x - k < x /\ x - k < y /\ x - (x - k) = k /\ y - (x - k) = k
      BY <1>7
    <2> QED
      BY <1>4, <2>1
  <1> QED
    BY <1>1, <1>2, <1>7, <1>8, SeqEqual

\* The names of the fields of two layouts in a row.
LEMMA NamesConcat ==
  ASSUME NEW p \in Seq(FieldDescs), NEW q \in Seq(FieldDescs)
  PROVE  Names(p \o q) = Names(p) \o Names(q)
  <1> HIDE DEF FieldDescs
  <1>1. PICK x \in Nat : x = Len(p) /\ DOMAIN p = 1 .. x
    BY LenProperties
  <1>2. PICK y \in Nat : y = Len(q) /\ DOMAIN q = 1 .. y
    BY LenProperties
  <1>3. /\ p \o q \in Seq(FieldDescs) /\ Len(p \o q) = x + y
        /\ \A i \in 1 .. x + y : (p \o q)[i] = IF i <= x THEN p[i] ELSE q[i - x]
    BY <1>1, <1>2, ConcatProperties
  <1>4. DOMAIN (p \o q) = 1 .. x + y
    BY <1>3, LenProperties
  <1> DEFINE P == [k \in 1 .. x |-> p[k].name]
             Q == [k \in 1 .. y |-> q[k].name]
             All == {p[k].name : k \in 1 .. x} \cup {q[k].name : k \in 1 .. y}
  <1>5. Names(p) = P /\ Names(q) = Q
    BY <1>1, <1>2 DEF Names
  <1>6. P \in Seq(All) /\ Q \in Seq(All) /\ Len(P) = x /\ Len(Q) = y
    <2>1. P \in [1 .. x -> All] /\ Q \in [1 .. y -> All]
      OBVIOUS
    <2> HIDE DEF P, Q, All
    <2> QED
      BY <2>1
  <1>7. P \o Q = [i \in 1 .. x + y |-> IF i <= x THEN P[i] ELSE Q[i - x]]
    <2> HIDE DEF P, Q, All
    <2>1. /\ P \o Q \in Seq(All) /\ Len(P \o Q) = x + y
          /\ \A i \in 1 .. x + y : (P \o Q)[i] = IF i <= x THEN P[i] ELSE Q[i - x]
      BY <1>6, ConcatProperties
    <2>2. P \o Q \in [1 .. x + y -> All]
      BY <2>1, LenProperties
    <2>3. P \o Q = [i \in 1 .. x + y |-> (P \o Q)[i]]
      BY <2>2
    <2> QED
      BY <2>1, <2>3
  <1>8. \A i \in 1 .. x + y :
          (p \o q)[i].name = IF i <= x THEN P[i] ELSE Q[i - x]
    <2> TAKE i \in 1 .. x + y
    <2>1. CASE i <= x
      <3>1. i \in 1 .. x /\ (p \o q)[i] = p[i]
        BY <1>3, <2>1
      <3> QED
        BY <2>1, <3>1
    <2>2. CASE ~(i <= x)
      <3>1. i - x \in 1 .. y
        BY <2>2
      <3>2. (p \o q)[i] = q[i - x]
        BY <1>3, <2>2
      <3> QED
        BY <2>2, <3>1, <3>2
    <2> QED
      BY <2>1, <2>2
  <1>9. Names(p \o q) = [i \in 1 .. x + y |-> (p \o q)[i].name]
    BY <1>4 DEF Names
  <1> QED
    <2> HIDE DEF P, Q, All
    <2> QED
      BY <1>5, <1>7, <1>8, <1>9

\* The names of the fields a type declares.
LEMMA NamesDeclared ==
  ASSUME NEW t
  PROVE  Names(DeclaredFields(t)) = DeclaredNames(t)
  BY DEF Names, DeclaredFields, DeclaredNames

\* A layout is that of the parent, if there is one, and the fields declared.
LEMMA LayoutOfParent ==
  ASSUME LoaderInv, NEW t \in Types, LaidOut(t)
  PROVE  /\ DeclaredParent(t) = Null => all_fields[t] = DeclaredFields(t)
         /\ (DeclaredParent(t) # Null /\ LaidOut(DeclaredParent(t))) =>
              /\ all_fields[DeclaredParent(t)] \in Seq(FieldDescs)
              /\ all_fields[t] = all_fields[DeclaredParent(t)] \o DeclaredFields(t)
  <1>0. LoaderType /\ LayoutOnce /\ Null \notin Types
    BY SourceFacts DEF LoaderInv, LoaderType
  <1>1. Resolved(t) /\ LaidRight(t)
    BY <1>0 DEF LayoutOnce, LaidRight
  <1>2. PICK c \in Seq(Types) : /\ ChainTo(c, t) /\ parent[c[1]] = Null
                                /\ all_fields[t] = FlattenSeq(FieldsOf(c))
    BY <1>1 DEF LaidRight
  <1>3. c # <<>> /\ c[Len(c)] = t /\ Links(c)
    BY <1>2 DEF ChainTo
  <1>4. /\ Len(c) \in Nat \ {0} /\ Len(FieldsOf(c)) = Len(c)
        /\ \A k \in 1 .. Len(c) : c[k] \in Types /\ FieldsOf(c)[k] = add_fields[c[k]]
    BY <1>0, <1>3, FieldsOfFacts, EmptySeq
  <1>p. PICK p : p = DeclaredParent(t) /\ p = parent[t] /\ add_fields[t] = DeclaredFields(t)
    BY <1>1 DEF Resolved
  <1>5. CASE Len(c) = 1
    <2>1. p = Null
      BY <1>2, <1>3, <1>5, <1>p
    <2>2. FlattenSeq(FieldsOf(c)) = add_fields[t]
      BY <1>3, <1>4, <1>5, FlattenOne
    <2> QED
      BY <1>2, <1>p, <2>1, <2>2
  <1>6. CASE Len(c) # 1
    <2>1. PICK n \in Nat \ {0} : Len(c) = n + 1
      <3>1. PICK x \in Nat \ {0} : x = Len(c) /\ x # 1
        BY <1>4, <1>6
      <3>2. x - 1 \in Nat \ {0} /\ x = (x - 1) + 1
        BY <3>1
      <3> QED
        BY <3>1, <3>2
    <2>2. p = c[n] /\ p \in Types
      <3>1. n \in 1 .. Len(c) - 1 /\ n \in 1 .. Len(c)
        BY <2>1
      <3> QED
        BY <1>3, <1>4, <1>p, <2>1, <3>1 DEF Links
    <2> SUFFICES ASSUME LaidOut(p)
                 PROVE  /\ all_fields[p] \in Seq(FieldDescs)
                        /\ all_fields[t] = all_fields[p] \o add_fields[t]
      BY <1>0, <1>p, <2>2
    <2>3. PICK d \in Seq(Types) : /\ ChainTo(d, p) /\ parent[d[1]] = Null
                                  /\ all_fields[p] = FlattenSeq(FieldsOf(d))
      BY <1>0, <2>2 DEF LayoutOnce, LaidRight
    <2>4. d # <<>> /\ d[Len(d)] = p /\ Links(d)
      BY <2>3 DEF ChainTo
    <2>5. PICK e \in Seq(Types) : Len(e) = n /\ \A k \in 1 .. n : e[k] = c[k]
      <3>1. \A k \in 1 .. n : c[k] \in Types
        BY <1>4, <2>1
      <3>2. /\ SubSeq(c, 1, n) \in Seq(Types) /\ Len(SubSeq(c, 1, n)) = n
            /\ \A k \in 1 .. n : SubSeq(c, 1, n)[k] = c[k]
        BY <3>1, SubSeqProperties
      <3> QED
        BY <3>2
    <2>6. e # <<>> /\ e[Len(e)] = p /\ parent[e[1]] = Null
      BY <1>2, <2>1, <2>2, <2>5, EmptySeq
    <2>7. Links(e)
      <3>1. \A k \in 1 .. n - 1 : k \in 1 .. n /\ k + 1 \in 1 .. n /\ k \in 1 .. Len(c) - 1
        BY <2>1
      <3> QED
        BY <1>3, <2>5, <3>1 DEF Links
    <2>8. d = e
      BY <1>0, <2>3, <2>4, <2>6, <2>7, ChainUnique
    <2>9. /\ Len(FieldsOf(d)) = n
          /\ \A k \in 1 .. n : FieldsOf(c)[k] = FieldsOf(d)[k]
      <3>1. /\ Len(FieldsOf(d)) = Len(d)
            /\ \A k \in 1 .. Len(d) : FieldsOf(d)[k] = add_fields[d[k]]
        BY <1>0, <2>4, FieldsOfFacts
      <3>2. \A k \in 1 .. n : k \in 1 .. Len(c)
        BY <2>1
      <3> QED
        BY <1>4, <2>5, <2>8, <3>1, <3>2
    <2>10. FlattenSeq(FieldsOf(c)) = FlattenSeq(FieldsOf(d)) \o FieldsOf(c)[n + 1]
      <3>1. PICK r, s : r = FieldsOf(c) /\ s = FieldsOf(d)
        OBVIOUS
      <3>2. Len(s) = n /\ Len(r) = n + 1 /\ \A k \in 1 .. n : r[k] = s[k]
        BY <1>4, <2>1, <2>9, <3>1
      <3>3. FlattenSeq(r) = FlattenSeq(s) \o r[n + 1]
        BY ONLY <3>2, FlattenAppend, n \in Nat \ {0}
      <3> QED
        BY <3>1, <3>3
    <2>11. FieldsOf(c)[n + 1] = add_fields[t]
      BY <1>3, <1>4, <2>1
    <2>12. all_fields[p] \in Seq(FieldDescs)
      BY <1>0, <2>3, <2>4, FieldsOfFacts
    <2> QED
      BY <1>2, <2>3, <2>10, <2>11, <2>12
  <1> QED
    BY <1>5, <1>6

-----------------------------------------------------------------------------
(***************************************************************************)
(* The theorems.                                                           *)
(***************************************************************************)

\* load_module fills the imports of a module in once, in the order of the
\* program, whatever calls came before and whichever failed: an import index
\* means the module the program says.
THEOREM ImportsLinkedOnce == Spec => []ImportsInOrder
  <1>1. LoaderInv => ImportsInOrder
    <2> SUFFICES ASSUME LoaderInv, NEW m \in Modules PROVE IsPrefix(import_modules[m], names[m])
      BY DEF ImportsInOrder, names
    <2>1. import_modules[m] \in {<<>>, names[m]} /\ names[m] \in Seq(Modules)
      BY SourceFacts DEF LoaderInv, LoaderType, ImportOnce
    <2> QED
      BY <2>1 DEF IsPrefix
  <1> QED
    BY <1>1, LoaderInvAlways, PTL

\* The passes of load_module leave nothing out: the module it returns, and all
\* that was parsed with it, is linked and laid out, its functions have the types
\* their text lists, and its imports are loaded.
THEOREM ReturnedIsComplete == Spec => []SuccessIsComplete
  <1>1. Init => SignatureInv
    BY InitSignatureInv
  <1>2. LoaderInv /\ LoaderInv' /\ SignatureInv /\ [Next]_vars => SignatureInv'
    BY NextSignatureInv
  <1>3. LoaderInv /\ SignatureInv => SuccessIsComplete
    BY DEF LoaderInv, SignatureInv, ReturnsLinked, SuccessIsComplete, names
  <1> QED
    BY <1>1, <1>2, <1>3, LoaderInvAlways, PTL DEF Spec

\* The null pointers load_module runs into are in the text of the program; no
\* order of calls, and no call that failed before, adds another.
THEOREM CrashInTheText == Spec => []CrashHasCause
  <1>1. LoaderInv => CrashHasCause
    BY DEF LoaderInv
  <1> QED
    BY <1>1, LoaderInvAlways, PTL

\* The layout of a type is the layout of its parent and its own fields, no name
\* twice, for chains of parents of any length and in any order of the types.
THEOREM ParentIsPrefix == Spec => []LayoutExtendsParent
  <1>1. LoaderInv => LayoutExtendsParent
    <2> SUFFICES ASSUME LoaderInv, NEW t \in Types, LaidOut(t),
                        DeclaredParent(t) # Null => LaidOut(DeclaredParent(t))
                 PROVE  /\ Names(all_fields[t]) =
                             (IF DeclaredParent(t) = Null THEN <<>>
                              ELSE Names(all_fields[DeclaredParent(t)])) \o DeclaredNames(t)
                        /\ IsInjective(Names(all_fields[t]))
      BY DEF LayoutExtendsParent
    <2>1. IsInjective(Names(all_fields[t]))
      BY DEF LoaderInv, LayoutOnce, LaidRight
    <2>2. DeclaredFields(t) \in Seq(FieldDescs)
      BY DeclaredFieldsType DEF LoaderInv, LoaderType
    <2>3. CASE DeclaredParent(t) = Null
      <3>1. Names(all_fields[t]) = DeclaredNames(t)
        BY <2>3, LayoutOfParent, NamesDeclared
      <3>2. <<>> \o DeclaredNames(t) = DeclaredNames(t)
        <4>1. source.field_infos[t] \in Seq(FieldInfo)
          BY SourceFacts DEF LoaderInv, LoaderType
        <4>2. DeclaredNames(t) \in Seq(FieldNames)
          BY <4>1, InfoFacts DEF DeclaredNames
        <4> QED
          BY <4>2, ConcatEmptySeq
      <3> QED
        BY <2>1, <2>3, <3>1, <3>2
    <2>4. CASE DeclaredParent(t) # Null
      BY <2>1, <2>2, <2>4, LayoutOfParent, NamesConcat, NamesDeclared
    <2> QED
      BY <2>3, <2>4
  <1> QED
    BY <1>1, LoaderInvAlways, PTL
=============================================================================
