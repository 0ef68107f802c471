# CatLa: specifications, model checks and proofs

CatLa is a virtual machine written in C++: a reference-counted heap with a
concurrent cycle collector, a size-class allocator, and an interpreter for
modules that a text parser and a loader build. This directory holds TLA+
specifications of its parts, TLC configurations that check them on small
instances, and TLAPS proofs of what matters most for every instance.

Paths below are relative to `src/src/`.

## 1. The system

| part | state | operations | who calls it |
|---|---|---|---|
| reference counting (`gc/GC.h`) | per object: `state`, `count`, `async_release`, `lock`, fields; the collector's `suspected_object_list` | `increment_reference_count`, `decrement_reference_count`, `decrement_reference_count_waiting_gc_object`, `add_suspected_object` | every mutator thread, the collector, main |
| cycle collector (`gc/GC.cpp`) | the list taken for this round, the marks and counts of the root being visited, the objects to release | `gc_collect` | the collector thread, over and over; main at the end |
| field accessors (`CatLa.cpp`) | - | `set_clone_`, `get_clone_`, `set_move_`, `get_move_object_field` | the threads of the harness (`func1`) |
| heap allocator (`heap/HeapAllocator.*`) | chunks of 13 blocks of cells; per block a cursor and an `empty` flag; the array of chunks | `malloc` of a chunk and of an allocator, `create_new_chunk` | every thread: a shared allocator with locks, and one per `VMThread` without |
| locks (`util/Concurrent.h`, `heap/HeapAllocator.h`) | a flag or a counter | `SpinLock`, `RWLock`, `object_lock` | the allocator, the collector, the accessors |
| module loader (`vm/CatVM.cpp`, `vm/modules/`) | `pre_loaded_module_map`, `loaded_module_map`; per module imports, types, functions; per type parent and layout | `pre_load_module`, `load_module` | the embedding program |
| object orders (`vm/modules/orders/New.cpp`, `GetFieldValue.cpp`, `SetFieldValue.cpp`) | fields of a shared object, one of which may hold the marker of a lent field; registers | `eval` and `link` of `new`, `get_field` (clone, borrow, move), `set_field` (with and without `borrow_lock`) | the interpreter, on several threads |
| interpreter (`vm/CatVM.cpp`, `vm/modules/orders/`) | per `VMThread` block, order index, return flag; per call registers | `run_function`, `eval` of the orders | the embedding program |
| parser (`vm/parser/`) | position in the text, the tables of the module so far, the map of the section being read | `parse`, one reader per section, `parse_label_blocks`, `parse_orders` | the loader |

How they interact. A mutator allocates an object (allocator), moves
references to it into and out of fields (accessors, which take the lock of the
object whose field it is) and gives references up (reference counting). An object
of a type that may be on a cycle is *suspected* the first time it is
incremented: it is put on a list and from then on only the collector returns its
cell. The collector locks what a suspect reaches, decides from counts that
mutators go on changing whether anything outside leads there, and releases what
nothing leads to. A released cell is one whose `state` says dead, which is all
the allocator asks of a cell it hands out. The collector goes by the `field_length` of an
object and visits every field that is not null; the `reference_fields` bitmaps that
types have are never read in `GC.cpp`. The loader builds types whose layouts the
field indexes of the orders rely on.

Not everything is joined up yet. No code calls `RWLock::read_lock` or
`write_lock`. The parser constructs `set_field` and none of the `get_field` and
`new` orders, and an object that `new` makes has `field_length` 0
(`vm/modules/orders/New.cpp:11` and `:16`), so that a collection would not follow
its fields. These parts are modelled for what they are; only the harness of
`CatLa.cpp` uses the managed heap.

What is hard:

* a collection reads counts one at a time while other threads change them, and
  locks objects one at a time while other threads exchange fields;
* a suspected object that dies is taken apart by a mutator without a lock,
  partly, and by the collector later, for the rest;
* suspects are spread over two lists that are swapped and merged;
* the collector thread stops before the last references are given up, and main
  makes a fixed number of collections afterwards;
* allocators share cursors, flags and the array of chunks between threads with
  few locks, and compute addresses incrementally;
* the lock is optimistic: the value it expects may be stale;
* the loader works in passes that each need the previous one complete for all
  modules, in the order of hash containers, and returns early on errors;
* `iadd` leaves bits of unknown value in a register; a jump is followed by the
  loop's own increment;
* a field that is lent holds a marker, which one kind of store waits for, another
  overwrites and `get_field` waits for with the object locked;
* five nested readers of the parser share one position, and a text may end in any
  of them; constants are looked up in a table whose length nobody checks, and
  tables are made for the largest index before gaps are refused.

Each of these is an entry of `hazards` in `PROJECT.json`, at the line where it
bites, with the properties that watch it.

## 2. Modules

| module | models | state and actions |
|---|---|---|
| `ObjectGraph` | objects, fields, reachability | operators only; `Reachable` is a least closed set, not a recursion, so that proofs can use it |
| `RefCount` | `gc/GC.h` | one action per access to memory another thread sees; `pc`, `ret`, `tgt` stand for the inlined calls, `dr_*`, `wg_*` for the locals of the two release loops |
| `CycleCollector` | `gc_collect` | one action per lock, load or store that mutators can observe; the marking passes, which read only locked objects, are the operator `White` |
| `ManagedHeap` | composes the two with mutators and main | accessors, `Malloc`, `Drop`, `Finish`; the properties of the whole. Threads may go on for ever |
| `Harness` | how `func2` and `main` of `CatLa.cpp` end | extends `ManagedHeap` by `task_flag`, the join of `func2` and the collections of main; the collector's steps are the same, begun by `func2` or by main |
| `TrialDeletion` | the marking passes of `gc_collect` field by field | red, gray and scan loops on an arbitrary frozen graph; their verdict is the operator `White` of `CycleCollector` |
| `RWLock`, `ReadersWriter` | `concurrent::RWLock`; what such a lock promises | load, exchange, spurious failure, unlock; refinement |
| `HeapAllocator` | `HeapAllocator.cpp` | snapshot of chunks, block search, cell claim, installation, block retirement, growth; memory in bytes |
| `Parser` | `VMParser.cpp` | one action per reader, each step reads a line; the tables; what becomes of the text: a module, `nullptr`, an exception nobody catches, or a read outside the text or a table |
| `ModuleLoader` | `CatVM::load_module` | fetch, and one action per pass and element of a pass, each with its failure returns |
| `Interpreter` | `CatVM::run_function` | one action per order, `CallFunction`; `iadd` of a type it has no branch for (`void`, which the parser accepts) is `AddNothing` |
| `ObjectOrders` | `new`, `get_field`, `set_field` | begin, lock, and one action for each `eval`, by several threads; `owns` and `borrows` record the discipline of the program |
| `Ownership` | who owns the references `ManagedHeap` counts | definitions only: the invariant behind the counts (section 4) |
| `ManagedHeapProofs` | - | the theorems about `ManagedHeap` and `Harness`: types and locks; the lemmas on ownership and the steps of the mutators, of reference counting and of the collector, and what follows for counts and releases (section 4) |
| `TrialDeletionProofs`, `HeapAllocatorProofs`, `RWLockProofs`, `ModuleLoaderProofs`, `ParserProofs`, `InterpreterProofs`, `ObjectOrdersProofs` | - | the theorems about the module each extends (section 4) |
| `MC*` | - | values of constants for TLC |

Operators whose comment begins with "Fault:" are not part of the
specifications. Each is a plausible mistake in the definition that follows it
(a dropped guard, a missing reset, rounding the wrong way), and `mutants` in
`PROJECT.json` says which property notices it: with the definition replaced by
the faulty one TLC reports that property violated.

### What the abstraction keeps and drops

* *Steps.* An accessor's critical section is one step, taken while the lock is
  free, because it makes a single access. Only `get_clone_object_field` does
  more inside its lock (the increment, itself up to three steps) and is split.
  Local stacks are sets or bags popped in any order, which covers the order the
  code pops in.
* *Memory model.* Steps are sequentially consistent. The code orders counts with
  relaxed and acquire-release operations and reads fields under locks;
  reorderings a weaker hardware model allows are not explored.
* *Clients.* A mutator of `ManagedHeap` makes any sequence of calls that obeys
  the ownership rules the harness obeys: a call's arguments are the module object
  or references the caller holds, and every reference is given up once. `func1`
  is one such client (its decrements at the end of a round are `Drop`). `set_move_object_field_uncheck`, which the harness uses on
  the empty fields of a fresh object, then does what `set_move` does.
* *Types.* Constants say which objects are of a cyclic type and which may refer to
  which. `AcyclicTypes` states what the flag means: an object of any other type is
  on no cycle. `Malloc` of `ManagedHeap` hands out any dead cell; which one is the
  subject of `HeapAllocator`.
* *Numbers.* Reference counts and the lock's counter wrap at `SizeMax`.
  Interpreter words are three bits, an `int` two, so that the arbitrary upper
  half of a narrow sum exists and all values are tried. Allocator sizes are the real ones.
* *Text.* A line is a record of what the regular expressions capture of it, and
  lines are chosen as they are read, so a run goes through all texts of `MaxLines` lines over
  a set of lines. Constants are as long as they say (`4:s#nyan`), and numbers fit into 64
  bits. `SizeMax` is the largest `size_t`, and the code's `max_index + 1` wraps there; `MaxEntries` is the longest table there is
  memory for. A vector that is longer throws an exception `parse` does not catch; `calloc` returns a null pointer, which is written through, or, where the
  size in bytes wraps, too little. The bytes of a constant are abstracted to their number, which is what a look-up as a name reads: eight are stored for a number. The loader starts from what the parser delivers; the one conversion it keeps is
  what becomes of the name of a used type, since a property depends on it.
* *Ownership.* The machine keeps no record of who owns what is in a register. `ObjectOrders`
  keeps one and lets programs do only what the orders are named for: what is owned is stored once, what is
  borrowed goes back to its field by a store that does not wait, results go to registers that hold nothing. Without
  this, any program can break any count.

## 3. What is checked

Times are for two workers.

| run | instance | states | shows |
|---|---|---|---|
| `managed_heap` | two mutators, main, collector; two cyclic objects and the module object, one field each, two references in locals at a time | 816 k, 2 min | `TypeOK`, `NoPrematureRelease`, `CountCovers`, `NoZeroDiagnostic`, `ClosureStable`, `SuspectedTracked`, `LockExclusive`, no deadlock |
| `managed_heap_fields` | one mutator; two fields; a cyclic object and a leaf of an acyclic type | 156 k | `NoPrematureRelease`, `CountCovers`, `NoZeroDiagnostic` where an object refers twice to another and where both release paths run together |
| `harness` | one mutator that makes any calls on two cyclic objects, or one that leaves two cycles sharing a third; main collects five times; main and `func2` fair | 218 k, 1 min | `EverythingCollected`, `FieldsGuarded` |
| `trial_deletion` | every graph of three objects with two fields, every count with at most one reference from outside | 400 k | `VerdictCorrect`: condemned is exactly the garbage the root reaches; `RedComplete`, `NoDiagnostic`, `MarkingEnds` |
| `rwlock` | three threads | 6 k | `Exclusion`, `CountMeaning`, refinement of `ReadersWriter`, `SomeoneGetsIn` |
| `allocator_shared` | two threads, two cells a block, sizes at the top of the ladder, five calls, fair | 526 k, 2 min | `NoOverlap`, `IndexesInRange`, `NoChunkLost`, `GrowsOnDemand`, `MallocProgress` |
| `allocator_private` | a thread's own allocator, two cells a block, a first call for 0 to 61 fields, then five for 6 or 58 | 374 k | `InOwnCell` at every boundary of the size arithmetic, past the largest cell, on the climb past the jump from 96 to 128 bytes and over several chunks |
| `parser` | every text of at most 7 lines (constants, imports, type definitions, used types) or 11 (a constant, functions, blocks, orders) over the lines of `MCParser`; `SizeMax` 10, memory for two entries | 3.2 M, 1 min | `TablesFromText`, `FunctionsFromText`, `SafeOnSoundText` |
| `module_loader` | two modules, three types, every choice of parents, clashing, missing and foreign fields, functions with primitive and used types, two calls | 237 k | `ImportsInOrder`, `CrashHasCause`, `LayoutExtendsParent`, `SuccessIsComplete`, `LoadEnds` |
| `module_loader_types` | the same, one call | - | a violation: `UsingTypesResolve`, see below |
| `interpreter` | functions that add at mixed widths, add `void` and jump, called twice | 35 k | `CallRunsToItsEnd`, `SumsExact` |
| `object_orders` | two threads, two registers each, an object with two fields, two field objects, four orders, fair | 820 k, 1 min | `LentToOne`, `CountAccounts`, `SelfWaitMeansLent`, `OrdersEnd` |

Some of these say precisely where the code stops being right:

* `SafeOnSoundText`: parsing reads outside the text or a table, or ends in an exception that `parse` does not
  catch, only if a name refers to a constant that is not defined before it, or to a number whose text is longer than the 8 bytes it is stored in
  (`get_const_value_as_string` reads as many bytes as the text had), `iadd` has two arguments, something read by
  `stoll`, `stod` or `stoull` is no number, an index asks for more entries than there is memory for, or the text ends in a constant without a newline.
* `TablesFromText` and `FunctionsFromText` except texts with the index `SIZE_MAX` (`Unwrapped`), with which the length of a table wraps to 0 and its entries are dropped.
* `EverythingCollected`: `func2` returns, main comes to its listing of living objects, and the listing is empty. A collection condemns what is garbage as seen from one suspect; garbage that other
  garbage refers to from outside what that suspect reaches survives it. In the plan `levels` of `MCHarness` two cycles both lead to a third, and with `FinalCollections` = 1 the property fails; with 2, and with the five of `main`, it holds. Nothing is claimed
  for garbage in more levels than main makes collections.
* `MallocProgress`: `malloc` is lock-free. That every call returns is not claimed, and is false of threads that go on allocating for ever: others may fill every chunk a thread adds before it looks.
* `CrashHasCause`: `load_module` dereferences a null pointer only for a module that did not parse, for a field whose type
  is not in the module it is looked for in, or for a `set_field`, whose type is never found.
* `SelfWaitMeansLent` and `OrdersEnd`: a thread waits for its own lock only in a `get_field` that has met a lent
  field, and otherwise every order ends. Once it does wait, the borrower cannot give back, since it needs that lock.
* `CountAccounts`: the one way the orders lose a reference is a store over a field that holds one.

### Why the bounds are enough to be interesting

* Two cyclic objects make self-loops, two-cycles and a chain into a cycle; two
  mutators and the collector make three parties for one lock, one count and one
  list; two references in locals let one mutator link two objects, or two mutators
  hold the same one, while fields keep others alive. With one field the object graph has out-degree one; the
  second run has two. Every action of the specifications fires.
* `SizeMax` is far above what a bounded client can count to, so a wrap is always
  an error of the counting and shows in `CountCovers`.
* Three objects with two fields are the smallest graphs on which the scan meets
  an object both before and after it is known to be in use, and pushes it twice.
* Two threads that need a new chunk at the same moment are what `NoChunkLost` is
  about. `FieldLengths` 59 and 60 are the last that fit and the first that do
  not; with cells at the top of the ladder one failed block means a new chunk. Six
  calls are what it takes to fill the blocks of 88 and of 96 bytes and to use the
  second cell of the next one, whose address depends on the block size worked out on the way.
  With two cells a block five calls are what it takes for a thread to add a chunk, another to take both its cells, and the first to
  grow the heap again. `MallocProgress` would fail if a chunk were asked for beyond `MaxChunks`, as it does with three.
* In the plan `pair` the mutator of `harness` may end with any graph on two objects, one field each. The plan `levels` fixes its calls, to reach
  a graph on three objects with two fields that free mutators would need far more states for; the collector interleaves with them freely.
* Seven lines are enough for two sections with two entries each, or for a section of constants,
  one that uses them and one left open. Eleven are enough for a constant and a function with
  two blocks, or two functions with one, and for the orders that close nothing. Index 4 is more than the two entries there is memory for, index 10 is `SizeMax`, and a
  constant of ten digits is longer than the number it stands for.
* Four orders are enough for one thread to borrow, another to wait, the first to give back and
  one more order to come in between. Orders name the second field, or one that does not exist and
  then mean the first.
* Symmetry (mutators, cyclic objects) is used in `managed_heap` only, where no
  temporal property is checked and nothing chooses among the symmetric values.

Deadlock checking is on for the heap and the lock. It is off where the bounded
program ends: the harness at its listing, marking, parsing, a bounded number of `malloc`, load or function calls or of orders.

### Fairness

* `Harness`: main and `func2` keep running, inside the procedures they call too (weak fairness of each). They are
  operating-system threads that wait for nothing but joins and object locks; when they need a lock that `EverythingCollected` depends on, the mutators have returned. Of the
  mutators nothing is asked: the property speaks of what follows when they have returned. `func2` begins no collection after `task_flag` is
  set, and main makes exactly `FinalCollections` of them.
* `RWLock`: threads run, critical sections end, and exchanges of the value that
  is there do not all fail for ever (strong fairness on the exchange of some
  thread), which is what a lock-free loop over `compare_exchange_weak` rests on. No fairness
  between readers and writers is assumed: a writer may starve.
* `HeapAllocator`, `TrialDeletion`, `ModuleLoader`: a thread inside a call keeps running. In `HeapAllocator` it is enough that one of the threads inside does, whichever; nobody need call again.
* `ObjectOrders`: a thread inside an order keeps running (weak fairness on its steps). `object_lock` is a spin lock without
  a queue, so nothing stronger is assumed: that is enough because a thread begins finitely many orders here, and
  `OrdersEnd` promises nothing while an order is at a lent field, whose borrower is not obliged to give back.

### What the checks found

`UsingTypesResolve` fails: the entries of a program's `$type` section are
looked up by the digits of a constant's number, because `parse_type` stores the
text of the number as the name (`vm/parser/VMParser.cpp:355`), where
`parse_type_define` stores the string the constant holds
(`vm/parser/VMParser.cpp:286`). Every used type is a null pointer after loading, and the
sample program of `CatLa.cpp:533` uses two. An order that needs such a type makes
`load_module` dereference it, the state `crashed` of `ModuleLoader`.

The names of fields have the same trouble (`FieldName` of `Parser`): `parse_type_define` keeps the digits as
the name (`vm/parser/VMParser.cpp:302` and `:306`), `set_field` names its field by the string of a constant
(`:617`). The sample program defines the constants `a`, `b` and `c` for its fields (`CatLa.cpp:519`) and nothing else uses them. A
`set_field` that is linked against such a type finds no field of the name and keeps the index 0.

Modelling also showed behaviour that no text in the repository contradicts and
that is therefore in the models as it is: a block found full is never offered
again; a load that fails leaves its modules registered and unlinked, and a later
load of one of them returns `nullptr`; the order a jump lands on is skipped; the
module object is as long as the module type's own fields, without inherited ones.

## 4. What is proved

Each theorem says of a property of section 3 that it holds in every behaviour of the specification, for every
value of the constants that the named assumptions allow. Each rests on an inductive invariant, the property with what
it takes to carry it over every step. TLC has checked each invariant on the instances of section 3, all of it but one part of the allocator's that says a set exists (below).

**The heap** (any number of threads, objects and fields).

* `ManagedHeapProofs!TypeCorrect` (`TypeOK`): every pointer that reference
  counting, the accessors or the collector dereference is an object (`PointersOK`, label by label), and every variable has its type (`VariablesTyped`). The inductive
  invariant `TypeInv` adds what program counters say about locals:
  `CallsOK` (the argument of a running procedure, and that a procedure returns only to the code that
  called it), `AccessorsOK` (the field an accessor works on), `CollectorOK` (root and current object).
  `TypeOK` alone is not inductive: it says nothing of the place a procedure returns to, nor of the argument the caller had.
* `ManagedHeapProofs!LocksExclude` (`LockExclusive`): an object's lock flag is set exactly while
  one thread is in its critical section. The invariant is `TypeInv /\ LockExclusive`; `LockFrame` covers
  all the steps that touch no lock.

**The counts and the release of objects** (any number of threads, objects and fields).

`ManagedHeapProofs` proves of the composed system

* `CountsCover` (`CountCovers`): no increment is lost and no reference is given up twice;
* `NothingReleasedEarly` (`NoPrematureRelease`): what a thread can still reach through a reference it holds is neither condemned nor returned;
* `NoDiagnosticPrinted` (`NoZeroDiagnostic`): the messages of `GC.h` and `GC.cpp` about impossible counts are unreachable;
* `ClosureIsStable` (`ClosureStable`), `SuspectsTracked` (`SuspectedTracked`) and `FieldsAreGuarded` (`FieldsGuarded`, an action property);
* `HarnessUsesHeap`: every behaviour of `Harness` is one of `ManagedHeap`, so that all of this holds of the program of `CatLa.cpp`, while main collects at its end too.

They hold only together. The inductive invariant is `Inv == LockInv /\ OwnInv`; `OwnInv`, defined in `Ownership`, has these parts:

* `CountInv`. The count of an object in use is the number of its `Tokens`: the locals of mutators and main, the calls that have it as their argument, and
  the fields that hold it *and carry*. A field of a live object with references carries. One of a condemned object does until the collector's release loop has passed it
  (`GaveUp`), one of an object whose count reached zero while the loop of some thread still has it ahead (`Owed`), one of a dead cell never: `decrement_reference_count` leaves the pointers
  where they are. A condemned object has tokens only in fields of condemned ones. `CountCovers` follows because the references it counts are some of the tokens; it is not inductive, since it
  says nothing of the fields of dying objects.
* `HandsDying`, `HandsApart`, `FlowInv`. An object whose count reached zero is in at most one local variable of one thread, so that no field is given up twice.
* `AcyclicInv`, by `Apart`: some closed set holds what a dying object refers to and not the object. So taking a dying object apart never comes back to it, although its fields are not
  cleared, and a suspected one that dies while the collector visits it is not taken for a cycle.
* `RedInv`, `GrayInv`. While the collector locks, what it has seen is in use if its root is (`ReachLocked` says by sets that nothing else was seen), and the fields it has read stay as they are, because every writer needs the lock. While it loads, one count after the other, mutators
  go on counting: an object whose loaded count is no more than the references met inside has got none since, for a new reference can only be made from an existing one, and those are all in fields of locked objects.
  So the verdict, reached from counts read at different moments, is right at the moment it is acted on.
* `ReleaseInv`, `ListInv`, `MutatorInv`. Everything condemned is to be released, and what a waiting object with no references left refers to is released with it; a suspect is on a list, and a released one on none; mutators name only what they hold.

The step of every action is a lemma of its own (`MallocOwn`, ..., `MarkWhiteOwn`). The steps that move one reference (a token appears, goes, or passes from a local to a field) rest on the lemmas on how `Tokens` and
then `CountOK` follow. The marking passes enter as `White`, whose meaning `TrialDeletionProofs` proves.

**The marking passes** (any finite graph, any counts that cover its fields).

* `TrialDeletionProofs!RedPassComplete`, `TrialDeletionCorrect`, `NoCountBelowZero` (`RedComplete`, `VerdictCorrect`,
  `NoDiagnostic`): the red pass locks what the root reaches and finds out whether it is on a cycle, what is condemned is what
  no reference from outside leads to, and nothing is counted below zero. `MarkInv` follows the loops: in the red and the gray pass an object
  is marked when it is first met and pushed once, and every field passed leads to a marked object (`Traversal`); in the gray pass what is taken from a count is
  the number of fields passed (`GrayInv`, by cardinalities of sets of fields); in the scan a field that was scanned never leads from black to
  another colour, nor to an object still gray (`ScanInv`). An object may be scanned white, painted black and scanned again, so `ScanInv` speaks of what is scanned as
  the colour it has now. With this, `White` of `CycleCollector` stands for the passes by proof and not only by three-object graphs.

**The allocator** (any number of threads, cells of a block, chunks, lengths and calls).

* `HeapAllocatorProofs!ObjectsApart`, `ObjectsInTheirCells`, `SearchInBounds`, `ChunksSearched` (`NoOverlap`, `InOwnCell`,
  `IndexesInRange`, `NoChunkLost`). In `HeapInv`, `LadderInv` says that the block size a search works out step by step is the one of the
  block it stands at, from `SizeClassFits` and the thirteen sizes; `OwnerInv` that a cell is an object's or a thread's that is about to install one there, never two's.
  The private allocator claims without an exchange, which is sound because it has one thread (`OwnerAssumption`); `SearchInv` needs that the array of chunks only grows.
* `HeapAllocatorProofs!GrowthOnDemand` (`GrowsOnDemand`). What bounds the growth is the number of cells ever handed out, which the state does not show: a released cell looks unused. `GrowthInv` therefore says that *some* set `G` of cells exists that is no larger than
  the calls served and holds every cell that is in use, that lies in a block given up, or that a search has passed over; a chunk whose last block is given up then has a block's worth of cells in `G`. The other chunks are still *filling*, and there is an assignment of
  filling chunks to threads, no two to the same one, such that the thread will look into its chunk before it creates another (`KnowsOf`): a thread creates a chunk only after a search that found every chunk of its snapshot full (`ChunksPassed`), so no filling chunk was assigned to it, and the new one can be.
  TLC has checked the parts of `GrowthInv` that speak of searches and of the assignment; for `G` it would have to try every set of cells.

**The lock** (any finite number of threads, fewer than `SizeMax`).

* `RWLockProofs!WriterAlone`, `CountIsRight`: `Exclusion` and `CountMeaning`, by
  the invariant `LockInv == TypeOK /\ Expected /\ Exclusion /\ CountMeaning`.
  Exclusion needs `Expected`, which says that a value read earlier and still waiting to be
  exchanged is one the test before the exchange let through.
* `RWLockProofs!RWLockImplements`: every behaviour of `RWLock` is one of
  `ReadersWriter` under the mapping that takes the readers and writers from the program counters.

**The loader** (any number of modules, types, fields, programs and calls).

* `ModuleLoaderProofs!ImportsLinkedOnce`, `ParentIsPrefix`, `ReturnedIsComplete`, `CrashInTheText` (`ImportsInOrder`, `LayoutExtendsParent`,
  `SuccessIsComplete`, `CrashHasCause`). Linking appends to vectors, so a module reached twice would have its imports, fields and layouts twice. `LoaderInv`
  therefore says for every pass which modules and types are still ahead of it, that those have nothing filled in, and that those behind it have what the program declares, looked up in
  complete imports, the types of functions (`SignaturesResolved`, the return type assigned and the argument types appended once) from complete `using_types`; `Forward` says that no step puts anything back. A call that failed leaves modules that are neither: they are registered and no pass comes to them again. `WalkInv` follows the walk up the parents; a
  type that is laid out has a chain of parents to an end and the fields of that chain (`LaidRight`), and `ChainUnique` makes the chain of a type the chain of its parent and one more.
  Programs have no import or type index out of range (`SourceAssumption`), since the code checks none.

**The parser** (any lines that `LineAssumption` allows, texts of any length).

* `ParserProofs!TablesAreTheText` (`TablesFromText`). `TableOK` relates each of the three numbered tables to the text read so far. While its section is being read, that section is open in the text (`OpenIn`) and
  the map of the reader has what the last definition of every index says (`Matches`); at all other times the section is closed and the table has its entries, numbered from 0 without a gap (`Dense`, by `WholeDense` from the test for gaps, as long as no index wraps the length). A line more changes the
  definitions in one of three ways: not at all (`LineBetween`), to none (`LineOpens`), or by its own (`LineInside`, `IndexNew`). An import names a constant that stands before it, and a later section of constants must not change what it meant:
  `KnownStays` says that what a closed section defines at a position stays whatever follows, and `KnownImport` keeps in the invariant that the section was closed there.
* `ParserProofs!SoundTextIsSafe` (`SafeOnSoundText`). While no section of constants is open, `const_values` has exactly the constants the text defines before the line that is read (`ConstKnown`). So in a sound text every look-up of a name finds it, and no more of it is read than there is (`TypeSafe`, `HeadSafe`, `ArgumentSafe`). `IndexInv` says that the indexes in the map of an open section are ones the text
  has given, so that its length is one there is memory for (`LengthFits`, `MapFits`, `FunctionSafe`),
  and `iadd` is the only order that reads more arguments than `parse_order` has made sure of.
* `ParserProofs!FunctionsAreTheText` (`FunctionsFromText`), from the invariant `FunctionInv` (`FunctionsAreRead`). The property reads a whole body at once: the label lines of odd `Rank` open blocks, and `InOrder` lines up blocks and orders by the ranks of their positions.
  The code goes line by line through three nested readers, so the invariant says for each of them what the text read so far makes of the body. Between functions every body is closed (`AllClosed`), so that no later line belongs to it. `HeadOK` says of the function that is being read that its head is the last
  in the text, that no section of constants has begun since, and that the map would be right with this function put in. `BetweenBlocks` says that the labels so far are even in number and the blocks are theirs; `InBlock` that the last label opens a block, and
  that `label_blocks` has the blocks before it, `label_name` and `orders` what follows from it. A text that ends inside a block leaves an odd number of labels and a block all the same (`BodyOK`).
  `RankNew` and `InOrderNew` carry this over a line: a position after all others has the highest rank, and its value comes last. The name a `set_field` order has is that of the constant before the head of its function, which no later section of constants changes (`FieldKnown`).

**The interpreter** (any widths of words, ints and types, any functions, any number of calls).

* `InterpreterProofs!SumsAreExact` (`SumsExact`). `SumsInv` adds `ThreadInv`: a running thread stands at an order there is, which gives every order the registers and labels it names (`OrderFits`). The
  arithmetic is congruence modulo the power of two a register is good for. Reading the low bits of an operand, with their sign or without, and storing a result below arbitrary bits keep it
  (`OperandCongruent`, `StoredCongruent`), and a register good for more bits is good for fewer, because one power of two divides the next (`CongruentFewer`). The provers know nothing of `2^n`; `PowerType`
  and `PowerMultiple` get what is needed by counting subsets.
* `InterpreterProofs!CallsRunToTheirEnd` (`CallRunsToItsEnd`). Where a function can end is read off its text: `Entered` is the least set of blocks, with the order they are entered at, that holds the first block
  and the targets of the jumps. `FlowInv` says that a running thread has come to its block in one of these ways and has met nothing since that leaves it, and that `return_function` is not set between two turns
  of the loop, which a new call relies on without resetting it.

**The orders** (any number of threads, registers, fields, objects and orders).

* `ObjectOrdersProofs!LentOnce`, `SelfWaitOnlyAtLent` (`LentToOne`, `SelfWaitMeansLent`). The invariant adds `TypeOK`; `Holder` (a thread past `object_lock` is the one that holds the lock),
  which keeps a lent field lent while someone waits for it with the lock held; and `Pending` and `Disjoint` (the
  register of an order under way stays what it was when the order began), without which a store that does not wait could overwrite somebody else's marker.
  `LinkInCells` shows that `link` gives every order the index of a field.
* `ObjectOrdersProofs!CountExact` (`CountAccounts`): counts are exact but for the references that stores over a field lose. `CountInv` adds
  that a store that waits owns what it is going to store (`StoreOwned`) and that the sets counted are finite, so that the step of one order changes a cardinality by one.

Assumptions: those named in the modules. Beyond types they say that objects are finitely many (`ObjAssumption`), that main, the collector and the mutators are different threads
(`ThreadsAssumption`), that the module object is of an acyclic type, that the threads of an allocator are finitely many and at least one, that an allocator without locks has one thread, that threads are fewer than the lock can count, and that null pointers and markers are no objects.
`LineAssumption` says what the regular expressions of the parser capture of a line: an index is a number, an import names this module, a constant or something else, and fields and arguments are lists. `SizeAssumption` says that a table there is memory for has a length a `size_t` can hold.
Two are about counting in `ManagedHeap`. `SizeSuffices` says that a `size_t` is not too small for the fields, locals and arguments there can be at one time; each of them is a pointer in memory, so there are fewer than addresses. `AcyclicTypes` says what the
flag of a type means: an object of a type that is not marked cyclic is on no cycle of references the types allow. `MaxHeld` bounds the references in locals; the theorems hold for every bound.

Induction over data (what `FlattenSeq` returns, that a chain of parents is unique) is done with least counterexamples: a set of numbers that is
not empty has a least element (`LeastNumber`), and the values of a recursive function are shown to exist before the definition is used (`FlattenExists`).

Checked with TLC only: all liveness and termination (`EverythingCollected`, `SomeoneGetsIn`, `MallocProgress`, `LoadEnds`, `MarkingEnds`, `OrdersEnd`), which need fairness and are out of the prover's reach.
Every invariant of a passing run is a theorem.

## 5. What is not modelled

* Constants whose stated length is not that of their value, and numbers that do not fit into 64 bits (`std::out_of_range`).
* `get_const_value_as_int64`, `get_const_value_as_double`, `register_module`, `clone_heap_chunk_list` and the allocator's destructor: no caller.
* The `reference_fields` bitmaps: the loader keeps the set of fields they stand for, and nothing reads it.
* The list of threads `create_thread` keeps: nothing reads it.
* Primitive type tables and bit sets (filled once), the older `CatLa*` module classes (unused), stack and timing
  utilities (system calls).
* The object `load_module` allocates for a module is in `ModuleLoader`, but nothing reads its fields, so no property is about its length.

## 6. Plan

Done, in this order: reference counting and collector; their composition with
mutators; the marking passes; the lock and its abstraction; the allocator; the loader; the
arithmetic and control orders; type correctness and lock exclusion proved; the parser; the orders on objects, with the lending of fields
proved; then proved, the allocator, the marking passes, the counts of the orders and the loader; the counts of the managed heap and what is released; last,
the growth of the allocator, the sums and the control flow of the interpreter, and the tables, the look-ups and the functions of the parser; the end of the harness.

What is left is outside this prover: the temporal properties of section 3, which stay with TLC.
