---------------------------- MODULE HeapAllocator ----------------------------
(***************************************************************************)
(* One HeapAllocator of heap/HeapAllocator.cpp: the chunks of cells it     *)
(* hands out, the cursor and the empty flag of every block, and the list   *)
(* of chunks it shares between threads.                                    *)
(*                                                                         *)
(* is_thread_safe tells the virtual machine's shared allocator from the    *)
(* allocator a VMThread keeps for itself.  In either, a cell comes back    *)
(* when whoever drops its last reference stores dead into its state, at    *)
(* any moment and from any thread.                                         *)
(*                                                                         *)
(* One step is one access to memory that other threads see.  Memory is     *)
(* byte-addressed within a chunk: an object is the interval of bytes from  *)
(* its address, so the arithmetic on entry positions and block sizes is    *)
(* part of what is checked.                                                *)
(***************************************************************************)
EXTENDS Integers, Sequences, FiniteSets

CONSTANTS
  Threads,          \* the threads that call malloc
  is_thread_safe,   \* TRUE for the shared allocator
  cells_size,       \* cells in one block of a chunk
  FirstLengths,     \* the lengths the first call asks for
  FieldLengths,     \* the lengths the others ask for
  MaxCalls,         \* bound: calls of malloc in a behaviour
  MaxChunks         \* bound: chunks a behaviour has room for

ASSUME ThreadsAssumption == IsFiniteSet(Threads) /\ Threads # {}
ASSUME SafeAssumption == is_thread_safe \in BOOLEAN
ASSUME OwnerAssumption == is_thread_safe \/ \E t \in Threads : Threads = {t}
ASSUME CellsAssumption == cells_size \in Nat \ {0}
ASSUME LengthsAssumption == FirstLengths \cup FieldLengths \subseteq Nat
ASSUME CallsAssumption == MaxCalls \in Nat
ASSUME ChunksAssumption == MaxChunks \in Nat \ {0}

-----------------------------------------------------------------------------
(***************************************************************************)
(* Sizes and the layout of a chunk, in bytes.                              *)
(***************************************************************************)
NUMBER_OF_BLOCKS == 13
Blocks == 0 .. NUMBER_OF_BLOCKS - 1

\* BLOCK_SIZE0 .. BLOCK_SIZE12
BlockSizes == <<32, 40, 48, 56, 64, 72, 80, 88, 96, 128, 256, 384, 512>>
BLOCK_SIZE(index) == BlockSizes[index + 1]

BLOCKS_SIZE == 1856
SizeOfHeapObject == 40
ByteSize(fields_length) == SizeOfHeapObject + 8 * fields_length

\* create_heap_chunk: block index starts where block index - 1 ends.
EntryPosition[index \in Blocks] ==
  IF index = 0 THEN 0
  ELSE EntryPosition[index - 1] + BLOCK_SIZE(index - 1) * cells_size

\* n / d, rounded up, of the shifts and masks in malloc
DivUp(n, d) == n \div d + (IF n % d = 0 THEN 0 ELSE 1)

\* The block malloc starts in, and the block size it starts with; requires a
\* byte size of at most 512.
SizeClass(byte_size) ==
  IF byte_size < BLOCK_SIZE(8)
  THEN LET index == IF byte_size <= BLOCK_SIZE(0) THEN 0
                    ELSE DivUp(byte_size - BLOCK_SIZE(0), 8)
       IN  [index |-> index, block_size |-> BLOCK_SIZE(0) + 8 * index]
  ELSE LET temp == IF byte_size <= BLOCK_SIZE(9) THEN 0
                   ELSE DivUp(byte_size - BLOCK_SIZE(9), 128)
       IN  [index |-> temp + 9, block_size |-> BLOCK_SIZE(9) + 128 * temp]

\* Fault: the step from 96 to 128 is left out.
NextBlockSizeEven(block_size) ==
  IF block_size <= BLOCK_SIZE(8) THEN block_size + 8 ELSE block_size + 128

\* The block size of the next block up, worked out from this one's.
NextBlockSize(block_size) ==
  IF block_size < BLOCK_SIZE(8) THEN block_size + 8
  ELSE IF block_size = BLOCK_SIZE(8) THEN BLOCK_SIZE(9)
  ELSE block_size + 128

-----------------------------------------------------------------------------
Chunks == 1 .. MaxChunks
Entries == 0 .. cells_size - 1

VARIABLES
  state,             \* object->state of the cell at <<chunk, block, entry>>
  current_location,  \* BlockInfo::current_location
  empty,             \* BlockInfo::empty
  chunks,            \* HeapAllocator::chunks
  heap_chunk_list,   \* CatVM::heap_chunk_list
  created,           \* chunks that exist so far
  start_index,       \* the caller's *chunk_search_start_index
  held,              \* objects in use: who asked, where each lies, its cell
  calls,             \* calls of malloc so far
  \* locals of HeapAllocator::malloc
  pc, byte_size, heap_chunks, current_chunk_index, i,
  \* locals of HeapChunk::malloc
  index, block_size, entry_index, j,
  \* the chunk create_new_chunk has made and not yet appended
  fresh

chunkVars == <<state, current_location, empty>>
listVars == <<chunks, heap_chunk_list, created>>
callVars == <<byte_size, heap_chunks, current_chunk_index, i>>
scanVars == <<index, block_size, entry_index, j>>
vars == <<chunkVars, listVars, callVars, scanVars, start_index, held, calls, pc, fresh>>

Init ==
  /\ state = [c \in Chunks \X Blocks \X Entries |-> "dead"]
  /\ current_location = [b \in Chunks \X Blocks |-> 0]
  /\ empty = [b \in Chunks \X Blocks |-> TRUE]
  /\ chunks = <<1>>
  /\ heap_chunk_list = <<>>
  /\ created = 1
  /\ start_index = [t \in Threads |-> 0]
  /\ held = {}
  /\ calls = 0
  /\ pc = [t \in Threads |-> "idle"]
  /\ byte_size = [t \in Threads |-> 0]
  /\ heap_chunks = [t \in Threads |-> <<>>]
  /\ current_chunk_index = [t \in Threads |-> 0]
  /\ i = [t \in Threads |-> 0]
  /\ index = [t \in Threads |-> 0]
  /\ block_size = [t \in Threads |-> 0]
  /\ entry_index = [t \in Threads |-> 0]
  /\ j = [t \in Threads |-> 0]
  /\ fresh = [t \in Threads |-> 0]

Goto(t, label) == pc' = [pc EXCEPT ![t] = label]
Set(f, t, v) == [f EXCEPT ![t] = v]

\* heap_chunks[current_chunk_index], the block and the cell of it in hand
Chunk(t) == heap_chunks[t][current_chunk_index[t] + 1]
Block(t) == <<Chunk(t), index[t]>>
Cell(t) == <<Chunk(t), index[t], entry_index[t]>>

\* The cursor goes round the end of the block.
NextEntry(n) == IF n + 1 = cells_size THEN 0 ELSE n + 1

-----------------------------------------------------------------------------
(***************************************************************************)
(* HeapAllocator::malloc                                                   *)
(***************************************************************************)

\* Nothing is allocated for an object larger than the largest cell.
CallMalloc(t, fields_length) ==
  /\ pc[t] = "idle"
  /\ calls < MaxCalls
  /\ calls' = calls + 1
  /\ IF ByteSize(fields_length) <= BLOCK_SIZE(12)
     THEN /\ byte_size' = Set(byte_size, t, ByteSize(fields_length))
          /\ current_chunk_index' = Set(current_chunk_index, t, start_index[t])
          /\ Goto(t, "snapshot")
     ELSE UNCHANGED <<byte_size, current_chunk_index, pc>>
  /\ UNCHANGED <<chunkVars, listVars, scanVars, start_index, held, heap_chunks, i, fresh>>

\* chunk->malloc: the scan starts at the block of the size class.
EnterChunk(t) ==
  LET class == SizeClass(byte_size[t]) IN
  /\ index' = Set(index, t, class.index)
  /\ block_size' = Set(block_size, t, class.block_size)
  /\ Goto(t, "block")

\* chunks and number_of_chunks are read together, under the lock when other
\* threads may append.  The search passes over every chunk of the snapshot.
Snapshot(t) ==
  /\ pc[t] = "snapshot"
  /\ heap_chunks' = Set(heap_chunks, t, chunks)
  /\ i' = Set(i, t, 0)
  /\ EnterChunk(t)
  /\ UNCHANGED <<chunkVars, listVars, start_index, held, calls, byte_size,
                 current_chunk_index, entry_index, j, fresh>>

\* Fault: the chunks that were searched are not counted.
NextChunkForever(t) ==
  LET next == current_chunk_index[t] + 1 IN
  /\ pc[t] = "next_chunk"
  /\ current_chunk_index' =
       Set(current_chunk_index, t, IF next = Len(heap_chunks[t]) THEN 0 ELSE next)
  /\ EnterChunk(t)
  /\ UNCHANGED <<chunkVars, listVars, start_index, held, calls, byte_size, heap_chunks,
                 i, entry_index, j, fresh>>

\* The search goes round the end of the list; when it has passed over every
\* chunk the heap grows.
NextChunk(t) ==
  LET cs == Len(heap_chunks[t])
      next == current_chunk_index[t] + 1
  IN
  /\ pc[t] = "next_chunk"
  /\ current_chunk_index' = Set(current_chunk_index, t, IF next = cs THEN 0 ELSE next)
  /\ i' = Set(i, t, i[t] + 1)
  /\ IF i[t] + 1 = cs
     THEN Goto(t, "register") /\ UNCHANGED <<index, block_size>>
     ELSE EnterChunk(t)
  /\ UNCHANGED <<chunkVars, listVars, start_index, held, calls, byte_size, heap_chunks,
                 entry_index, j, fresh>>

-----------------------------------------------------------------------------
(***************************************************************************)
(* HeapAllocator::create_new_chunk                                         *)
(***************************************************************************)

\* A new chunk, recorded by the virtual machine under its own lock.
RegisterChunk(t) ==
  /\ pc[t] = "register"
  /\ created < MaxChunks
  /\ created' = created + 1
  /\ fresh' = Set(fresh, t, created + 1)
  /\ heap_chunk_list' = Append(heap_chunk_list, created + 1)
  /\ Goto(t, "append")
  /\ UNCHANGED <<chunkVars, callVars, scanVars, chunks, start_index, held, calls>>

\* Fault: the list of the snapshot is extended, not the one there is now.
AppendedToSnapshot(t) == Append(heap_chunks[t], fresh[t])

\* The section of lock: the list is copied with the chunk at its end.
Appended(t) == Append(chunks, fresh[t])

AppendChunk(t) ==
  /\ pc[t] = "append"
  /\ chunks' = Appended(t)
  /\ Goto(t, "snapshot")
  /\ UNCHANGED <<chunkVars, callVars, scanVars, heap_chunk_list, created, start_index,
                 held, calls, fresh>>

-----------------------------------------------------------------------------
(***************************************************************************)
(* HeapChunk::malloc                                                       *)
(***************************************************************************)

\* On to the next block of the chunk; nullptr after the last one.
NextBlock(t) ==
  /\ index' = Set(index, t, index[t] + 1)
  /\ block_size' = Set(block_size, t, NextBlockSize(block_size[t]))
  /\ Goto(t, IF block_size[t] > BLOCK_SIZE(12) \/ index[t] + 1 = NUMBER_OF_BLOCKS
             THEN "next_chunk" ELSE "block")

\* Fault: the scan leaves out the last cell.
EnterBlockShort(t) ==
  /\ pc[t] = "block"
  /\ IF empty[Block(t)]
     THEN /\ entry_index' = Set(entry_index, t, current_location[Block(t)])
          /\ j' = Set(j, t, 1)
          /\ Goto(t, "probe")
          /\ UNCHANGED <<index, block_size>>
     ELSE NextBlock(t) /\ UNCHANGED <<entry_index, j>>
  /\ UNCHANGED <<chunkVars, listVars, callVars, start_index, held, calls, fresh>>

EnterBlock(t) ==
  /\ pc[t] = "block"
  /\ IF empty[Block(t)]
     THEN /\ entry_index' = Set(entry_index, t, current_location[Block(t)])
          /\ j' = Set(j, t, 0)
          /\ Goto(t, "probe")
          /\ UNCHANGED <<index, block_size>>
     ELSE NextBlock(t) /\ UNCHANGED <<entry_index, j>>
  /\ UNCHANGED <<chunkVars, listVars, callVars, start_index, held, calls, fresh>>

\* This cell is taken: the cursor moves on, round the end of the block.
SkipCell(t) ==
  /\ entry_index' = Set(entry_index, t, NextEntry(entry_index[t]))
  /\ j' = Set(j, t, j[t] + 1)
  /\ Goto(t, IF j[t] + 1 = cells_size THEN "retire" ELSE "probe")

ProbeCell(t) ==
  /\ pc[t] = "probe"
  /\ IF state[Cell(t)] = "dead"
     THEN Goto(t, "claim") /\ UNCHANGED <<entry_index, j>>
     ELSE SkipCell(t)
  /\ UNCHANGED <<chunkVars, listVars, callVars, index, block_size, start_index, held,
                 calls, fresh>>

\* Fault: the claim of a cell is not one exchange.
ClaimCellLate(t) ==
  /\ pc[t] = "claim"
  /\ IF state[Cell(t)] = "dead" THEN Goto(t, "install") /\ UNCHANGED <<entry_index, j>>
     ELSE SkipCell(t)
  /\ UNCHANGED <<chunkVars, listVars, callVars, index, block_size, start_index, held,
                 calls, fresh>>

\* compare_exchange_strong for the shared allocator.  A thread's own
\* allocator only reads state once more: the store of live comes with the
\* rest of the object.
ClaimCell(t) ==
  /\ pc[t] = "claim"
  /\ IF state[Cell(t)] = "dead"
     THEN /\ state' = IF is_thread_safe THEN Set(state, Cell(t), "live") ELSE state
          /\ Goto(t, "install")
          /\ UNCHANGED <<entry_index, j>>
     ELSE SkipCell(t) /\ UNCHANGED state
  /\ UNCHANGED <<current_location, empty, listVars, callVars, index, block_size,
                 start_index, held, calls, fresh>>

\* The object as its owner sees it: the bytes it occupies in its chunk.
NewObject(t) ==
  [owner |-> t,
   chunk |-> Chunk(t),
   first |-> EntryPosition[index[t]] + entry_index[t] * block_size[t],
   size |-> byte_size[t],
   cell |-> Cell(t)]

\* Fault: the next search starts after the chunk, not in it.
InstallObjectBehind(t) ==
  /\ pc[t] = "install"
  /\ current_location' = Set(current_location, Block(t), NextEntry(entry_index[t]))
  /\ state' = Set(state, Cell(t), "live")
  /\ held' = held \cup {NewObject(t)}
  /\ start_index' = Set(start_index, t, current_chunk_index[t] + 1)
  /\ Goto(t, "idle")
  /\ UNCHANGED <<empty, listVars, callVars, scanVars, calls, fresh>>

\* The cursor moves past the cell, the header and the fields are written
\* and malloc returns it.
InstallObject(t) ==
  /\ pc[t] = "install"
  /\ current_location' = Set(current_location, Block(t), NextEntry(entry_index[t]))
  /\ state' = Set(state, Cell(t), "live")
  /\ held' = held \cup {NewObject(t)}
  /\ start_index' = Set(start_index, t, current_chunk_index[t])
  /\ Goto(t, "idle")
  /\ UNCHANGED <<empty, listVars, callVars, scanVars, calls, fresh>>

\* Every cell was taken when it was looked at: the block is given up.
RetireBlock(t) ==
  /\ pc[t] = "retire"
  /\ current_location' = Set(current_location, Block(t), entry_index[t])
  /\ empty' = Set(empty, Block(t), FALSE)
  /\ NextBlock(t)
  /\ UNCHANGED <<state, listVars, callVars, entry_index, j, start_index, held, calls, fresh>>

\* The last reference is dropped: decrement_reference_count and gc_collect
\* store dead into the state of an object and leave the rest as it is.
Release(object) ==
  /\ state' = Set(state, object.cell, "dead")
  /\ held' = held \ {object}
  /\ UNCHANGED <<current_location, empty, listVars, callVars, scanVars, start_index,
                 calls, pc, fresh>>

-----------------------------------------------------------------------------
Lengths == IF calls = 0 THEN FirstLengths ELSE FieldLengths

MallocStep(t) ==
  \/ Snapshot(t) \/ NextChunk(t) \/ RegisterChunk(t) \/ AppendChunk(t)
  \/ EnterBlock(t) \/ ProbeCell(t) \/ ClaimCell(t) \/ InstallObject(t) \/ RetireBlock(t)

Next ==
  \/ \E t \in Threads : MallocStep(t) \/ \E n \in Lengths : CallMalloc(t, n)
  \/ \E object \in held : Release(object)

Spec == Init /\ [][Next]_vars

\* As long as threads are in malloc one of them keeps running, whichever; the
\* locks guard a few loads and stores, so a spinning thread gets in.
Fairness == WF_vars(\E t \in Threads : MallocStep(t))

FairSpec == Spec /\ Fairness

-----------------------------------------------------------------------------
\* Two objects in use never share a byte, and none reaches past the cells of
\* its chunk into the block table: whatever threads allocate and release
\* together, and whichever block up the ladder the cell came from.
NoOverlap ==
  \A a \in held :
    /\ a.first + a.size <= BLOCKS_SIZE * cells_size
    /\ \A b \in held :
         (a # b /\ a.chunk = b.chunk) =>
           \/ a.first + a.size <= b.first
           \/ b.first + b.size <= a.first

\* An object lies in the cell whose state stands for it: its bytes are the
\* cell's, whatever length was asked for and however far up the ladder of
\* blocks malloc went, with a block size it works out step by step.
InOwnCell ==
  \A a \in held :
    LET cell == a.cell
        start == EntryPosition[cell[2]] + cell[3] * BLOCK_SIZE(cell[2])
    IN a.first = start /\ a.size <= BLOCK_SIZE(cell[2])

\* A search has no bounds checks and stays in bounds: in the chunks of its
\* snapshot, although the index it starts from was left behind by an earlier
\* call and the list has been replaced by longer ones since; and in the cells
\* of its block, although threads move the cursor without a lock.
IndexesInRange ==
  /\ current_location \in [Chunks \X Blocks -> Entries]
  /\ \A t \in Threads :
       /\ start_index[t] < Len(chunks)
       /\ entry_index[t] \in Entries
       /\ pc[t] \notin {"idle", "snapshot", "register", "append"} =>
            current_chunk_index[t] < Len(heap_chunks[t])

\* Concurrent calls of create_new_chunk lose no chunk: every chunk the
\* virtual machine has recorded is searched, or about to be.
NoChunkLost ==
  \A n \in 1 .. Len(heap_chunk_list) :
    \/ \E k \in 1 .. Len(chunks) : chunks[k] = heap_chunk_list[n]
    \/ \E t \in Threads : pc[t] = "append" /\ fresh[t] = heap_chunk_list[n]

\* Calls that have been given a cell, or turned down.
Served == calls - Cardinality({t \in Threads : pc[t] \notin {"idle", "install"}})

\* The heap grows only when it is full: HeapChunk::malloc gives a block up
\* after every cell of it has been handed out, so there are no more chunks
\* than the calls served so far have filled, and one being filled for every
\* thread that may have grown the heap at the same time.
GrowsOnDemand == created <= Cardinality(Threads) + Served \div cells_size

\* malloc is lock-free: threads do not go on searching without one of them
\* being given a cell, also when one takes every cell of the chunk another has
\* just added.  That a call returns does not follow, and does not hold while
\* other threads go on allocating for ever.
MallocProgress ==
  []<>(\/ \A t \in Threads : pc[t] = "idle"
       \/ \E t \in Threads : pc[t] = "install")
=============================================================================
