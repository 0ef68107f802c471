------------------------- MODULE HeapAllocatorProofs -------------------------
(***************************************************************************)
(* Objects in use never overlap, a search stays in bounds, no chunk is     *)
(* lost and the heap grows only when it is full, for any number of         *)
(* threads, any number of cells in a block, any lengths asked for and any  *)
(* number of chunks.                                                       *)
(***************************************************************************)
EXTENDS HeapAllocator, FiniteSetTheorems, SequenceTheorems, TLAPS

Labels == {"idle", "snapshot", "next_chunk", "register", "append",
           "block", "probe", "claim", "install", "retire"}

\* In HeapChunk::malloc, with a block of the chunk in hand.
Scanning == {"block", "probe", "claim", "install", "retire"}

Cells == Chunks \X Blocks \X Entries

\* The values of the variables.
HeapType ==
  /\ state \in [Cells -> {"dead", "live"}]
  /\ current_location \in [Chunks \X Blocks -> Entries]
  /\ empty \in [Chunks \X Blocks -> BOOLEAN]
  /\ chunks \in Seq(Chunks)
  /\ heap_chunk_list \in Seq(Chunks)
  /\ created \in Chunks

\* The values of the locals of the threads.
CallType ==
  /\ pc \in [Threads -> Labels]
  /\ start_index \in [Threads -> Nat]
  /\ byte_size \in [Threads -> Nat]
  /\ heap_chunks \in [Threads -> Seq(Chunks)]
  /\ current_chunk_index \in [Threads -> Nat]
  /\ i \in [Threads -> Nat]
  /\ index \in [Threads -> Nat]
  /\ block_size \in [Threads -> Nat]
  /\ entry_index \in [Threads -> Entries]
  /\ j \in [Threads -> Nat]
  /\ fresh \in [Threads -> 0 .. MaxChunks]

\* The chunk a thread stands at is in the list it took, and the list it took
\* is no longer than the one there is now.
InSearch(t) ==
  /\ start_index[t] < Len(chunks)
  /\ pc[t] = "snapshot" => current_chunk_index[t] < Len(chunks)
  /\ pc[t] \notin {"idle", "snapshot"} =>
       /\ current_chunk_index[t] < Len(heap_chunks[t])
       /\ Len(heap_chunks[t]) <= Len(chunks)
  /\ pc[t] = "append" => fresh[t] \in Chunks

SearchInv == \A t \in Threads : InSearch(t)

\* The block size worked out step by step is the block's own, and the object
\* fits in it.
OnLadder(t) ==
  /\ pc[t] # "idle" => byte_size[t] <= BLOCK_SIZE(12)
  /\ pc[t] \in Scanning =>
       /\ index[t] \in Blocks
       /\ block_size[t] = BLOCK_SIZE(index[t])
       /\ byte_size[t] <= block_size[t]

LadderInv == \A t \in Threads : OnLadder(t)

\* What an object in use is.
ObjectInv ==
  \A a \in held :
    /\ a.cell \in Cells
    /\ a.chunk = a.cell[1]
    /\ a.first = EntryPosition[a.cell[2]] + a.cell[3] * BLOCK_SIZE(a.cell[2])
    /\ a.size \in Nat
    /\ a.size <= BLOCK_SIZE(a.cell[2])

\* A cell has one owner: an object in use, whose cell is live, or a thread
\* about to install one.  For the shared allocator the thread's cell is live
\* as well, so that no other exchange succeeds on it.
OwnerInv ==
  /\ \A a \in held : state[a.cell] = "live"
  /\ \A a, b \in held : a.cell = b.cell => a = b
  /\ \A t \in Threads : pc[t] = "install" =>
       /\ is_thread_safe => state[Cell(t)] = "live"
       /\ \A a \in held : a.cell # Cell(t)
       /\ \A u \in Threads : (u # t /\ pc[u] = "install") => Cell(u) # Cell(t)

HeapInv ==
  HeapType /\ CallType /\ SearchInv /\ LadderInv /\ ObjectInv /\ OwnerInv /\ NoChunkLost

-----------------------------------------------------------------------------
(***************************************************************************)
(* The arithmetic of sizes and positions.                                  *)
(***************************************************************************)

\* Where a block starts in a chunk whose blocks have one cell each.
Offsets == <<0, 32, 72, 120, 176, 240, 312, 392, 480, 576, 704, 960, 1344>>

\* The ladder of block sizes: the values of BLOCK_SIZE0 to BLOCK_SIZE12.
LEMMA BlockSizeValues ==
  /\ BLOCK_SIZE(0) = 32 /\ BLOCK_SIZE(1) = 40 /\ BLOCK_SIZE(2) = 48
  /\ BLOCK_SIZE(3) = 56 /\ BLOCK_SIZE(4) = 64 /\ BLOCK_SIZE(5) = 72
  /\ BLOCK_SIZE(6) = 80 /\ BLOCK_SIZE(7) = 88 /\ BLOCK_SIZE(8) = 96
  /\ BLOCK_SIZE(9) = 128 /\ BLOCK_SIZE(10) = 256 /\ BLOCK_SIZE(11) = 384
  /\ BLOCK_SIZE(12) = 512
  BY DEF BLOCK_SIZE, BlockSizes

\* The blocks, one by one.
LEMMA BlocksListed ==
  Blocks = {0, 1, 2, 3, 4, 5, 6, 7, 8, 9, 10, 11, 12}
  BY DEF Blocks, NUMBER_OF_BLOCKS

\* HeapChunk::malloc starts in a block whose cells are large enough, and the
\* block size it starts with is that block's.
LEMMA SizeClassFits ==
  ASSUME NEW n \in Nat, n <= BLOCK_SIZE(12)
  PROVE  /\ SizeClass(n).index \in Blocks
         /\ SizeClass(n).block_size = BLOCK_SIZE(SizeClass(n).index)
         /\ n <= SizeClass(n).block_size
  <1> USE BlockSizeValues, BlocksListed
  <1>1. CASE n <= 32
    <2>1. SizeClass(n) = [index |-> 0, block_size |-> 32]
      BY <1>1 DEF SizeClass
    <2> QED
      BY <1>1, <2>1
  <1>2. CASE n > 32 /\ n < 96
    <2> DEFINE k == DivUp(n - 32, 8)
    <2>1. k \in 1 .. 8 /\ n <= 32 + 8 * k
      BY <1>2 DEF DivUp
    <2>2. SizeClass(n) = [index |-> k, block_size |-> 32 + 8 * k]
      BY <1>2 DEF SizeClass
    <2> HIDE DEF k
    <2>3. k \in {1, 2, 3, 4, 5, 6, 7, 8}
      BY <2>1
    <2>4. BLOCK_SIZE(k) = 32 + 8 * k
      BY <2>3
    <2> QED
      BY <2>1, <2>2, <2>3, <2>4
  <1>3. CASE n >= 96 /\ n <= 128
    <2>1. SizeClass(n) = [index |-> 9, block_size |-> 128]
      BY <1>3 DEF SizeClass
    <2> QED
      BY <1>3, <2>1
  <1>4. CASE n > 128
    <2> DEFINE k == DivUp(n - 128, 128)
    <2>1. k \in 1 .. 3 /\ n <= 128 + 128 * k
      BY <1>4 DEF DivUp
    <2>2. SizeClass(n) = [index |-> k + 9, block_size |-> 128 + 128 * k]
      BY <1>4 DEF SizeClass
    <2> HIDE DEF k
    <2>3. k \in {1, 2, 3}
      BY <2>1
    <2>4. BLOCK_SIZE(k + 9) = 128 + 128 * k /\ k + 9 \in Blocks
      BY <2>3
    <2> QED
      BY <2>1, <2>2, <2>4
  <1> QED
    BY <1>1, <1>2, <1>3, <1>4

\* One step up the ladder: the next block size is worked out right.
LEMMA NextBlockSizeFits ==
  ASSUME NEW b \in Blocks, b + 1 # NUMBER_OF_BLOCKS
  PROVE  /\ b + 1 \in Blocks
         /\ NextBlockSize(BLOCK_SIZE(b)) = BLOCK_SIZE(b + 1)
         /\ BLOCK_SIZE(b) <= BLOCK_SIZE(b + 1)
  BY BlockSizeValues, BlocksListed DEF NextBlockSize, NUMBER_OF_BLOCKS

\* Block sizes are positive.
LEMMA BlockSizePositive == \A b \in Blocks : BLOCK_SIZE(b) \in Nat /\ BLOCK_SIZE(b) > 0
  BY BlockSizeValues, BlocksListed

\* The recursive definition of EntryPosition, in closed form.
LEMMA EntryPositionValue ==
  \A b \in Blocks : EntryPosition[b] = Offsets[b + 1] * cells_size
  <1> DEFINE step(f) == [b \in Blocks |-> IF b = 0 THEN 0
                                         ELSE f[b - 1] + BLOCK_SIZE(b - 1) * cells_size]
             closed == [b \in Blocks |-> Offsets[b + 1] * cells_size]
  <1>1. closed = step(closed)
    <2>1. ASSUME NEW b \in Blocks
          PROVE  closed[b] = IF b = 0 THEN 0
                             ELSE closed[b - 1] + BLOCK_SIZE(b - 1) * cells_size
      BY CellsAssumption, BlockSizeValues, BlocksListed DEF Offsets
    <2> QED
      BY <2>1
  <1>2. EntryPosition = step(EntryPosition)
    BY <1>1 DEF EntryPosition
  <1> HIDE DEF step
  <1>3. \A b \in Blocks : EntryPosition[b] = IF b = 0 THEN 0
          ELSE EntryPosition[b - 1] + BLOCK_SIZE(b - 1) * cells_size
    BY <1>2 DEF step
  <1> QED
    BY <1>3, CellsAssumption, BlockSizeValues, BlocksListed DEF Offsets

\* The first byte of a cell.
Start(b, e) == EntryPosition[b] + e * BLOCK_SIZE(b)

\* A cell lies within the cells of its chunk.
LEMMA CellInChunk ==
  ASSUME NEW b \in Blocks, NEW e \in Entries
  PROVE  Start(b, e) \in Nat /\ Start(b, e) + BLOCK_SIZE(b) <= BLOCKS_SIZE * cells_size
  <1>1. EntryPosition[b] = Offsets[b + 1] * cells_size
    BY EntryPositionValue
  <1>2. e \in Nat /\ cells_size \in Nat /\ e + 1 <= cells_size
    BY CellsAssumption DEF Entries
  <1> QED
    BY <1>1, <1>2, BlockSizeValues, BlocksListed DEF Start, Offsets, BLOCKS_SIZE

\* Scaling preserves order.
LEMMA ScaleMonotone ==
  \A x, y, k \in Nat : x <= y => x * k <= y * k
  <1> SUFFICES ASSUME NEW x \in Nat, NEW y \in Nat, NEW k \in Nat, x <= y
               PROVE  x * k <= y * k
    OBVIOUS
  <1> DEFINE d == y - x
  <1>1. d \in Nat /\ y = x + d
    OBVIOUS
  <1> HIDE DEF d
  <1>2. y * k = x * k + d * k /\ x * k \in Nat /\ d * k \in Nat
    BY <1>1
  <1> QED
    BY <1>2

\* A block ends before the ones behind it start.
LEMMA BlocksApart ==
  ASSUME NEW b \in Blocks, NEW c \in Blocks, b < c, NEW e \in Entries, NEW f \in Entries
  PROVE  Start(b, e) + BLOCK_SIZE(b) <= Start(c, f)
  <1>1. /\ EntryPosition[b] = Offsets[b + 1] * cells_size
        /\ EntryPosition[c] = Offsets[c + 1] * cells_size
    BY EntryPositionValue
  <1>2. e \in Nat /\ f \in Nat /\ cells_size \in Nat /\ e + 1 <= cells_size
    BY CellsAssumption DEF Entries
  <1>3. /\ Offsets[b + 1] \in Nat /\ Offsets[c + 1] \in Nat
        /\ Offsets[b + 1] + BLOCK_SIZE(b) <= Offsets[c + 1]
    BY BlockSizeValues, BlocksListed DEF Offsets
  <1>4. Start(b, e) + BLOCK_SIZE(b) <= (Offsets[b + 1] + BLOCK_SIZE(b)) * cells_size
    BY <1>1, <1>2, BlockSizeValues, BlocksListed DEF Start, Offsets
  <1>5. (Offsets[b + 1] + BLOCK_SIZE(b)) * cells_size <= Offsets[c + 1] * cells_size
    <2>1. Offsets[b + 1] + BLOCK_SIZE(b) \in Nat
      BY <1>3, BlockSizePositive
    <2> QED
      BY <1>2, <1>3, <2>1, ScaleMonotone
  <1>6. Offsets[c + 1] * cells_size <= Start(c, f)
    BY <1>1, <1>2, BlockSizeValues, BlocksListed DEF Start, Offsets
  <1>7. /\ Start(b, e) \in Nat /\ Start(c, f) \in Nat /\ BLOCK_SIZE(b) \in Nat
    BY CellInChunk, BlockSizePositive
  <1>8. /\ (Offsets[b + 1] + BLOCK_SIZE(b)) * cells_size \in Nat
        /\ Offsets[c + 1] * cells_size \in Nat
    BY <1>2, <1>3, <1>7
  <1> QED
    BY <1>4, <1>5, <1>6, <1>7, <1>8

\* Two cells of a chunk share no byte.
LEMMA CellsApart ==
  ASSUME NEW b \in Blocks, NEW c \in Blocks, NEW e \in Entries, NEW f \in Entries,
         b # c \/ e # f
  PROVE  \/ Start(b, e) + BLOCK_SIZE(b) <= Start(c, f)
         \/ Start(c, f) + BLOCK_SIZE(c) <= Start(b, e)
  <1>1. CASE b < c \/ c < b
    BY <1>1, BlocksApart
  <1>2. CASE b = c
    <2>1. e \in Nat /\ f \in Nat /\ (e + 1 <= f \/ f + 1 <= e)
      BY <1>2, CellsAssumption DEF Entries
    <2>2. EntryPosition[b] \in Nat
      BY EntryPositionValue, CellsAssumption, BlocksListed DEF Offsets
    <2> QED
      BY <1>2, <2>1, <2>2, BlockSizeValues, BlocksListed DEF Start
  <1> QED
    BY <1>1, <1>2, BlocksListed

-----------------------------------------------------------------------------
(***************************************************************************)
(* What a step leaves alone.                                               *)
(***************************************************************************)

\* The locals of the other threads.
OthersKept(t) ==
  \A u \in Threads \ {t} :
    /\ pc'[u] = pc[u] /\ start_index'[u] = start_index[u]
    /\ byte_size'[u] = byte_size[u] /\ heap_chunks'[u] = heap_chunks[u]
    /\ current_chunk_index'[u] = current_chunk_index[u] /\ index'[u] = index[u]
    /\ block_size'[u] = block_size[u] /\ entry_index'[u] = entry_index[u]
    /\ fresh'[u] = fresh[u]

\* A list that only grows disturbs nobody's search.
LEMMA OthersInvKept ==
  ASSUME HeapInv, NEW t \in Threads, OthersKept(t), HeapType', CallType',
         Len(chunks) <= Len(chunks'), InSearch(t)', OnLadder(t)'
  PROVE  SearchInv' /\ LadderInv'
  <1>1. ASSUME NEW u \in Threads, u # t
        PROVE  InSearch(u)' /\ OnLadder(u)'
    <2>1. InSearch(u) /\ OnLadder(u)
      BY DEF HeapInv, SearchInv, LadderInv
    <2>2. /\ Len(chunks) \in Nat /\ Len(chunks') \in Nat
          /\ start_index[u] \in Nat /\ current_chunk_index[u] \in Nat
          /\ Len(heap_chunks[u]) \in Nat
      BY LenProperties DEF HeapInv, HeapType, CallType
    <2>3. InSearch(u)'
      BY <1>1, <2>1, <2>2 DEF OthersKept, InSearch
    <2>4. OnLadder(u)'
      BY <1>1, <2>1 DEF OthersKept, OnLadder
    <2> QED
      BY <2>3, <2>4
  <1> QED
    BY <1>1 DEF SearchInv, LadderInv

\* A step that changes no cell and no object, and leaves no thread about to
\* install one that was not.
LEMMA OwnersKept ==
  ASSUME HeapInv, NEW t \in Threads, OthersKept(t), UNCHANGED <<state, held>>,
         pc'[t] # "install"
  PROVE  ObjectInv' /\ OwnerInv'
  <1>1. ObjectInv'
    BY DEF HeapInv, ObjectInv, Cells, Chunks
  <1>2. \A u \in Threads : pc'[u] = "install" =>
          u # t /\ pc[u] = "install" /\ Cell(u)' = Cell(u)
    BY DEF OthersKept, Cell, Chunk
  <1>3. OwnerInv'
    BY <1>2 DEF HeapInv, OwnerInv
  <1> QED
    BY <1>1, <1>3

\* The chunks recorded and the chunks searched stay where they are.
LEMMA ChunksKept ==
  ASSUME HeapInv, NEW t \in Threads, OthersKept(t), pc[t] # "append",
         UNCHANGED <<chunks, heap_chunk_list>>
  PROVE  NoChunkLost'
  BY DEF HeapInv, NoChunkLost, OthersKept

\* The cursor goes round within the block.
LEMMA NextEntryType == \A e \in Entries : NextEntry(e) \in Entries
  BY CellsAssumption DEF NextEntry, Entries

\* A thread that is scanning stands at a cell.
LEMMA CellType ==
  ASSUME HeapInv, NEW t \in Threads, pc[t] \in Scanning
  PROVE  /\ Chunk(t) \in Chunks /\ Block(t) \in Chunks \X Blocks /\ Cell(t) \in Cells
         /\ Cell(t)[1] = Chunk(t) /\ Cell(t)[2] = index[t] /\ Cell(t)[3] = entry_index[t]
  <1>1. /\ heap_chunks[t] \in Seq(Chunks) /\ current_chunk_index[t] \in Nat
        /\ entry_index[t] \in Entries
    BY DEF HeapInv, CallType
  <1>2. current_chunk_index[t] < Len(heap_chunks[t]) /\ index[t] \in Blocks
    BY DEF HeapInv, SearchInv, InSearch, LadderInv, OnLadder, Scanning
  <1>3. current_chunk_index[t] + 1 \in 1 .. Len(heap_chunks[t])
    BY <1>1, <1>2, LenProperties
  <1>4. Chunk(t) \in Chunks
    BY <1>1, <1>3, ElementOfSeq DEF Chunk
  <1> QED
    BY <1>1, <1>2, <1>4 DEF Block, Cell, Cells

\* Before the first call.
LEMMA InitHeapInv == Init => HeapInv
  <1> SUFFICES ASSUME Init PROVE HeapInv
    OBVIOUS
  <1> USE DEF Init
  <1>1. 1 \in Chunks /\ 0 \in Entries
    BY ChunksAssumption, CellsAssumption DEF Chunks, Entries
  <1>2. chunks \in Seq(Chunks) /\ Len(chunks) = 1 /\ <<>> \in Seq(Chunks)
    BY <1>1
  <1>3. HeapType
    BY <1>1, <1>2 DEF HeapType, Cells
  <1>4. CallType
    BY <1>1, <1>2, ChunksAssumption DEF CallType, Labels
  <1>5. SearchInv /\ LadderInv
    BY <1>2 DEF SearchInv, InSearch, LadderInv, OnLadder, Scanning
  <1>6. ObjectInv /\ OwnerInv
    BY DEF ObjectInv, OwnerInv
  <1>7. NoChunkLost
    BY DEF NoChunkLost
  <1> QED
    BY <1>3, <1>4, <1>5, <1>6, <1>7 DEF HeapInv

\* A call too large for the largest cell changes nothing but the count.
LEMMA CallMallocInv ==
  ASSUME HeapInv, NEW t \in Threads, NEW n \in Lengths, CallMalloc(t, n)
  PROVE  HeapInv'
  <1> USE DEF CallMalloc, Goto, Set, chunkVars, listVars, scanVars
  <1>0. n \in Nat
    BY LengthsAssumption DEF Lengths
  <1>1. HeapType'
    BY DEF HeapInv, HeapType
  <1>2. ByteSize(n) \in Nat
    BY <1>0 DEF ByteSize, SizeOfHeapObject
  <1>3. CASE ByteSize(n) <= BLOCK_SIZE(12)
    <2>1. /\ byte_size' \in [Threads -> Nat] /\ current_chunk_index' \in [Threads -> Nat]
          /\ pc' \in [Threads -> Labels]
          /\ pc'[t] = "snapshot" /\ byte_size'[t] = ByteSize(n)
          /\ current_chunk_index'[t] = start_index[t]
      BY <1>2, <1>3 DEF HeapInv, CallType, Labels
    <2>2. CallType'
      BY <2>1 DEF HeapInv, CallType
    <2>3. OthersKept(t)
      BY <1>3 DEF HeapInv, CallType, OthersKept
    <2>4. InSearch(t)'
      BY <2>1 DEF HeapInv, SearchInv, InSearch
    <2>5. OnLadder(t)'
      BY <1>3, <2>1 DEF OnLadder, Scanning
    <2>6. SearchInv' /\ LadderInv'
      BY <1>1, <2>2, <2>3, <2>4, <2>5, OthersInvKept DEF HeapInv, HeapType
    <2>7. ObjectInv' /\ OwnerInv' /\ NoChunkLost'
      BY <2>1, <2>3, OwnersKept, ChunksKept
    <2> QED
      BY <1>1, <2>2, <2>6, <2>7 DEF HeapInv
  <1>4. CASE ~(ByteSize(n) <= BLOCK_SIZE(12))
    <2>1. UNCHANGED <<byte_size, current_chunk_index, pc>>
      BY <1>4
    <2>2. CallType'
      BY <2>1 DEF HeapInv, CallType
    <2>3. OthersKept(t) /\ pc'[t] = "idle" /\ InSearch(t)' /\ OnLadder(t)'
      BY <2>1 DEF HeapInv, OthersKept, SearchInv, InSearch, LadderInv, OnLadder, Scanning
    <2>4. SearchInv' /\ LadderInv'
      BY <1>1, <2>2, <2>3, OthersInvKept DEF HeapInv, HeapType
    <2>5. ObjectInv' /\ OwnerInv' /\ NoChunkLost'
      BY <2>3, OwnersKept, ChunksKept
    <2> QED
      BY <1>1, <2>2, <2>4, <2>5 DEF HeapInv
  <1> QED
    BY <1>3, <1>4

\* EnterChunk puts the thread on a step of the ladder.
LEMMA EnterChunkInv ==
  ASSUME HeapInv, NEW t \in Threads, pc[t] # "idle", EnterChunk(t), UNCHANGED byte_size
  PROVE  /\ index' \in [Threads -> Nat] /\ block_size' \in [Threads -> Nat]
         /\ pc' \in [Threads -> Labels] /\ pc'[t] = "block"
         /\ \A u \in Threads \ {t} : /\ index'[u] = index[u] /\ pc'[u] = pc[u]
                                     /\ block_size'[u] = block_size[u]
         /\ OnLadder(t)'
  <1> DEFINE class == SizeClass(byte_size[t])
  <1>1. byte_size[t] \in Nat /\ byte_size[t] <= BLOCK_SIZE(12)
    BY DEF HeapInv, CallType, LadderInv, OnLadder
  <1>2. /\ class.index \in Blocks /\ class.block_size = BLOCK_SIZE(class.index)
        /\ byte_size[t] <= class.block_size
    BY <1>1, SizeClassFits
  <1>3. /\ index' = [index EXCEPT ![t] = class.index]
        /\ block_size' = [block_size EXCEPT ![t] = class.block_size]
        /\ pc' = [pc EXCEPT ![t] = "block"]
    BY DEF EnterChunk, Set, Goto
  <1>4. class.index \in Nat /\ class.block_size \in Nat
    BY <1>2, BlockSizePositive DEF Blocks
  <1> HIDE DEF class
  <1>5. /\ index' \in [Threads -> Nat] /\ index'[t] = class.index
        /\ \A u \in Threads \ {t} : index'[u] = index[u]
    BY <1>3, <1>4 DEF HeapInv, CallType
  <1>6. /\ block_size' \in [Threads -> Nat] /\ block_size'[t] = class.block_size
        /\ \A u \in Threads \ {t} : block_size'[u] = block_size[u]
    BY <1>3, <1>4 DEF HeapInv, CallType
  <1>7. /\ pc' \in [Threads -> Labels] /\ pc'[t] = "block"
        /\ \A u \in Threads \ {t} : pc'[u] = pc[u]
    BY <1>3 DEF HeapInv, CallType, Labels
  <1>8. OnLadder(t)'
    BY <1>1, <1>2, <1>5, <1>6, <1>7 DEF OnLadder
  <1> QED
    BY <1>5, <1>6, <1>7, <1>8

\* The list taken is the list there is.
LEMMA SnapshotInv ==
  ASSUME HeapInv, NEW t \in Threads, Snapshot(t)
  PROVE  HeapInv'
  <1> USE DEF Snapshot, chunkVars, listVars
  <1>1. HeapType'
    BY DEF HeapInv, HeapType
  <1>2. /\ index' \in [Threads -> Nat] /\ block_size' \in [Threads -> Nat]
        /\ pc' \in [Threads -> Labels] /\ pc'[t] = "block"
        /\ \A u \in Threads \ {t} : /\ index'[u] = index[u] /\ pc'[u] = pc[u]
                                    /\ block_size'[u] = block_size[u]
        /\ OnLadder(t)'
    BY EnterChunkInv
  <1>3. /\ heap_chunks' \in [Threads -> Seq(Chunks)] /\ heap_chunks'[t] = chunks
        /\ \A u \in Threads \ {t} : heap_chunks'[u] = heap_chunks[u]
    BY DEF HeapInv, HeapType, CallType, Set
  <1>4. i' \in [Threads -> Nat]
    BY DEF HeapInv, CallType, Set
  <1>5. CallType'
    BY <1>2, <1>3, <1>4 DEF HeapInv, CallType
  <1>6. OthersKept(t)
    BY <1>2, <1>3 DEF OthersKept
  <1>7. Len(chunks) \in Nat
    BY LenProperties DEF HeapInv, HeapType
  <1>8. InSearch(t)'
    BY <1>2, <1>3, <1>7 DEF HeapInv, SearchInv, InSearch
  <1>9. SearchInv' /\ LadderInv'
    BY <1>1, <1>2, <1>5, <1>6, <1>7, <1>8, OthersInvKept
  <1>10. ObjectInv' /\ OwnerInv' /\ NoChunkLost'
    BY <1>2, <1>6, OwnersKept, ChunksKept
  <1> QED
    BY <1>1, <1>5, <1>9, <1>10 DEF HeapInv

\* The search goes round the list it took.
LEMMA NextChunkInv ==
  ASSUME HeapInv, NEW t \in Threads, NextChunk(t)
  PROVE  HeapInv'
  <1> USE DEF NextChunk, chunkVars, listVars
  <1>1. HeapType'
    BY DEF HeapInv, HeapType
  <1>2. /\ index' \in [Threads -> Nat] /\ block_size' \in [Threads -> Nat]
        /\ pc' \in [Threads -> Labels] /\ pc'[t] \in {"block", "register"}
        /\ \A u \in Threads \ {t} : /\ index'[u] = index[u] /\ pc'[u] = pc[u]
                                    /\ block_size'[u] = block_size[u]
        /\ OnLadder(t)'
    <2>1. CASE i[t] + 1 = Len(heap_chunks[t])
      <3>1. pc' = [pc EXCEPT ![t] = "register"] /\ UNCHANGED <<index, block_size, byte_size>>
        BY <2>1 DEF Goto
      <3>2. OnLadder(t) /\ pc[t] # "idle"
        BY DEF HeapInv, LadderInv
      <3> QED
        BY <3>1, <3>2 DEF HeapInv, CallType, Labels, OnLadder, Scanning
    <2>2. CASE i[t] + 1 # Len(heap_chunks[t])
      BY <2>2, EnterChunkInv
    <2> QED
      BY <2>1, <2>2
  <1> DEFINE cs == Len(heap_chunks[t])
             next == current_chunk_index[t] + 1
             new == IF next = cs THEN 0 ELSE next
  <1>3. /\ Len(chunks) \in Nat /\ cs \in Nat /\ current_chunk_index[t] \in Nat
        /\ i[t] \in Nat
    BY LenProperties DEF HeapInv, HeapType, CallType
  <1>4. current_chunk_index[t] < cs /\ cs <= Len(chunks)
    BY DEF HeapInv, SearchInv, InSearch
  <1>5. new \in Nat /\ new < cs
    <2> HIDE DEF cs, NextChunk
    <2> QED
      BY <1>3, <1>4
  <1>6. current_chunk_index' = [current_chunk_index EXCEPT ![t] = new]
    BY DEF Set
  <1>7. i' \in [Threads -> Nat]
    BY <1>3 DEF HeapInv, CallType, Set
  <1> HIDE DEF new
  <1>8. /\ current_chunk_index' \in [Threads -> Nat] /\ current_chunk_index'[t] = new
        /\ \A u \in Threads \ {t} : current_chunk_index'[u] = current_chunk_index[u]
    BY <1>5, <1>6 DEF HeapInv, CallType
  <1>9. CallType'
    BY <1>2, <1>7, <1>8 DEF HeapInv, CallType
  <1>10. OthersKept(t)
    BY <1>2, <1>8 DEF OthersKept
  <1>11. InSearch(t)'
    BY <1>2, <1>4, <1>5, <1>8 DEF HeapInv, SearchInv, InSearch
  <1>12. SearchInv' /\ LadderInv'
    BY <1>1, <1>2, <1>3, <1>9, <1>10, <1>11, OthersInvKept
  <1>13. ObjectInv' /\ OwnerInv' /\ NoChunkLost'
    BY <1>2, <1>10, OwnersKept, ChunksKept
  <1> QED
    BY <1>1, <1>9, <1>12, <1>13 DEF HeapInv

\* The chunk recorded is the chunk the thread is about to append.
LEMMA RegisterChunkInv ==
  ASSUME HeapInv, NEW t \in Threads, RegisterChunk(t)
  PROVE  HeapInv'
  <1> USE DEF RegisterChunk, Goto, Set, chunkVars, callVars, scanVars
  <1>1. created + 1 \in Chunks /\ created + 1 \in 0 .. MaxChunks
    BY ChunksAssumption DEF HeapInv, HeapType, Chunks
  <1>2. /\ heap_chunk_list \in Seq(Chunks) /\ heap_chunk_list' \in Seq(Chunks)
        /\ Len(heap_chunk_list') = Len(heap_chunk_list) + 1
        /\ Len(heap_chunk_list) \in Nat
        /\ \A n \in 1 .. Len(heap_chunk_list) : heap_chunk_list'[n] = heap_chunk_list[n]
        /\ heap_chunk_list'[Len(heap_chunk_list) + 1] = created + 1
    BY <1>1, AppendProperties, LenProperties DEF HeapInv, HeapType
  <1>3. HeapType'
    BY <1>1, <1>2 DEF HeapInv, HeapType
  <1>4. /\ fresh' \in [Threads -> 0 .. MaxChunks] /\ fresh'[t] = created + 1
        /\ \A u \in Threads \ {t} : fresh'[u] = fresh[u]
    BY <1>1 DEF HeapInv, CallType
  <1>5. /\ pc' \in [Threads -> Labels] /\ pc'[t] = "append"
        /\ \A u \in Threads \ {t} : pc'[u] = pc[u]
    BY DEF HeapInv, CallType, Labels
  <1>6. CallType'
    BY <1>4, <1>5 DEF HeapInv, CallType
  <1>7. OthersKept(t)
    BY <1>4, <1>5 DEF OthersKept
  <1>8. InSearch(t)'
    BY <1>1, <1>4, <1>5 DEF HeapInv, SearchInv, InSearch
  <1>9. OnLadder(t)'
    BY <1>5 DEF HeapInv, LadderInv, OnLadder, Scanning
  <1>10. Len(chunks) <= Len(chunks')
    BY LenProperties DEF HeapInv, HeapType
  <1>11. SearchInv' /\ LadderInv'
    BY <1>3, <1>6, <1>7, <1>8, <1>9, <1>10, OthersInvKept
  <1>12. ObjectInv' /\ OwnerInv'
    BY <1>5, <1>7, OwnersKept
  <1>13. NoChunkLost'
    <2> SUFFICES ASSUME NEW n \in 1 .. Len(heap_chunk_list')
                 PROVE  \/ \E k \in 1 .. Len(chunks) : chunks[k] = heap_chunk_list'[n]
                        \/ \E u \in Threads : pc'[u] = "append" /\ fresh'[u] = heap_chunk_list'[n]
      BY DEF NoChunkLost
    <2>1. CASE n = Len(heap_chunk_list) + 1
      BY <1>2, <1>4, <1>5, <2>1
    <2>2. CASE n \in 1 .. Len(heap_chunk_list)
      BY <1>2, <1>4, <1>5, <2>2 DEF HeapInv, NoChunkLost
    <2> QED
      BY <1>2, <2>1, <2>2
  <1> QED
    BY <1>3, <1>6, <1>11, <1>12, <1>13 DEF HeapInv

\* The list grows by the thread's chunk, whatever the others appended since.
LEMMA AppendChunkInv ==
  ASSUME HeapInv, NEW t \in Threads, AppendChunk(t)
  PROVE  HeapInv'
  <1> USE DEF AppendChunk, Appended, Goto, chunkVars, callVars, scanVars
  <1>1. fresh[t] \in Chunks
    BY DEF HeapInv, SearchInv, InSearch
  <1>2. /\ chunks' \in Seq(Chunks) /\ Len(chunks') = Len(chunks) + 1
        /\ Len(chunks) \in Nat
        /\ \A n \in 1 .. Len(chunks) : chunks'[n] = chunks[n]
        /\ chunks'[Len(chunks) + 1] = fresh[t]
    BY <1>1, AppendProperties, LenProperties DEF HeapInv, HeapType
  <1>3. HeapType'
    BY <1>2 DEF HeapInv, HeapType
  <1>4. /\ pc' \in [Threads -> Labels] /\ pc'[t] = "snapshot"
        /\ \A u \in Threads \ {t} : pc'[u] = pc[u]
    BY DEF HeapInv, CallType, Labels
  <1>5. CallType'
    BY <1>4 DEF HeapInv, CallType
  <1>6. OthersKept(t)
    BY <1>4 DEF OthersKept
  <1>7. /\ start_index[t] \in Nat /\ current_chunk_index[t] \in Nat
        /\ Len(heap_chunks[t]) \in Nat
    BY LenProperties DEF HeapInv, CallType
  <1>8. InSearch(t)'
    BY <1>2, <1>4, <1>7 DEF HeapInv, SearchInv, InSearch
  <1>9. OnLadder(t)'
    BY <1>4 DEF HeapInv, LadderInv, OnLadder, Scanning
  <1>10. SearchInv' /\ LadderInv'
    BY <1>2, <1>3, <1>5, <1>6, <1>8, <1>9, OthersInvKept
  <1>11. ObjectInv' /\ OwnerInv'
    BY <1>4, <1>6, OwnersKept
  <1>12. NoChunkLost'
    <2> SUFFICES ASSUME NEW n \in 1 .. Len(heap_chunk_list)
                 PROVE  \/ \E k \in 1 .. Len(chunks') : chunks'[k] = heap_chunk_list[n]
                        \/ \E u \in Threads : pc'[u] = "append" /\ fresh[u] = heap_chunk_list[n]
      BY DEF NoChunkLost
    <2>1. CASE fresh[t] = heap_chunk_list[n]
      BY <1>2, <2>1
    <2>2. CASE \E k \in 1 .. Len(chunks) : chunks[k] = heap_chunk_list[n]
      BY <1>2, <2>2
    <2>3. CASE \E u \in Threads \ {t} : pc[u] = "append" /\ fresh[u] = heap_chunk_list[n]
      BY <1>4, <2>3
    <2> QED
      BY <2>1, <2>2, <2>3 DEF HeapInv, NoChunkLost
  <1> QED
    BY <1>3, <1>5, <1>10, <1>11, <1>12 DEF HeapInv

\* Up the ladder, or off it into the next chunk.
LEMMA NextBlockInv ==
  ASSUME HeapInv, NEW t \in Threads, pc[t] \in Scanning, NextBlock(t), UNCHANGED byte_size
  PROVE  /\ index' \in [Threads -> Nat] /\ block_size' \in [Threads -> Nat]
         /\ pc' \in [Threads -> Labels] /\ pc'[t] \in {"block", "next_chunk"}
         /\ \A u \in Threads \ {t} : /\ index'[u] = index[u] /\ pc'[u] = pc[u]
                                     /\ block_size'[u] = block_size[u]
         /\ OnLadder(t)'
  <1>1. /\ index[t] \in Blocks /\ block_size[t] = BLOCK_SIZE(index[t])
        /\ byte_size[t] <= block_size[t] /\ byte_size[t] \in Nat
        /\ byte_size[t] <= BLOCK_SIZE(12)
    BY DEF HeapInv, CallType, LadderInv, OnLadder, Scanning
  <1>2. index[t] \in Nat /\ block_size[t] \in Nat /\ block_size[t] <= BLOCK_SIZE(12)
        /\ NextBlockSize(block_size[t]) \in Nat
    BY <1>1, BlockSizeValues, BlocksListed DEF NextBlockSize
  <1> DEFINE last == index[t] + 1 = NUMBER_OF_BLOCKS
             label == IF last THEN "next_chunk" ELSE "block"
  <1>3. /\ index' = [index EXCEPT ![t] = index[t] + 1]
        /\ block_size' = [block_size EXCEPT ![t] = NextBlockSize(block_size[t])]
        /\ pc' = [pc EXCEPT ![t] = label]
    <2>1. ~(block_size[t] > BLOCK_SIZE(12))
      BY <1>2, BlockSizeValues
    <2>2. (IF block_size[t] > BLOCK_SIZE(12) \/ last THEN "next_chunk" ELSE "block") = label
      BY <2>1
    <2> QED
      BY <2>2 DEF NextBlock, Set, Goto
  <1> HIDE DEF label
  <1>4. /\ index' \in [Threads -> Nat] /\ index'[t] = index[t] + 1
        /\ \A u \in Threads \ {t} : index'[u] = index[u]
    BY <1>2, <1>3 DEF HeapInv, CallType
  <1>5. /\ block_size' \in [Threads -> Nat] /\ block_size'[t] = NextBlockSize(block_size[t])
        /\ \A u \in Threads \ {t} : block_size'[u] = block_size[u]
    BY <1>2, <1>3 DEF HeapInv, CallType
  <1>6. /\ pc' \in [Threads -> Labels] /\ pc'[t] = label
        /\ \A u \in Threads \ {t} : pc'[u] = pc[u]
    BY <1>3 DEF HeapInv, CallType, Labels, label
  <1>7. ASSUME ~last
        PROVE  /\ index'[t] \in Blocks /\ block_size'[t] = BLOCK_SIZE(index'[t])
               /\ byte_size[t] <= block_size'[t]
    <2>1. /\ index[t] + 1 \in Blocks
          /\ NextBlockSize(BLOCK_SIZE(index[t])) = BLOCK_SIZE(index[t] + 1)
          /\ BLOCK_SIZE(index[t]) <= BLOCK_SIZE(index[t] + 1)
      BY <1>1, <1>7, NextBlockSizeFits
    <2> QED
      BY <1>1, <1>4, <1>5, <2>1, BlockSizePositive
  <1>8. OnLadder(t)'
    BY <1>1, <1>6, <1>7 DEF OnLadder, label, Scanning
  <1> QED
    BY <1>4, <1>5, <1>6, <1>8 DEF label

\* Into a block with its cursor, or past a block that was given up.
LEMMA EnterBlockInv ==
  ASSUME HeapInv, NEW t \in Threads, EnterBlock(t)
  PROVE  HeapInv'
  <1> USE DEF EnterBlock, chunkVars, listVars, callVars
  <1>1. HeapType'
    BY DEF HeapInv, HeapType
  <1>2. pc[t] \in Scanning /\ Block(t) \in Chunks \X Blocks
    BY CellType DEF Scanning
  <1>3. /\ index' \in [Threads -> Nat] /\ block_size' \in [Threads -> Nat]
        /\ pc' \in [Threads -> Labels] /\ pc'[t] \in {"probe", "block", "next_chunk"}
        /\ \A u \in Threads \ {t} : /\ index'[u] = index[u] /\ pc'[u] = pc[u]
                                    /\ block_size'[u] = block_size[u]
        /\ OnLadder(t)'
    <2>1. CASE empty[Block(t)]
      <3>1. pc' = [pc EXCEPT ![t] = "probe"] /\ UNCHANGED <<index, block_size, byte_size>>
        BY <2>1 DEF Goto
      <3>2. OnLadder(t)
        BY DEF HeapInv, LadderInv
      <3> QED
        BY <1>2, <3>1, <3>2 DEF HeapInv, CallType, Labels, OnLadder, Scanning
    <2>2. CASE ~empty[Block(t)]
      BY <1>2, <2>2, NextBlockInv
    <2> QED
      BY <2>1, <2>2
  <1>4. /\ entry_index' \in [Threads -> Entries]
        /\ \A u \in Threads \ {t} : entry_index'[u] = entry_index[u]
    <2>1. current_location[Block(t)] \in Entries
      BY <1>2 DEF HeapInv, HeapType
    <2> QED
      BY <2>1 DEF HeapInv, CallType, Set
  <1>5. j' \in [Threads -> Nat]
    <2>1. j' = [j EXCEPT ![t] = 0] \/ j' = j
      BY DEF Set
    <2>2. j \in [Threads -> Nat]
      BY DEF HeapInv, CallType
    <2> HIDE DEF EnterBlock
    <2> QED
      BY <2>1, <2>2
  <1>6. CallType'
    BY <1>3, <1>4, <1>5 DEF HeapInv, CallType
  <1>7. OthersKept(t)
    BY <1>3, <1>4 DEF OthersKept
  <1>8. InSearch(t)'
    BY <1>3 DEF HeapInv, SearchInv, InSearch
  <1>9. Len(chunks) <= Len(chunks')
    BY LenProperties DEF HeapInv, HeapType
  <1>10. SearchInv' /\ LadderInv'
    BY <1>1, <1>3, <1>6, <1>7, <1>8, <1>9, OthersInvKept
  <1>11. ObjectInv' /\ OwnerInv' /\ NoChunkLost'
    BY <1>3, <1>7, OwnersKept, ChunksKept
  <1> QED
    BY <1>1, <1>6, <1>10, <1>11 DEF HeapInv

\* Past a cell that is taken, within the block.
LEMMA SkipCellInv ==
  ASSUME HeapInv, NEW t \in Threads, pc[t] \in Scanning, SkipCell(t),
         UNCHANGED <<byte_size, index, block_size>>
  PROVE  /\ entry_index' \in [Threads -> Entries] /\ j' \in [Threads -> Nat]
         /\ pc' \in [Threads -> Labels] /\ pc'[t] \in {"retire", "probe"}
         /\ \A u \in Threads \ {t} : entry_index'[u] = entry_index[u] /\ pc'[u] = pc[u]
         /\ OnLadder(t)'
  <1>1. NextEntry(entry_index[t]) \in Entries /\ j[t] + 1 \in Nat
    BY NextEntryType DEF HeapInv, CallType
  <1>2. /\ entry_index' \in [Threads -> Entries]
        /\ \A u \in Threads \ {t} : entry_index'[u] = entry_index[u]
    BY <1>1 DEF HeapInv, CallType, SkipCell, Set
  <1>3. j' \in [Threads -> Nat]
    BY <1>1 DEF HeapInv, CallType, SkipCell, Set
  <1> DEFINE label == IF j[t] + 1 = cells_size THEN "retire" ELSE "probe"
  <1>4. pc' = [pc EXCEPT ![t] = label]
    BY DEF SkipCell, Goto
  <1>5. label \in {"retire", "probe"}
    OBVIOUS
  <1> HIDE DEF label
  <1>6. /\ pc' \in [Threads -> Labels] /\ pc'[t] \in {"retire", "probe"}
        /\ \A u \in Threads \ {t} : pc'[u] = pc[u]
    BY <1>4, <1>5 DEF HeapInv, CallType, Labels
  <1>7. OnLadder(t)'
    BY <1>6 DEF HeapInv, LadderInv, OnLadder, Scanning
  <1> QED
    BY <1>2, <1>3, <1>6, <1>7

\* A look at a cell changes nothing others see.
LEMMA ProbeCellInv ==
  ASSUME HeapInv, NEW t \in Threads, ProbeCell(t)
  PROVE  HeapInv'
  <1> USE DEF chunkVars, listVars, callVars
  <1>0. /\ pc[t] = "probe" /\ pc[t] \in Scanning
        /\ UNCHANGED <<chunkVars, listVars, callVars, index, block_size, start_index,
                       held, calls, fresh>>
    BY DEF ProbeCell, Scanning
  <1>1. HeapType'
    BY <1>0 DEF HeapInv, HeapType
  <1>2. /\ entry_index' \in [Threads -> Entries] /\ j' \in [Threads -> Nat]
        /\ pc' \in [Threads -> Labels] /\ pc'[t] \in {"claim", "retire", "probe"}
        /\ \A u \in Threads \ {t} : entry_index'[u] = entry_index[u] /\ pc'[u] = pc[u]
        /\ OnLadder(t)'
    <2>1. CASE state[Cell(t)] = "dead"
      <3>1. pc' = [pc EXCEPT ![t] = "claim"] /\ UNCHANGED <<entry_index, j>>
        BY <2>1 DEF ProbeCell, Goto
      <3>2. /\ pc' \in [Threads -> Labels] /\ pc'[t] = "claim"
            /\ \A u \in Threads \ {t} : pc'[u] = pc[u]
        BY <3>1 DEF HeapInv, CallType, Labels
      <3>3. OnLadder(t)'
        BY <1>0, <3>2 DEF HeapInv, LadderInv, OnLadder, Scanning
      <3> QED
        BY <3>1, <3>2, <3>3 DEF HeapInv, CallType
    <2>2. CASE state[Cell(t)] # "dead"
      BY <1>0, <2>2, SkipCellInv DEF ProbeCell
    <2> QED
      BY <2>1, <2>2
  <1>3. CallType'
    BY <1>0, <1>2 DEF HeapInv, CallType
  <1>4. OthersKept(t)
    BY <1>0, <1>2 DEF OthersKept
  <1>5. InSearch(t)'
    BY <1>0, <1>2 DEF HeapInv, SearchInv, InSearch
  <1>6. Len(chunks) <= Len(chunks')
    BY <1>0, LenProperties DEF HeapInv, HeapType
  <1>7. SearchInv' /\ LadderInv'
    BY <1>1, <1>2, <1>3, <1>4, <1>5, <1>6, OthersInvKept
  <1>8. ObjectInv' /\ OwnerInv' /\ NoChunkLost'
    BY <1>0, <1>2, <1>4, OwnersKept, ChunksKept
  <1> QED
    BY <1>1, <1>3, <1>7, <1>8 DEF HeapInv

\* A claim that succeeds found the cell dead: nobody else owns it.
LEMMA ClaimCellInv ==
  ASSUME HeapInv, NEW t \in Threads, ClaimCell(t)
  PROVE  HeapInv'
  <1> USE DEF chunkVars, listVars, callVars
  <1>0. /\ pc[t] = "claim" /\ pc[t] \in Scanning
        /\ UNCHANGED <<current_location, empty, listVars, callVars, index, block_size,
                       start_index, held, calls, fresh>>
    BY DEF ClaimCell, Scanning
  <1>1. Cell(t) \in Cells
    BY <1>0, CellType
  <1>2. /\ entry_index' \in [Threads -> Entries] /\ j' \in [Threads -> Nat]
        /\ pc' \in [Threads -> Labels] /\ pc'[t] \in {"install", "retire", "probe"}
        /\ \A u \in Threads \ {t} : entry_index'[u] = entry_index[u] /\ pc'[u] = pc[u]
        /\ OnLadder(t)'
        /\ state' \in [Cells -> {"dead", "live"}]
    <2>1. CASE state[Cell(t)] = "dead"
      <3>1. pc' = [pc EXCEPT ![t] = "install"] /\ UNCHANGED <<entry_index, j>>
        BY <2>1 DEF ClaimCell, Goto
      <3>2. /\ pc' \in [Threads -> Labels] /\ pc'[t] = "install"
            /\ \A u \in Threads \ {t} : pc'[u] = pc[u]
        BY <3>1 DEF HeapInv, CallType, Labels
      <3>3. OnLadder(t)'
        BY <1>0, <3>2 DEF HeapInv, LadderInv, OnLadder, Scanning
      <3>4. state' = [state EXCEPT ![Cell(t)] = "live"] \/ state' = state
        BY <2>1 DEF ClaimCell, Set
      <3>5. state' \in [Cells -> {"dead", "live"}]
        BY <3>4 DEF HeapInv, HeapType
      <3> QED
        BY <3>1, <3>2, <3>3, <3>5 DEF HeapInv, CallType
    <2>2. CASE state[Cell(t)] # "dead"
      <3>1. UNCHANGED state
        BY <2>2 DEF ClaimCell
      <3> QED
        BY <1>0, <2>2, <3>1, SkipCellInv DEF ClaimCell, HeapInv, HeapType
    <2> QED
      BY <2>1, <2>2
  <1>3. HeapType'
    BY <1>0, <1>2 DEF HeapInv, HeapType
  <1>4. CallType'
    BY <1>0, <1>2 DEF HeapInv, CallType
  <1>5. OthersKept(t)
    BY <1>0, <1>2 DEF OthersKept
  <1>6. InSearch(t)'
    BY <1>0, <1>2 DEF HeapInv, SearchInv, InSearch
  <1>7. Len(chunks) <= Len(chunks')
    BY <1>0, LenProperties DEF HeapInv, HeapType
  <1>8. SearchInv' /\ LadderInv'
    BY <1>2, <1>3, <1>4, <1>5, <1>6, <1>7, OthersInvKept
  <1>9. NoChunkLost'
    BY <1>0, <1>5, ChunksKept
  <1>10. ObjectInv' /\ OwnerInv'
    <2>1. CASE state[Cell(t)] = "dead"
      <3>1. \A u \in Threads : Cell(u)' = Cell(u)
        BY <1>0, <2>1 DEF ClaimCell, Cell, Chunk
      <3>2. pc'[t] = "install" /\ \A u \in Threads \ {t} : pc'[u] = pc[u]
        BY <2>1 DEF ClaimCell, Goto, HeapInv, CallType
      <3>3. \A a \in held : a.cell # Cell(t) /\ a.cell \in Cells
        BY <2>1 DEF HeapInv, OwnerInv, ObjectInv
      <3>4. \A u \in Threads \ {t} : pc[u] = "install" => Cell(u) # Cell(t)
        BY <2>1, OwnerAssumption DEF HeapInv, OwnerInv
      <3>5. /\ \A c \in Cells : state[c] = "live" => state'[c] = "live"
            /\ is_thread_safe => state'[Cell(t)] = "live"
        <4>1. state' = IF is_thread_safe THEN [state EXCEPT ![Cell(t)] = "live"] ELSE state
          BY <2>1 DEF ClaimCell, Set
        <4> QED
          BY <1>1, <4>1 DEF HeapInv, HeapType
      <3>6. \A u \in Threads : pc[u] = "install" => Cell(u) \in Cells
        BY CellType DEF Scanning
      <3>7. ObjectInv'
        BY <1>0 DEF HeapInv, ObjectInv
      <3>8. OwnerInv'
        <4>1. /\ \A a \in held' : state'[a.cell] = "live"
              /\ \A a, b \in held' : a.cell = b.cell => a = b
          BY <1>0, <3>3, <3>5 DEF HeapInv, OwnerInv
        <4>2. ASSUME NEW u \in Threads, pc'[u] = "install"
              PROVE  /\ is_thread_safe => state'[Cell(u)] = "live"
                     /\ \A a \in held' : a.cell # Cell(u)
                     /\ \A v \in Threads : (v # u /\ pc'[v] = "install") => Cell(v) # Cell(u)
          <5>1. CASE u = t
            BY <1>0, <3>2, <3>3, <3>4, <3>5, <5>1
          <5>2. CASE u # t
            BY <1>0, <3>2, <3>4, <3>5, <3>6, <4>2, <5>2 DEF HeapInv, OwnerInv
          <5> QED
            BY <5>1, <5>2
        <4> QED
          BY <3>1, <4>1, <4>2 DEF OwnerInv
      <3> QED
        BY <3>7, <3>8
    <2>2. CASE state[Cell(t)] # "dead"
      <3>1. UNCHANGED <<state, held>> /\ pc'[t] # "install"
        BY <1>0, <2>2, SkipCellInv DEF ClaimCell
      <3> QED
        BY <1>5, <3>1, OwnersKept
    <2> QED
      BY <2>1, <2>2
  <1> QED
    BY <1>3, <1>4, <1>8, <1>9, <1>10 DEF HeapInv

\* The object takes the cell over from the thread that claimed it.
LEMMA InstallObjectInv ==
  ASSUME HeapInv, NEW t \in Threads, InstallObject(t)
  PROVE  HeapInv'
  <1> USE DEF listVars, callVars, scanVars
  <1>0. /\ pc[t] = "install" /\ pc[t] \in Scanning
        /\ UNCHANGED <<empty, listVars, callVars, scanVars, calls, fresh>>
    BY DEF InstallObject, Scanning
  <1>1. /\ Cell(t) \in Cells /\ Block(t) \in Chunks \X Blocks
        /\ Cell(t)[1] = Chunk(t) /\ Cell(t)[2] = index[t] /\ Cell(t)[3] = entry_index[t]
    BY <1>0, CellType
  <1>2. NextEntry(entry_index[t]) \in Entries
    BY NextEntryType DEF HeapInv, CallType
  <1>3. /\ state' \in [Cells -> {"dead", "live"}] /\ state'[Cell(t)] = "live"
        /\ \A c \in Cells : state[c] = "live" => state'[c] = "live"
    BY <1>1 DEF InstallObject, Set, HeapInv, HeapType
  <1>4. current_location' \in [Chunks \X Blocks -> Entries]
    BY <1>1, <1>2 DEF InstallObject, Set, HeapInv, HeapType
  <1>5. HeapType'
    BY <1>0, <1>3, <1>4 DEF HeapInv, HeapType
  <1>6. /\ pc' \in [Threads -> Labels] /\ pc'[t] = "idle"
        /\ \A u \in Threads \ {t} : pc'[u] = pc[u]
    BY DEF InstallObject, Goto, HeapInv, CallType, Labels
  <1>7. /\ start_index' \in [Threads -> Nat] /\ start_index'[t] = current_chunk_index[t]
        /\ \A u \in Threads \ {t} : start_index'[u] = start_index[u]
    BY DEF InstallObject, Set, HeapInv, CallType
  <1>8. CallType'
    BY <1>0, <1>6, <1>7 DEF HeapInv, CallType
  <1>9. OthersKept(t)
    BY <1>0, <1>6, <1>7 DEF OthersKept
  <1>10. /\ Len(chunks) \in Nat /\ Len(heap_chunks[t]) \in Nat
         /\ current_chunk_index[t] \in Nat
    BY LenProperties DEF HeapInv, HeapType, CallType
  <1>11. InSearch(t)'
    BY <1>0, <1>6, <1>7, <1>10 DEF HeapInv, SearchInv, InSearch
  <1>12. OnLadder(t)'
    BY <1>6 DEF OnLadder, Scanning
  <1>13. SearchInv' /\ LadderInv'
    BY <1>0, <1>5, <1>8, <1>9, <1>10, <1>11, <1>12, OthersInvKept
  <1>14. NoChunkLost'
    BY <1>0, <1>9, ChunksKept
  <1> DEFINE object == NewObject(t)
  <1>15. /\ object.cell = Cell(t) /\ object.chunk = Chunk(t)
         /\ object.first = EntryPosition[index[t]] + entry_index[t] * block_size[t]
         /\ object.size = byte_size[t]
    BY DEF NewObject
  <1>16. held' = held \cup {object}
    BY DEF InstallObject
  <1> HIDE DEF object
  <1>17. ObjectInv'
    <2>1. ASSUME NEW a \in held
          PROVE  /\ a.cell \in Cells
                 /\ a.chunk = a.cell[1]
                 /\ a.first = EntryPosition[a.cell[2]] + a.cell[3] * BLOCK_SIZE(a.cell[2])
                 /\ a.size \in Nat
                 /\ a.size <= BLOCK_SIZE(a.cell[2])
      BY DEF HeapInv, ObjectInv
    <2>2. /\ block_size[t] = BLOCK_SIZE(index[t]) /\ byte_size[t] <= block_size[t]
          /\ byte_size[t] \in Nat
      BY <1>0 DEF HeapInv, LadderInv, OnLadder, CallType
    <2>3. /\ object.cell \in Cells
          /\ object.chunk = object.cell[1]
          /\ object.first = EntryPosition[object.cell[2]]
                              + object.cell[3] * BLOCK_SIZE(object.cell[2])
          /\ object.size \in Nat
          /\ object.size <= BLOCK_SIZE(object.cell[2])
      BY <1>1, <1>15, <2>2
    <2> QED
      BY <1>16, <2>1, <2>3 DEF ObjectInv
  <1>18. OwnerInv'
    <2>1. \A a \in held : a.cell \in Cells /\ state'[a.cell] = "live" /\ a.cell # Cell(t)
      BY <1>0, <1>3 DEF HeapInv, ObjectInv, OwnerInv
    <2>2. \A a \in held' : state'[a.cell] = "live"
      BY <1>3, <1>15, <1>16, <2>1
    <2>3. \A a, b \in held' : a.cell = b.cell => a = b
      BY <1>15, <1>16, <2>1 DEF HeapInv, OwnerInv
    <2>4. \A u \in Threads : Cell(u)' = Cell(u)
      BY <1>0 DEF Cell, Chunk
    <2>5. \A u \in Threads : pc[u] = "install" => Cell(u) \in Cells
      BY CellType DEF Scanning
    <2>6. ASSUME NEW u \in Threads, pc'[u] = "install"
          PROVE  /\ is_thread_safe => state'[Cell(u)] = "live"
                 /\ \A a \in held' : a.cell # Cell(u)
                 /\ \A v \in Threads : (v # u /\ pc'[v] = "install") => Cell(v) # Cell(u)
      <3>1. u # t /\ pc[u] = "install"
        BY <1>6, <2>6
      <3>2. /\ is_thread_safe => state'[Cell(u)] = "live"
            /\ \A a \in held : a.cell # Cell(u)
            /\ Cell(t) # Cell(u)
        BY <1>0, <1>3, <2>5, <3>1 DEF HeapInv, OwnerInv
      <3>3. \A v \in Threads : (v # u /\ pc'[v] = "install") => Cell(v) # Cell(u)
        BY <1>6, <3>1 DEF HeapInv, OwnerInv
      <3> QED
        BY <1>15, <1>16, <3>2, <3>3
    <2> QED
      BY <2>2, <2>3, <2>4, <2>6 DEF OwnerInv
  <1> QED
    BY <1>5, <1>8, <1>13, <1>14, <1>17, <1>18 DEF HeapInv

\* A block is given up with the cursor inside it.
LEMMA RetireBlockInv ==
  ASSUME HeapInv, NEW t \in Threads, RetireBlock(t)
  PROVE  HeapInv'
  <1> USE DEF listVars, callVars
  <1>0. /\ pc[t] = "retire" /\ pc[t] \in Scanning /\ NextBlock(t)
        /\ UNCHANGED <<state, listVars, callVars, entry_index, j, start_index, held, calls,
                       fresh>>
    BY DEF RetireBlock, Scanning
  <1>1. Block(t) \in Chunks \X Blocks /\ entry_index[t] \in Entries
    BY <1>0, CellType DEF HeapInv, CallType
  <1>2. /\ current_location' \in [Chunks \X Blocks -> Entries]
        /\ empty' \in [Chunks \X Blocks -> BOOLEAN]
    BY <1>1 DEF RetireBlock, Set, HeapInv, HeapType
  <1>3. HeapType'
    BY <1>0, <1>2 DEF HeapInv, HeapType
  <1>4. /\ index' \in [Threads -> Nat] /\ block_size' \in [Threads -> Nat]
        /\ pc' \in [Threads -> Labels] /\ pc'[t] \in {"block", "next_chunk"}
        /\ \A u \in Threads \ {t} : /\ index'[u] = index[u] /\ pc'[u] = pc[u]
                                    /\ block_size'[u] = block_size[u]
        /\ OnLadder(t)'
    BY <1>0, NextBlockInv
  <1>5. CallType'
    BY <1>0, <1>4 DEF HeapInv, CallType
  <1>6. OthersKept(t)
    BY <1>0, <1>4 DEF OthersKept
  <1>7. InSearch(t)'
    BY <1>0, <1>4 DEF HeapInv, SearchInv, InSearch
  <1>8. Len(chunks) <= Len(chunks')
    BY <1>0, LenProperties DEF HeapInv, HeapType
  <1>9. SearchInv' /\ LadderInv'
    BY <1>3, <1>4, <1>5, <1>6, <1>7, <1>8, OthersInvKept
  <1>10. ObjectInv' /\ OwnerInv' /\ NoChunkLost'
    BY <1>0, <1>4, <1>6, OwnersKept, ChunksKept
  <1> QED
    BY <1>3, <1>5, <1>9, <1>10 DEF HeapInv

\* An object that goes takes its own cell with it and no other.
LEMMA ReleaseInv ==
  ASSUME HeapInv, NEW object \in held, Release(object)
  PROVE  HeapInv'
  <1> USE DEF listVars, callVars, scanVars
  <1>0. /\ held' = held \ {object}
        /\ UNCHANGED <<current_location, empty, listVars, callVars, scanVars, start_index,
                       calls, pc, fresh>>
    BY DEF Release
  <1>1. object.cell \in Cells
    BY DEF HeapInv, ObjectInv
  <1>2. /\ state' \in [Cells -> {"dead", "live"}]
        /\ \A c \in Cells : c # object.cell => state'[c] = state[c]
    BY <1>1 DEF Release, Set, HeapInv, HeapType
  <1>3. HeapType'
    BY <1>0, <1>2 DEF HeapInv, HeapType
  <1>4. CallType'
    BY <1>0 DEF HeapInv, CallType
  <1>5. SearchInv' /\ LadderInv'
    BY <1>0 DEF HeapInv, SearchInv, InSearch, LadderInv, OnLadder
  <1>6. NoChunkLost'
    BY <1>0 DEF HeapInv, NoChunkLost
  <1>7. ObjectInv'
    BY <1>0 DEF HeapInv, ObjectInv
  <1>8. OwnerInv'
    <2>1. \A a \in held' : a \in held /\ a.cell \in Cells /\ a.cell # object.cell
      BY <1>0 DEF HeapInv, ObjectInv, OwnerInv
    <2>2. \A a \in held' : state'[a.cell] = "live"
      BY <1>2, <2>1 DEF HeapInv, OwnerInv
    <2>3. \A u \in Threads : Cell(u)' = Cell(u)
      BY <1>0 DEF Cell, Chunk
    <2>4. \A u \in Threads : pc[u] = "install" => Cell(u) \in Cells /\ Cell(u) # object.cell
      BY CellType DEF Scanning, HeapInv, OwnerInv
    <2>5. ASSUME NEW u \in Threads, pc'[u] = "install"
          PROVE  /\ is_thread_safe => state'[Cell(u)] = "live"
                 /\ \A a \in held' : a.cell # Cell(u)
                 /\ \A v \in Threads : (v # u /\ pc'[v] = "install") => Cell(v) # Cell(u)
      BY <1>0, <1>2, <2>4, <2>5 DEF HeapInv, OwnerInv
    <2>6. \A a, b \in held' : a.cell = b.cell => a = b
      BY <2>1 DEF HeapInv, OwnerInv
    <2> QED
      BY <2>2, <2>3, <2>5, <2>6 DEF OwnerInv
  <1> QED
    BY <1>3, <1>4, <1>5, <1>6, <1>7, <1>8 DEF HeapInv

\* Every step keeps the invariant.
LEMMA NextHeapInv == HeapInv /\ [Next]_vars => HeapInv'
  <1> SUFFICES ASSUME HeapInv, [Next]_vars PROVE HeapInv'
    OBVIOUS
  <1>1. ASSUME NEW t \in Threads, MallocStep(t) PROVE HeapInv'
    BY <1>1, SnapshotInv, NextChunkInv, RegisterChunkInv, AppendChunkInv, EnterBlockInv,
       ProbeCellInv, ClaimCellInv, InstallObjectInv, RetireBlockInv DEF MallocStep
  <1>2. ASSUME NEW t \in Threads, NEW n \in Lengths, CallMalloc(t, n) PROVE HeapInv'
    BY <1>2, CallMallocInv
  <1>3. ASSUME NEW object \in held, Release(object) PROVE HeapInv'
    BY <1>3, ReleaseInv
  <1>4. CASE UNCHANGED vars
    BY <1>4 DEF vars, chunkVars, listVars, callVars, scanVars, HeapInv, HeapType, CallType,
       SearchInv, InSearch, LadderInv, OnLadder, ObjectInv, OwnerInv, NoChunkLost, Cell, Chunk
  <1> QED
    BY <1>1, <1>2, <1>3, <1>4 DEF Next

\* The invariant holds throughout.
LEMMA HeapInvAlways == Spec => []HeapInv
  BY InitHeapInv, NextHeapInv, PTL DEF Spec

-----------------------------------------------------------------------------
\* HeapAllocator::malloc hands out memory that nobody has: two objects in use
\* never share a byte, and none reaches past the cells of its chunk.
THEOREM ObjectsApart == Spec => []NoOverlap
  <1>1. HeapInv => NoOverlap
    <2> SUFFICES ASSUME HeapInv, NEW a \in held
                 PROVE  /\ a.first + a.size <= BLOCKS_SIZE * cells_size
                        /\ \A b \in held :
                             (a # b /\ a.chunk = b.chunk) =>
                               \/ a.first + a.size <= b.first
                               \/ b.first + b.size <= a.first
      BY DEF NoOverlap
    <2> DEFINE B(x) == x.cell[2]
               E(x) == x.cell[3]
    <2>1. ASSUME NEW x \in held
          PROVE  /\ B(x) \in Blocks /\ E(x) \in Entries
                 /\ x.cell = <<x.chunk, B(x), E(x)>>
                 /\ x.first = Start(B(x), E(x)) /\ x.first \in Nat
                 /\ x.first + x.size <= x.first + BLOCK_SIZE(B(x))
                 /\ x.first + BLOCK_SIZE(B(x)) <= BLOCKS_SIZE * cells_size
                 /\ x.size \in Nat /\ BLOCK_SIZE(B(x)) \in Nat
      <3>1. /\ x.cell \in Cells /\ x.chunk = x.cell[1]
            /\ x.first = Start(B(x), E(x)) /\ x.size \in Nat /\ x.size <= BLOCK_SIZE(B(x))
        BY DEF HeapInv, ObjectInv, Start
      <3>2. B(x) \in Blocks /\ E(x) \in Entries /\ x.cell = <<x.chunk, B(x), E(x)>>
        BY <3>1 DEF Cells
      <3> HIDE DEF B, E
      <3>3. /\ Start(B(x), E(x)) \in Nat /\ BLOCK_SIZE(B(x)) \in Nat
            /\ Start(B(x), E(x)) + BLOCK_SIZE(B(x)) <= BLOCKS_SIZE * cells_size
        BY <3>2, CellInChunk, BlockSizePositive
      <3> QED
        BY <3>1, <3>2, <3>3
    <2> HIDE DEF B, E
    <2>2. a.first + a.size <= BLOCKS_SIZE * cells_size
      BY <2>1, CellsAssumption DEF BLOCKS_SIZE
    <2>3. ASSUME NEW b \in held, a # b, a.chunk = b.chunk
          PROVE  \/ a.first + a.size <= b.first
                 \/ b.first + b.size <= a.first
      <3>1. a.cell # b.cell
        BY <2>3 DEF HeapInv, OwnerInv
      <3>2. B(a) # B(b) \/ E(a) # E(b)
        BY <2>1, <2>3, <3>1
      <3>3. \/ Start(B(a), E(a)) + BLOCK_SIZE(B(a)) <= Start(B(b), E(b))
            \/ Start(B(b), E(b)) + BLOCK_SIZE(B(b)) <= Start(B(a), E(a))
        BY <2>1, <3>2, CellsApart
      <3> QED
        BY <2>1, <3>3
    <2> QED
      BY <2>2, <2>3
  <1> QED
    BY <1>1, HeapInvAlways, PTL

\* Whatever length is asked for and however far up the blocks a call goes, the
\* object lies in the cell whose state word stands for it.
THEOREM ObjectsInTheirCells == Spec => []InOwnCell
  <1>1. HeapInv => InOwnCell
    BY DEF HeapInv, ObjectInv, InOwnCell
  <1> QED
    BY <1>1, HeapInvAlways, PTL

\* The searches of HeapAllocator::malloc and HeapChunk::malloc, which check no
\* bounds, index the chunk list they took and the cells of a block in bounds.
THEOREM SearchInBounds == Spec => []IndexesInRange
  <1>1. HeapInv => IndexesInRange
    BY DEF HeapInv, HeapType, CallType, SearchInv, InSearch, IndexesInRange
  <1> QED
    BY <1>1, HeapInvAlways, PTL

\* create_new_chunk, called by any number of threads together, loses no chunk.
THEOREM ChunksSearched == Spec => []NoChunkLost
  <1>1. HeapInv => NoChunkLost
    BY DEF HeapInv
  <1> QED
    BY <1>1, HeapInvAlways, PTL

-----------------------------------------------------------------------------
(***************************************************************************)
(* The heap grows only when it is full.                                    *)
(*                                                                         *)
(* A block is given up when each of its cells has been handed out at some  *)
(* time since the chunk was created; which ones have is not in the state,  *)
(* because a released cell looks as if it never had been.  The invariant   *)
(* says that some set G of cells can be those that have been handed out.   *)
(* A thread that goes on to create a chunk has found the last block of     *)
(* every chunk in its list given up, so it is not the one who created the  *)
(* chunks that are still being filled: the invariant says that these can   *)
(* be assigned to threads, no two to the same.                             *)
(***************************************************************************)
\* The k positions before position n of a round of length len.
Before(n, k, len) ==
  {p \in 0 .. len - 1 : (n - k <= p /\ p < n) \/ p >= n - k + len}

\* The last block of chunk c, the one every search ends with, was given up.
Full(c) == ~empty[<<c, NUMBER_OF_BLOCKS - 1>>]

Filling == {c \in Chunks : c <= created /\ ~Full(c)}

\* Calls that go on looking for a cell.
Busy == {t \in Threads : pc[t] \notin {"idle", "install"}}

\* Every cell handed out since its chunk was created is in G, and there were
\* no more than the calls that got one.
GivenOut(G) ==
  /\ Cardinality(G) <= Served
  /\ \A c \in Cells : state[c] # "dead" => c \in G
  /\ \A c \in Chunks, b \in Blocks, e \in Entries : ~empty[<<c, b>>] => <<c, b, e>> \in G

\* So are those a search has passed over.
CellsPassed(t, G) ==
  /\ pc[t] = "install" => Cell(t) \in G
  /\ pc[t] \in {"probe", "claim"} => j[t] < cells_size
  /\ pc[t] = "retire" => j[t] = cells_size
  /\ pc[t] \in {"probe", "claim", "retire"} =>
       \A e \in Before(entry_index[t], j[t], cells_size) : <<Chunk(t), index[t], e>> \in G

\* The chunks a search has passed over are full.
ChunksPassed(t) ==
  /\ pc[t] \in Scanning \cup {"next_chunk"} => i[t] < Len(heap_chunks[t])
  /\ pc[t] = "next_chunk" => Full(Chunk(t))
  /\ pc[t] = "register" => i[t] = Len(heap_chunks[t])
  /\ pc[t] \in Scanning \cup {"next_chunk", "register"} =>
       \A p \in Before(current_chunk_index[t], i[t], Len(heap_chunks[t])) :
         Full(heap_chunks[t][p + 1])

\* The chunks a search goes over are among those of the allocator.
SnapshotOld(t) ==
  pc[t] \notin {"idle", "snapshot"} =>
    \A k \in 1 .. Len(heap_chunks[t]) : \E l \in 1 .. Len(chunks) :
      chunks[l] = heap_chunks[t][k]

\* Thread t will look into chunk c before it creates another one.
KnowsOf(t, c) ==
  \/ pc[t] = "append" /\ fresh[t] = c
  \/ pc[t] \in {"idle", "snapshot"} /\ \E k \in 1 .. Len(chunks) : chunks[k] = c
  \/ /\ pc[t] \notin {"append", "idle", "snapshot"}
     /\ \E k \in 1 .. Len(heap_chunks[t]) : heap_chunks[t][k] = c

Growth(G, f) ==
  /\ calls \in Nat
  /\ GivenOut(G)
  /\ \A t \in Threads : CellsPassed(t, G) /\ ChunksPassed(t) /\ SnapshotOld(t)
  /\ \A c \in Filling : KnowsOf(f[c], c)
  /\ \A c, d \in Filling : f[c] = f[d] => c = d

GrowthInv == \E G \in SUBSET Cells : \E f \in [Chunks -> Threads] : Growth(G, f)

\* One more position passed.
LEMMA BeforeStep ==
  ASSUME NEW len \in Nat \ {0}, NEW n \in 0 .. len - 1, NEW k \in 0 .. len - 1, NEW m \in Nat,
         m = IF n + 1 = len THEN 0 ELSE n + 1
  PROVE  \A p \in Before(m, k + 1, len) : p = n \/ p \in Before(n, k, len)
  BY DEF Before

\* None passed.
LEMMA BeforeNone ==
  ASSUME NEW len \in Nat, NEW n \in 0 .. len - 1
  PROVE  Before(n, 0, len) = {}
  BY DEF Before

\* All of them passed.
LEMMA BeforeAll ==
  ASSUME NEW len \in Nat, NEW n \in 0 .. len - 1
  PROVE  Before(n, len, len) = 0 .. len - 1
  BY DEF Before

\* Cells are finitely many.
LEMMA CellsFinite == IsFiniteSet(Cells)
  <1>1. IsFiniteSet(1 .. MaxChunks) /\ IsFiniteSet(0 .. cells_size - 1) /\ IsFiniteSet(0 .. 12)
    <2>1. /\ 0 \in Int /\ 1 \in Int /\ 12 \in Int /\ MaxChunks \in Int /\ cells_size - 1 \in Int
      BY ChunksAssumption, CellsAssumption
    <2> QED
      BY <2>1, FS_Interval
  <1>2. IsFiniteSet(Chunks) /\ IsFiniteSet(Entries) /\ IsFiniteSet(Blocks)
    <2>1. Blocks = 0 .. 12
      BY DEF Blocks, NUMBER_OF_BLOCKS
    <2> QED
      BY <1>1, <2>1 DEF Chunks, Entries
  <1> DEFINE P == Chunks \X (Blocks \X Entries)
             g == [c \in Cells |-> <<c[1], <<c[2], c[3]>>>>]
  <1>3. IsFiniteSet(P)
    <2>1. IsFiniteSet(Blocks \X Entries)
      BY <1>2, FS_Product
    <2> QED
      BY <1>2, <2>1, FS_Product
  <1>4. g \in Injection(Cells, P)
    <2>1. g \in [Cells -> P]
      BY DEF Cells
    <2>2. \A c, d \in Cells : g[c] = g[d] => c = d
      BY DEF Cells
    <2> QED
      BY <2>1, <2>2 DEF Injection, IsInjective
  <1> QED
    BY <1>3, <1>4, FS_Injection

\* A full chunk stays full.
LEMMA FullStays ==
  ASSUME NEW c \in Chunks, Full(c),
         \A d \in Chunks, b \in Blocks : empty'[<<d, b>>] => empty[<<d, b>>]
  PROVE  Full(c)'
  <1>1. NUMBER_OF_BLOCKS - 1 \in Blocks
    BY DEF Blocks, NUMBER_OF_BLOCKS
  <1> QED
    BY <1>1 DEF Full

\* What a step does to the counters of the other threads: nothing.
OthersStand(t) ==
  /\ OthersKept(t)
  /\ \A u \in Threads \ {t} : i'[u] = i[u] /\ j'[u] = j[u]

\* What any step may do to what the threads share.
Grows(G, H) ==
  /\ G \subseteq H
  /\ \A c \in Chunks, b \in Blocks : empty'[<<c, b>>] => empty[<<c, b>>]
  /\ Len(chunks) <= Len(chunks')
  /\ \A k \in 1 .. Len(chunks) : chunks'[k] = chunks[k]

\* The other threads have passed over what they had, and know what they did.
LEMMA OthersGrowth ==
  ASSUME HeapInv, HeapInv', NEW t \in Threads, OthersStand(t), NEW G, NEW H, Grows(G, H),
         NEW u \in Threads \ {t}, CellsPassed(u, G), ChunksPassed(u), SnapshotOld(u)
  PROVE  /\ CellsPassed(u, H)' /\ ChunksPassed(u)' /\ SnapshotOld(u)'
         /\ \A c : KnowsOf(u, c) => KnowsOf(u, c)'
  <1>1. /\ pc'[u] = pc[u] /\ heap_chunks'[u] = heap_chunks[u] /\ index'[u] = index[u]
        /\ current_chunk_index'[u] = current_chunk_index[u]
        /\ entry_index'[u] = entry_index[u] /\ fresh'[u] = fresh[u]
        /\ i'[u] = i[u] /\ j'[u] = j[u]
    BY DEF OthersStand, OthersKept
  <1>2. Chunk(u)' = Chunk(u) /\ Cell(u)' = Cell(u)
    BY <1>1 DEF Chunk, Cell
  <1>3. CellsPassed(u, H)'
    BY <1>1, <1>2 DEF CellsPassed, Grows
  <1>4. Len(chunks) \in Nat /\ Len(chunks') \in Nat /\ heap_chunks[u] \in Seq(Chunks)
    BY LenProperties DEF HeapInv, HeapType, CallType
  <1>5. ChunksPassed(u)'
    <2>1. ASSUME pc[u] = "next_chunk" PROVE Full(Chunk(u))'
      <3>1. Chunk(u) \in Chunks
        <4>1. /\ current_chunk_index[u] \in Nat
              /\ current_chunk_index[u] < Len(heap_chunks[u])
          BY <2>1 DEF HeapInv, SearchInv, InSearch, CallType
        <4> QED
          BY <1>4, <4>1, ElementOfSeq, LenProperties DEF Chunk
      <3>2. Full(Chunk(u))
        BY <2>1 DEF ChunksPassed
      <3> DEFINE c == Chunk(u)
      <3>3. c \in Chunks /\ Full(c) /\ Chunk(u)' = c
        BY <1>2, <3>1, <3>2
      <3> HIDE DEF c
      <3>4. \A d \in Chunks : Full(d) => Full(d)'
        BY FullStays DEF Grows
      <3> QED
        BY <3>3, <3>4 DEF Full
    <2>2. ASSUME pc[u] \in Scanning \cup {"next_chunk", "register"},
                 NEW p \in Before(current_chunk_index[u], i[u], Len(heap_chunks[u]))
          PROVE  Full(heap_chunks[u][p + 1])'
      <3>1. p \in 0 .. Len(heap_chunks[u]) - 1
        BY <2>2 DEF Before
      <3>2. heap_chunks[u][p + 1] \in Chunks
        BY <1>4, <3>1, ElementOfSeq, LenProperties
      <3>3. Full(heap_chunks[u][p + 1])
        BY <2>2 DEF ChunksPassed
      <3>4. \A d \in Chunks : Full(d) => Full(d)'
        BY FullStays DEF Grows
      <3> QED
        BY <1>1, <3>2, <3>3, <3>4 DEF Full
    <2> QED
      BY <1>1, <2>1, <2>2 DEF ChunksPassed
  <1>6. \A k \in 1 .. Len(chunks) : k \in 1 .. Len(chunks') /\ chunks'[k] = chunks[k]
    BY <1>4 DEF Grows
  <1>7. SnapshotOld(u)'
    BY <1>1, <1>6 DEF SnapshotOld
  <1>8. ASSUME NEW c, KnowsOf(u, c) PROVE KnowsOf(u, c)'
    BY <1>1, <1>6, <1>8 DEF KnowsOf
  <1> QED
    BY <1>3, <1>5, <1>7, <1>8

\* A step of thread t that creates no chunk keeps the invariant if it does for
\* what t itself has passed over and knows of.
LEMMA StepGrowth ==
  ASSUME HeapInv, HeapInv', NEW t \in Threads, OthersStand(t),
         NEW G, NEW H, Grows(G, H), NEW f \in [Chunks -> Threads], Growth(G, f),
         calls' \in Nat, created' = created,
         GivenOut(H)', CellsPassed(t, H)', ChunksPassed(t)', SnapshotOld(t)',
         \A c \in Chunks : KnowsOf(t, c) /\ ~Full(c) => KnowsOf(t, c)'
  PROVE  Growth(H, f)'
  <1>1. ASSUME NEW u \in Threads \ {t}
        PROVE  /\ CellsPassed(u, H)' /\ ChunksPassed(u)' /\ SnapshotOld(u)'
               /\ \A c : KnowsOf(u, c) => KnowsOf(u, c)'
    BY <1>1, OthersGrowth DEF Growth
  <1>2. \A u \in Threads : CellsPassed(u, H)' /\ ChunksPassed(u)' /\ SnapshotOld(u)'
    BY <1>1
  <1>3. \A c \in Chunks : Full(c) => Full(c)'
    BY FullStays DEF Grows
  <1>4. Filling' \subseteq Filling
    BY <1>3 DEF Filling
  <1>5. ASSUME NEW c \in Filling' PROVE KnowsOf(f[c], c)'
    <2>1. c \in Chunks /\ c \in Filling /\ ~Full(c) /\ f[c] \in Threads /\ KnowsOf(f[c], c)
      BY <1>4 DEF Filling, Growth
    <2>2. CASE f[c] = t
      BY <2>1, <2>2
    <2>3. CASE f[c] # t
      BY <1>1, <2>1, <2>3
    <2> QED
      BY <2>2, <2>3
  <1>6. \A c, d \in Filling' : f[c] = f[d] => c = d
    BY <1>4 DEF Growth
  <1> QED
    BY <1>2, <1>5, <1>6 DEF Growth

\* Calls served: a step that serves none.
LEMMA ServedSame ==
  ASSUME HeapInv, HeapInv', NEW t \in Threads, OthersKept(t), UNCHANGED calls,
         t \in Busy <=> t \in Busy'
  PROVE  Served' = Served
  <1>1. Busy' = Busy
    BY DEF Busy, OthersKept
  <1> QED
    BY <1>1 DEF Served, Busy

\* One that ends the search of t, one way or the other, serves one.
LEMMA ServedMore ==
  ASSUME HeapInv, HeapInv', NEW t \in Threads, OthersKept(t), UNCHANGED calls, calls \in Nat,
         t \in Busy, t \notin Busy'
  PROVE  Served \in Int /\ Served' = Served + 1
  <1>1. Busy' = Busy \ {t}
    BY DEF Busy, OthersKept
  <1>2. IsFiniteSet(Busy)
    <2>1. Busy \in SUBSET Threads
      BY DEF Busy
    <2> QED
      BY <2>1, ThreadsAssumption, FS_Subset
  <1>3. Cardinality(Busy) \in Nat /\ Cardinality(Busy') = Cardinality(Busy) - 1
    BY <1>1, <1>2, FS_RemoveElement, FS_CardinalityType
  <1> QED
    BY <1>3 DEF Served, Busy

\* What was given out stays given out.
LEMMA GivenSame ==
  ASSUME HeapInv, HeapInv', NEW G, GivenOut(G), UNCHANGED <<state, empty>>, Served' = Served
  PROVE  GivenOut(G)'
  BY DEF GivenOut, Cells, Chunks

\* A call is made, or turned down at once.
LEMMA CallMallocGrowth ==
  ASSUME HeapInv, HeapInv', NEW G \in SUBSET Cells, NEW f \in [Chunks -> Threads], Growth(G, f),
         NEW t \in Threads, NEW n, CallMalloc(t, n)
  PROVE  Growth(G, f)'
  <1> USE DEF CallMalloc, chunkVars, listVars, scanVars
  <1>1. /\ pc[t] = "idle" /\ calls \in Nat /\ calls' = calls + 1 /\ calls' \in Nat
        /\ UNCHANGED <<state, empty, chunks, created, heap_chunks, fresh, i, j, index, entry_index,
                       start_index, block_size>>
    BY DEF Growth
  <1>2. /\ pc'[t] \in {"idle", "snapshot"}
        /\ OthersKept(t)
    <2>1. \/ /\ byte_size' = [byte_size EXCEPT ![t] = ByteSize(n)]
             /\ current_chunk_index' = [current_chunk_index EXCEPT ![t] = start_index[t]]
             /\ pc' = [pc EXCEPT ![t] = "snapshot"]
          \/ UNCHANGED <<byte_size, current_chunk_index, pc>>
      BY DEF Set, Goto
    <2> HIDE DEF CallMalloc
    <2>2. /\ pc \in [Threads -> Labels] /\ byte_size \in [Threads -> Nat]
          /\ current_chunk_index \in [Threads -> Nat]
      BY DEF HeapInv, CallType
    <2>3. /\ pc'[t] \in {"idle", "snapshot"}
          /\ \A u \in Threads \ {t} : /\ pc'[u] = pc[u] /\ byte_size'[u] = byte_size[u]
                                      /\ current_chunk_index'[u] = current_chunk_index[u]
      BY <1>1, <2>1, <2>2
    <2> QED
      BY <1>1, <2>3 DEF OthersKept
  <1>3. OthersStand(t)
    BY <1>1, <1>2 DEF OthersStand
  <1>4. Served \in Int /\ Served' \in Int /\ Served <= Served'
    <2>1. Busy \in SUBSET Threads /\ Busy' \in SUBSET (Busy \cup {t})
      BY <1>2 DEF Busy, OthersKept
    <2>2. IsFiniteSet(Busy)
      BY <2>1, ThreadsAssumption, FS_Subset
    <2> HIDE DEF CallMalloc
    <2>3. /\ IsFiniteSet(Busy \cup {t}) /\ Cardinality(Busy \cup {t}) <= Cardinality(Busy) + 1
          /\ Cardinality(Busy) \in Nat
      <3>1. Cardinality(Busy) \in Nat
        BY <2>2, FS_CardinalityType
      <3>2. /\ IsFiniteSet(Busy \cup {t})
            /\ Cardinality(Busy \cup {t}) = IF t \in Busy THEN Cardinality(Busy) ELSE Cardinality(Busy) + 1
        BY <2>2, FS_AddElement
      <3> QED
        BY <3>1, <3>2
    <2>4. /\ Cardinality(Busy') <= Cardinality(Busy \cup {t}) /\ Cardinality(Busy') \in Nat
          /\ Cardinality(Busy \cup {t}) \in Nat
      BY <2>1, <2>3, FS_Subset, FS_CardinalityType
    <2>5. Served = calls - Cardinality(Busy) /\ Served' = calls' - Cardinality(Busy')
      BY DEF Served, Busy
    <2> QED
      BY <1>1, <2>3, <2>4, <2>5
  <1>5. GivenOut(G)'
    <2>1. Cardinality(G) \in Nat
      BY CellsFinite, FS_Subset, FS_CardinalityType
    <2>2. Cardinality(G) <= Served'
      BY <1>4, <2>1 DEF Growth, GivenOut
    <2> QED
      BY <1>1, <2>2 DEF Growth, GivenOut, Cells, Chunks
  <1>6. CellsPassed(t, G)' /\ ChunksPassed(t)' /\ SnapshotOld(t)'
    BY <1>2 DEF CellsPassed, ChunksPassed, SnapshotOld, Scanning
  <1>7. \A c \in Chunks : KnowsOf(t, c) => KnowsOf(t, c)'
    BY <1>1, <1>2 DEF KnowsOf
  <1>8. Grows(G, G)
    <2>1. Len(chunks) \in Nat
      BY LenProperties DEF HeapInv, HeapType
    <2> QED
      BY <1>1, <2>1 DEF Grows
  <1> QED
    BY <1>1, <1>3, <1>5, <1>6, <1>7, <1>8, StepGrowth

\* Where a search starts it has passed over nothing.
LEMMA SnapshotGrowth ==
  ASSUME HeapInv, HeapInv', NEW G \in SUBSET Cells, NEW f \in [Chunks -> Threads], Growth(G, f),
         NEW t \in Threads, Snapshot(t)
  PROVE  Growth(G, f)'
  <1> USE DEF Snapshot, EnterChunk, chunkVars, listVars
  <1>1. /\ pc[t] = "snapshot" /\ calls \in Nat
        /\ UNCHANGED <<state, empty, chunks, created, calls, fresh, j, entry_index,
                       start_index, byte_size, current_chunk_index>>
    BY DEF Growth
  <1>2. /\ pc'[t] = "block" /\ heap_chunks'[t] = chunks /\ i'[t] = 0
        /\ OthersStand(t)
    BY DEF HeapInv, CallType, OthersKept, OthersStand, Set, Goto
  <1>3. OthersKept(t) /\ Served' = Served
    BY <1>1, <1>2, ServedSame DEF OthersStand, Busy
  <1>4. GivenOut(G)'
    BY <1>1, <1>3, GivenSame DEF Growth
  <1>5. /\ Len(chunks) \in Nat /\ current_chunk_index[t] \in 0 .. Len(chunks) - 1
        /\ 0 < Len(chunks)
    <2> HIDE DEF Snapshot
    <2>1. Len(chunks) \in Nat /\ current_chunk_index[t] \in Nat
      BY LenProperties DEF HeapInv, HeapType, CallType
    <2>2. current_chunk_index[t] < Len(chunks)
      BY <1>1 DEF HeapInv, SearchInv, InSearch
    <2> QED
      BY <2>1, <2>2
  <1>6. Before(current_chunk_index[t], 0, Len(chunks)) = {}
    BY <1>5, BeforeNone
  <1>7. CellsPassed(t, G)' /\ ChunksPassed(t)' /\ SnapshotOld(t)'
    BY <1>1, <1>2, <1>5, <1>6 DEF CellsPassed, ChunksPassed, SnapshotOld
  <1>8. \A c \in Chunks : KnowsOf(t, c) => KnowsOf(t, c)'
    BY <1>1, <1>2 DEF KnowsOf
  <1>9. Grows(G, G)
    BY <1>1, <1>5 DEF Grows
  <1> HIDE DEF Snapshot
  <1> QED
    BY <1>1, <1>2, <1>4, <1>7, <1>8, <1>9, StepGrowth

\* On to the next chunk: this one is full.
LEMMA NextChunkGrowth ==
  ASSUME HeapInv, HeapInv', NEW G \in SUBSET Cells, NEW f \in [Chunks -> Threads], Growth(G, f),
         NEW t \in Threads, NextChunk(t)
  PROVE  Growth(G, f)'
  <1> DEFINE n == current_chunk_index[t]
             cs == Len(heap_chunks[t])
             m == IF n + 1 = cs THEN 0 ELSE n + 1
  <1>1. /\ pc[t] = "next_chunk" /\ calls \in Nat
        /\ UNCHANGED <<state, empty, chunks, created, calls, fresh, j, entry_index,
                       start_index, byte_size, heap_chunks>>
    BY DEF Growth, NextChunk, chunkVars, listVars
  <1>2. /\ pc'[t] = IF i[t] + 1 = cs THEN "register" ELSE "block"
        /\ current_chunk_index'[t] = m /\ i'[t] = i[t] + 1
        /\ OthersStand(t)
    BY DEF HeapInv, CallType, OthersKept, OthersStand, Set, Goto, NextChunk, EnterChunk,
           chunkVars, listVars
  <1>3. OthersKept(t) /\ Served' = Served
    BY <1>1, <1>2, ServedSame DEF OthersStand, Busy
  <1>4. GivenOut(G)'
    BY <1>1, <1>3, GivenSame DEF Growth
  <1>5. /\ heap_chunks[t] \in Seq(Chunks) /\ cs \in Nat /\ n \in Nat /\ n < cs
        /\ i[t] \in Nat /\ i[t] < cs
    BY <1>1, LenProperties DEF HeapInv, CallType, SearchInv, InSearch, Growth, ChunksPassed
  <1>6. /\ Full(heap_chunks[t][n + 1])
        /\ \A p \in Before(n, i[t], cs) : Full(heap_chunks[t][p + 1])
    BY <1>1 DEF Growth, ChunksPassed, Chunk
  <1>7. \A p \in Before(m, i[t] + 1, cs) : p = n \/ p \in Before(n, i[t], cs)
    <2>1. cs \in Nat \ {0} /\ n \in 0 .. cs - 1 /\ i[t] \in 0 .. cs - 1 /\ m \in Nat
      BY <1>5
    <2> HIDE DEF n, cs
    <2> QED
      BY <2>1, BeforeStep
  <1>8. \A p \in Before(m, i[t] + 1, cs) : Full(heap_chunks[t][p + 1])
    BY <1>6, <1>7
  <1>9. \A c : Full(c)' <=> Full(c)
    BY <1>1 DEF Full
  <1>10. Len(heap_chunks'[t]) = cs /\ heap_chunks'[t] = heap_chunks[t]
    BY <1>1
  <1>11. ChunksPassed(t)'
    <2>1. \A p \in Before(m, i[t] + 1, cs) : Full(heap_chunks[t][p + 1])'
      BY <1>1, <1>8 DEF Full
    <2>2. i'[t] <= cs /\ (i'[t] = cs <=> pc'[t] = "register")
      BY <1>2, <1>5
    <2>3. pc'[t] \in {"register", "block"} /\ i'[t] = i[t] + 1 /\ i'[t] \in Nat
      BY <1>2, <1>5
    <2>4. \A p \in Before(current_chunk_index[t], i[t], Len(heap_chunks[t]))' :
            Full(heap_chunks[t][p + 1])'
      <3> HIDE DEF m, n, cs
      <3> QED
        BY <1>2, <1>10, <2>1
    <2> HIDE DEF m, n, cs
    <2> QED
      BY <1>5, <1>10, <2>2, <2>3, <2>4 DEF ChunksPassed, Scanning
  <1>12. CellsPassed(t, G)'
    BY <1>2 DEF CellsPassed
  <1>13. SnapshotOld(t)'
    BY <1>1 DEF Growth, SnapshotOld
  <1>14. \A c \in Chunks : KnowsOf(t, c) => KnowsOf(t, c)'
    BY <1>1, <1>2 DEF KnowsOf
  <1>15. Grows(G, G)
    <2>1. Len(chunks) \in Nat
      BY LenProperties DEF HeapInv, HeapType
    <2> QED
      BY <1>1, <2>1 DEF Grows
  <1> QED
    BY <1>1, <1>2, <1>4, <1>11, <1>12, <1>13, <1>14, <1>15, StepGrowth

\* A thread about to create a chunk has found all of its chunks full, so none
\* of those still being filled is one it answers for.
LEMMA RegisterFindsFull ==
  ASSUME HeapInv, NEW t \in Threads, pc[t] = "register", ChunksPassed(t), NEW c, KnowsOf(t, c)
  PROVE  Full(c)
  <1> DEFINE n == current_chunk_index[t]
             cs == Len(heap_chunks[t])
  <1>1. cs \in Nat /\ n \in 0 .. cs - 1
    <2>1. cs \in Nat /\ n \in Nat
      BY LenProperties DEF HeapInv, CallType
    <2>2. n < cs
      BY DEF HeapInv, SearchInv, InSearch
    <2> HIDE DEF n, cs
    <2> QED
      BY <2>1, <2>2
  <1>2. Before(n, cs, cs) = 0 .. cs - 1
    <2> HIDE DEF n, cs
    <2> QED
      BY <1>1, BeforeAll
  <1>3. \A p \in 0 .. cs - 1 : Full(heap_chunks[t][p + 1])
    BY <1>2 DEF ChunksPassed
  <1>4. PICK k \in 1 .. cs : heap_chunks[t][k] = c
    BY DEF KnowsOf
  <1>5. k - 1 \in 0 .. cs - 1 /\ (k - 1) + 1 = k
    BY <1>1
  <1>6. Full(heap_chunks[t][k])
    <2> HIDE DEF cs
    <2> QED
      BY <1>3, <1>5
  <1> QED
    BY <1>4, <1>6

\* A new chunk is assigned to the thread that created it.
LEMMA RegisterChunkGrowth ==
  ASSUME HeapInv, HeapInv', NEW G \in SUBSET Cells, NEW f \in [Chunks -> Threads], Growth(G, f),
         NEW t \in Threads, RegisterChunk(t)
  PROVE  GrowthInv'
  <1>1. /\ pc[t] = "register" /\ calls \in Nat /\ created' = created + 1
        /\ UNCHANGED <<state, empty, chunks, calls, byte_size, heap_chunks,
                       current_chunk_index, i, index, block_size, entry_index, j, start_index>>
    BY DEF Growth, RegisterChunk, chunkVars, callVars, scanVars
  <1>2. /\ pc'[t] = "append" /\ fresh'[t] = created + 1
        /\ OthersStand(t)
    <2>1. created + 1 \in 0 .. MaxChunks
      BY ChunksAssumption DEF RegisterChunk, HeapInv, HeapType, Chunks
    <2> QED
      BY <1>1, <2>1 DEF HeapInv, CallType, OthersKept, OthersStand, Set, Goto, RegisterChunk
  <1>3. OthersKept(t) /\ Served' = Served
    BY <1>1, <1>2, ServedSame DEF OthersStand, Busy
  <1>4. GivenOut(G)'
    BY <1>1, <1>3, GivenSame DEF Growth
  <1>5. Grows(G, G)
    <2>1. Len(chunks) \in Nat
      BY LenProperties DEF HeapInv, HeapType
    <2> QED
      BY <1>1, <2>1 DEF Grows
  <1>6. CellsPassed(t, G)' /\ ChunksPassed(t)'
    BY <1>2 DEF CellsPassed, ChunksPassed, Scanning
  <1>7. SnapshotOld(t)'
    BY <1>1 DEF Growth, SnapshotOld
  <1>8. ASSUME NEW u \in Threads \ {t}
        PROVE  /\ CellsPassed(u, G)' /\ ChunksPassed(u)' /\ SnapshotOld(u)'
               /\ \A c : KnowsOf(u, c) => KnowsOf(u, c)'
    BY <1>2, <1>5, <1>8, OthersGrowth DEF Growth
  <1>9. \A c : Full(c)' <=> Full(c)
    BY <1>1 DEF Full
  <1>10. PICK d \in Chunks : d = created + 1
    <2>1. created' \in Chunks
      BY DEF HeapInv, HeapType
    <2> QED
      BY <1>1, <2>1
  <1>11. d \notin Filling /\ \A c \in Filling' : c = d \/ c \in Filling
    <2>1. created \in Nat
      BY DEF HeapInv, HeapType, Chunks
    <2>2. \A c \in Chunks : c <= created + 1 => c = created + 1 \/ c <= created
      BY <2>1 DEF Chunks
    <2> QED
      BY <1>1, <1>9, <1>10, <2>1, <2>2 DEF Filling
  <1>12. \A c \in Filling : f[c] # t /\ f[c] \in Threads /\ KnowsOf(f[c], c)
    <2>1. \A c \in Filling : f[c] \in Threads /\ KnowsOf(f[c], c) /\ ~Full(c)
      BY DEF Filling, Growth
    <2>2. ChunksPassed(t)
      BY DEF Growth
    <2> QED
      BY <1>1, <2>1, <2>2, RegisterFindsFull
  <1>13. PICK g \in [Chunks -> Threads] : g = [f EXCEPT ![d] = t]
    OBVIOUS
  <1>14. g[d] = t /\ \A c \in Filling : g[c] = f[c]
    BY <1>11, <1>13 DEF Filling
  <1>15. \A c \in Filling' : KnowsOf(g[c], c)'
    <2>1. KnowsOf(t, d)'
      BY <1>2, <1>10 DEF KnowsOf
    <2>2. ASSUME NEW c \in Filling PROVE KnowsOf(g[c], c)'
      <3>1. PICK u \in Threads \ {t} : u = f[c]
        BY <1>12
      <3>2. KnowsOf(u, c)'
        BY <1>8, <1>12, <3>1
      <3> QED
        BY <1>14, <3>1, <3>2
    <2>3. ASSUME NEW c \in Filling' PROVE KnowsOf(g[c], c)'
      <3>1. CASE c = d
        BY <1>14, <2>1, <3>1
      <3>2. CASE c # d
        BY <1>11, <2>2, <3>2
      <3> QED
        BY <3>1, <3>2
    <2> QED
      BY <2>3
  <1>16. \A c, e \in Filling' : g[c] = g[e] => c = e
    <2>1. \A c, e \in Filling : f[c] = f[e] => c = e
      BY DEF Growth
    <2> QED
      BY <1>11, <1>12, <1>14, <2>1
  <1>17. \A u \in Threads : CellsPassed(u, G)' /\ ChunksPassed(u)' /\ SnapshotOld(u)'
    BY <1>6, <1>7, <1>8
  <1>18. Growth(G, g)'
    BY <1>1, <1>4, <1>15, <1>16, <1>17 DEF Growth
  <1> QED
    BY <1>18 DEF GrowthInv

\* It is searched next.
LEMMA AppendChunkGrowth ==
  ASSUME HeapInv, HeapInv', NEW G \in SUBSET Cells, NEW f \in [Chunks -> Threads], Growth(G, f),
         NEW t \in Threads, AppendChunk(t)
  PROVE  Growth(G, f)'
  <1>1. /\ pc[t] = "append" /\ calls \in Nat /\ chunks' = Append(chunks, fresh[t])
        /\ UNCHANGED <<state, empty, created, calls, byte_size, heap_chunks, fresh,
                       current_chunk_index, i, index, block_size, entry_index, j, start_index>>
    BY DEF Growth, AppendChunk, Appended, chunkVars, callVars, scanVars
  <1>2. pc'[t] = "snapshot" /\ OthersStand(t)
    BY <1>1 DEF HeapInv, CallType, OthersKept, OthersStand, Goto, AppendChunk
  <1>3. OthersKept(t) /\ Served' = Served
    BY <1>1, <1>2, ServedSame DEF OthersStand, Busy
  <1>4. GivenOut(G)'
    BY <1>1, <1>3, GivenSame DEF Growth
  <1>5. /\ Len(chunks) \in Nat /\ Len(chunks') = Len(chunks) + 1
        /\ chunks'[Len(chunks) + 1] = fresh[t]
        /\ \A k \in 1 .. Len(chunks) : chunks'[k] = chunks[k]
    <2>1. chunks \in Seq(Chunks) /\ fresh[t] \in Chunks
      BY <1>1 DEF HeapInv, HeapType, SearchInv, InSearch
    <2> QED
      BY <1>1, <2>1, AppendProperties, LenProperties
  <1>6. Grows(G, G)
    BY <1>1, <1>5 DEF Grows
  <1>7. CellsPassed(t, G)' /\ ChunksPassed(t)' /\ SnapshotOld(t)'
    BY <1>2 DEF CellsPassed, ChunksPassed, SnapshotOld, Scanning
  <1>8. \A c \in Chunks : KnowsOf(t, c) => KnowsOf(t, c)'
    <2>1. Len(chunks) + 1 \in 1 .. Len(chunks')
      BY <1>5
    <2> QED
      BY <1>1, <1>2, <1>5, <2>1 DEF KnowsOf
  <1> QED
    BY <1>1, <1>2, <1>4, <1>6, <1>7, <1>8, StepGrowth

\* Past a block that was given up; the chunk is full when it is the last one.
LEMMA NextBlockGrowth ==
  ASSUME HeapInv, HeapInv', NEW G, NEW f, Growth(G, f), NEW t \in Threads,
         pc[t] \in {"block", "retire"}, NextBlock(t), ~empty'[Block(t)],
         UNCHANGED <<heap_chunks, i, current_chunk_index>>,
         \A c \in Chunks : Full(c) => Full(c)'
  PROVE  /\ pc'[t] \in {"block", "next_chunk"}
         /\ CellsPassed(t, G)' /\ ChunksPassed(t)'
  <1>1. /\ index[t] \in Blocks /\ block_size[t] = BLOCK_SIZE(index[t])
        /\ pc[t] \in Scanning
    BY DEF HeapInv, LadderInv, OnLadder, Scanning
  <1>2. block_size[t] <= 512 /\ BLOCK_SIZE(12) = 512 /\ block_size[t] \in Nat
    BY <1>1, BlocksListed, BlockSizeValues
  <1>3. pc'[t] = IF index[t] + 1 = NUMBER_OF_BLOCKS THEN "next_chunk" ELSE "block"
    BY <1>2 DEF NextBlock, Goto, HeapInv, CallType
  <1>4. CellsPassed(t, G)'
    BY <1>3 DEF CellsPassed
  <1>5. /\ i[t] < Len(heap_chunks[t])
        /\ \A p \in Before(current_chunk_index[t], i[t], Len(heap_chunks[t])) :
             Full(heap_chunks[t][p + 1])
    BY <1>1 DEF Growth, ChunksPassed
  <1>6. \A p \in Before(current_chunk_index[t], i[t], Len(heap_chunks[t])) :
          heap_chunks[t][p + 1] \in Chunks
    <2>1. heap_chunks[t] \in Seq(Chunks) /\ Len(heap_chunks[t]) \in Nat
      BY LenProperties DEF HeapInv, CallType
    <2> QED
      BY <2>1, ElementOfSeq DEF Before
  <1>7. \A p \in Before(current_chunk_index[t], i[t], Len(heap_chunks[t])) :
          Full(heap_chunks[t][p + 1])'
    BY <1>5, <1>6 DEF Full
  <1>8. pc'[t] = "next_chunk" => Full(Chunk(t))'
    <2>1. ASSUME pc'[t] = "next_chunk" PROVE index[t] = NUMBER_OF_BLOCKS - 1
      BY <1>1, <1>3, <2>1, BlocksListed DEF NUMBER_OF_BLOCKS
    <2>2. Chunk(t)' = Chunk(t)
      BY DEF Chunk
    <2> QED
      BY <2>1, <2>2 DEF Full, Block
  <1> QED
    BY <1>3, <1>4, <1>5, <1>7, <1>8 DEF ChunksPassed, Scanning

\* A block that is looked through is looked through from nothing; one that was
\* given up is passed over.
LEMMA EnterBlockGrowth ==
  ASSUME HeapInv, HeapInv', NEW G \in SUBSET Cells, NEW f \in [Chunks -> Threads], Growth(G, f),
         NEW t \in Threads, EnterBlock(t)
  PROVE  Growth(G, f)'
  <1>1. /\ pc[t] = "block" /\ calls \in Nat
        /\ UNCHANGED <<state, empty, chunks, created, calls, byte_size, heap_chunks, fresh,
                       current_chunk_index, i, start_index>>
    BY DEF Growth, EnterBlock, chunkVars, listVars, callVars
  <1>2. pc'[t] \in {"probe", "next_chunk", "block"} /\ OthersStand(t)
    <2>1. \/ /\ pc' = [pc EXCEPT ![t] = "probe"] /\ j' = [j EXCEPT ![t] = 0]
             /\ entry_index' = [entry_index EXCEPT ![t] = current_location[Block(t)]]
             /\ UNCHANGED <<index, block_size>>
          \/ /\ index' = [index EXCEPT ![t] = index[t] + 1]
             /\ block_size' = [block_size EXCEPT ![t] = NextBlockSize(block_size[t])]
             /\ \/ pc' = [pc EXCEPT ![t] = "next_chunk"]
                \/ pc' = [pc EXCEPT ![t] = "block"]
             /\ UNCHANGED <<entry_index, j>>
      BY DEF EnterBlock, NextBlock, Goto, Set
    <2>2. /\ pc \in [Threads -> Labels] /\ index \in [Threads -> Nat]
          /\ block_size \in [Threads -> Nat] /\ entry_index \in [Threads -> Entries]
          /\ j \in [Threads -> Nat]
      BY DEF HeapInv, CallType
    <2>3. /\ pc'[t] \in {"probe", "next_chunk", "block"}
          /\ \A u \in Threads \ {t} :
               /\ pc'[u] = pc[u] /\ index'[u] = index[u] /\ block_size'[u] = block_size[u]
               /\ entry_index'[u] = entry_index[u] /\ j'[u] = j[u]
      BY <2>1, <2>2
    <2> QED
      BY <1>1, <2>3 DEF OthersKept, OthersStand
  <1>3. OthersKept(t) /\ Served' = Served
    BY <1>1, <1>2, ServedSame DEF OthersStand, Busy
  <1>4. GivenOut(G)'
    BY <1>1, <1>3, GivenSame DEF Growth
  <1>5. Grows(G, G)
    <2>1. Len(chunks) \in Nat
      BY LenProperties DEF HeapInv, HeapType
    <2> QED
      BY <1>1, <2>1 DEF Grows
  <1>6. CellsPassed(t, G)' /\ ChunksPassed(t)'
    <2>1. CASE empty[Block(t)]
      <3>1. pc'[t] = "probe" /\ j'[t] = 0 /\ entry_index'[t] \in Entries
        BY <2>1 DEF EnterBlock, Goto, Set, HeapInv, CallType
      <3>2. cells_size \in Nat /\ entry_index'[t] \in 0 .. cells_size - 1 /\ 0 < cells_size
        BY <3>1, CellsAssumption DEF Entries
      <3>3. Before(entry_index'[t], 0, cells_size) = {}
        BY <3>2, BeforeNone
      <3>4. CellsPassed(t, G)'
        BY <3>1, <3>2, <3>3 DEF CellsPassed
      <3>5. ChunksPassed(t)'
        <4>1. ChunksPassed(t)
          BY DEF Growth
        <4> QED
          BY <1>1, <3>1, <4>1 DEF ChunksPassed, Scanning, Full
      <3> QED
        BY <3>4, <3>5
    <2>2. CASE ~empty[Block(t)]
      <3>1. NextBlock(t)
        BY <2>2 DEF EnterBlock
      <3>2. ~empty'[Block(t)] /\ \A c \in Chunks : Full(c) => Full(c)'
        BY <1>1, <2>2 DEF Full
      <3> QED
        BY <1>1, <3>1, <3>2, NextBlockGrowth
    <2> QED
      BY <2>1, <2>2
  <1>7. SnapshotOld(t)'
    BY <1>1 DEF Growth, SnapshotOld
  <1>8. \A c \in Chunks : KnowsOf(t, c) => KnowsOf(t, c)'
    BY <1>1, <1>2 DEF KnowsOf
  <1> QED
    BY <1>1, <1>2, <1>4, <1>5, <1>6, <1>7, <1>8, StepGrowth

\* A cell that is taken has been handed out.
LEMMA SkipCellGrowth ==
  ASSUME HeapInv, NEW G, NEW f, Growth(G, f), NEW t \in Threads,
         pc[t] \in {"probe", "claim"}, SkipCell(t), state[Cell(t)] # "dead",
         UNCHANGED <<heap_chunks, i, current_chunk_index, index, empty>>
  PROVE  /\ pc'[t] \in {"probe", "retire"}
         /\ \A u \in Threads \ {t} : /\ pc'[u] = pc[u] /\ entry_index'[u] = entry_index[u]
                                     /\ j'[u] = j[u]
         /\ CellsPassed(t, G)' /\ ChunksPassed(t)'
  <1> DEFINE e == entry_index[t]
             k == j[t]
             m == NextEntry(e)
  <1>1. /\ pc \in [Threads -> Labels] /\ entry_index \in [Threads -> Entries]
        /\ j \in [Threads -> Nat] /\ pc[t] \in Scanning
    BY DEF HeapInv, CallType, Scanning
  <1>2. Cell(t) \in G
    BY <1>1, CellType DEF Growth, GivenOut
  <1>3. /\ cells_size \in Nat \ {0} /\ e \in 0 .. cells_size - 1 /\ k \in 0 .. cells_size - 1
        /\ m = IF e + 1 = cells_size THEN 0 ELSE e + 1
        /\ m \in Nat
        /\ \A p \in Before(e, k, cells_size) : <<Chunk(t), index[t], p>> \in G
    <2>1. /\ cells_size \in Nat \ {0} /\ e \in 0 .. cells_size - 1
          /\ k \in Nat /\ k < cells_size
      BY <1>1, CellsAssumption DEF Growth, CellsPassed, Entries
    <2>2. \A p \in Before(e, k, cells_size) : <<Chunk(t), index[t], p>> \in G
      BY DEF Growth, CellsPassed
    <2>3. m = IF e + 1 = cells_size THEN 0 ELSE e + 1
      BY DEF NextEntry
    <2> HIDE DEF e, k, m
    <2> QED
      BY <2>1, <2>2, <2>3
  <1>4. \A p \in Before(m, k + 1, cells_size) : p = e \/ p \in Before(e, k, cells_size)
    <2> HIDE DEF e, k, m
    <2> QED
      BY <1>3, BeforeStep
  <1>5. \A p \in Before(m, k + 1, cells_size) : <<Chunk(t), index[t], p>> \in G
    BY <1>2, <1>3, <1>4 DEF Cell
  <1>6. /\ pc'[t] = IF k + 1 = cells_size THEN "retire" ELSE "probe"
        /\ entry_index'[t] = m /\ j'[t] = k + 1
        /\ \A u \in Threads \ {t} : /\ pc'[u] = pc[u] /\ entry_index'[u] = entry_index[u]
                                    /\ j'[u] = j[u]
    BY <1>1 DEF SkipCell, Goto, Set
  <1>7. Chunk(t)' = Chunk(t) /\ index'[t] = index[t]
    BY DEF Chunk
  <1>8. CellsPassed(t, G)'
    <2> HIDE DEF e, k, m
    <2>1. k + 1 <= cells_size /\ k + 1 \in Nat
      BY <1>3
    <2>2. pc'[t] = "probe" => j'[t] < cells_size
      BY <1>3, <1>6, <2>1
    <2>3. pc'[t] = "retire" => j'[t] = cells_size
      BY <1>6
    <2>4. \A p \in Before(entry_index[t], j[t], cells_size)' : <<Chunk(t), index[t], p>>' \in G
      BY <1>5, <1>6, <1>7
    <2>5. pc'[t] \in {"probe", "retire"}
      BY <1>6
    <2> QED
      BY <2>2, <2>3, <2>4, <2>5 DEF CellsPassed
  <1>9. ChunksPassed(t)'
    <2>1. ChunksPassed(t) /\ pc[t] \in Scanning /\ pc'[t] \in Scanning /\ pc'[t] # "next_chunk"
          /\ pc'[t] # "register"
      BY <1>1, <1>6 DEF Growth, Scanning
    <2> QED
      BY <2>1 DEF ChunksPassed, Full
  <1> QED
    BY <1>6, <1>8, <1>9

\* A look at a cell.
LEMMA ProbeCellGrowth ==
  ASSUME HeapInv, HeapInv', NEW G \in SUBSET Cells, NEW f \in [Chunks -> Threads], Growth(G, f),
         NEW t \in Threads, ProbeCell(t)
  PROVE  Growth(G, f)'
  <1>1. /\ pc[t] = "probe" /\ calls \in Nat
        /\ UNCHANGED <<state, empty, chunks, created, calls, byte_size, heap_chunks, fresh,
                       current_chunk_index, i, start_index, index, block_size>>
    BY DEF Growth, ProbeCell, chunkVars, listVars, callVars
  <1>2. /\ pc'[t] \in {"probe", "claim", "retire"}
        /\ \A u \in Threads \ {t} : /\ pc'[u] = pc[u] /\ entry_index'[u] = entry_index[u]
                                    /\ j'[u] = j[u]
        /\ CellsPassed(t, G)' /\ ChunksPassed(t)'
    <2>1. CASE state[Cell(t)] = "dead"
      <3>1. /\ pc'[t] = "claim" /\ UNCHANGED <<entry_index, j>>
            /\ \A u \in Threads \ {t} : pc'[u] = pc[u]
        BY <2>1 DEF ProbeCell, Goto, HeapInv, CallType
      <3>2. CellsPassed(t, G) /\ ChunksPassed(t) /\ Chunk(t)' = Chunk(t)
        BY <1>1 DEF Growth, Chunk
      <3>3. CellsPassed(t, G)'
        BY <1>1, <3>1, <3>2 DEF CellsPassed
      <3>4. ChunksPassed(t)'
        BY <1>1, <3>1, <3>2 DEF ChunksPassed, Scanning, Full
      <3> QED
        BY <3>1, <3>3, <3>4
    <2>2. CASE state[Cell(t)] # "dead"
      <3>1. SkipCell(t)
        BY <2>2 DEF ProbeCell
      <3> QED
        BY <1>1, <2>2, <3>1, SkipCellGrowth
    <2> QED
      BY <2>1, <2>2
  <1>3. OthersStand(t) /\ OthersKept(t)
    BY <1>1, <1>2 DEF OthersStand, OthersKept
  <1>4. Served' = Served
    BY <1>1, <1>2, <1>3, ServedSame DEF Busy
  <1>5. GivenOut(G)'
    BY <1>1, <1>4, GivenSame DEF Growth
  <1>6. Grows(G, G)
    <2>1. Len(chunks) \in Nat
      BY LenProperties DEF HeapInv, HeapType
    <2> QED
      BY <1>1, <2>1 DEF Grows
  <1>7. SnapshotOld(t)'
    BY <1>1 DEF Growth, SnapshotOld
  <1>8. \A c \in Chunks : KnowsOf(t, c) => KnowsOf(t, c)'
    BY <1>1, <1>2 DEF KnowsOf
  <1> QED
    BY <1>1, <1>2, <1>3, <1>5, <1>6, <1>7, <1>8, StepGrowth

\* One call gets one cell.
LEMMA ClaimCellGrowth ==
  ASSUME HeapInv, HeapInv', NEW G \in SUBSET Cells, NEW f \in [Chunks -> Threads], Growth(G, f),
         NEW t \in Threads, ClaimCell(t)
  PROVE  GrowthInv'
  <1>1. /\ pc[t] = "claim" /\ calls \in Nat
        /\ UNCHANGED <<empty, chunks, created, calls, byte_size, heap_chunks, fresh,
                       current_chunk_index, i, start_index, index, block_size>>
    BY DEF Growth, ClaimCell, listVars, callVars
  <1>2. Len(chunks) \in Nat
    BY LenProperties DEF HeapInv, HeapType
  <1>3. SnapshotOld(t)'
    BY <1>1 DEF Growth, SnapshotOld
  <1>4. CASE state[Cell(t)] = "dead"
    <2>1. /\ pc'[t] = "install" /\ UNCHANGED <<entry_index, j>>
          /\ \A u \in Threads \ {t} : pc'[u] = pc[u]
      BY <1>4 DEF ClaimCell, Goto, HeapInv, CallType
    <2>2. Cell(t) \in Cells
      BY <1>1, CellType DEF Scanning
    <2>3. PICK x \in Cells : x = Cell(t)
      BY <2>2
    <2>4. PICK H \in SUBSET Cells : H = G \cup {x}
      OBVIOUS
    <2>5. OthersStand(t) /\ OthersKept(t)
      BY <1>1, <2>1 DEF OthersStand, OthersKept
    <2>6. Grows(G, H)
      BY <1>1, <1>2, <2>4 DEF Grows
    <2>7. Served \in Int /\ Served' = Served + 1
      BY <1>1, <2>1, <2>5, ServedMore DEF Busy
    <2>8. Cardinality(H) <= Served'
      <3>1. IsFiniteSet(G)
        BY CellsFinite, FS_Subset
      <3>2. /\ Cardinality(G) \in Nat
            /\ Cardinality(H) = IF x \in G THEN Cardinality(G) ELSE Cardinality(G) + 1
        BY <2>4, <3>1, FS_AddElement, FS_CardinalityType
      <3>3. Cardinality(G) <= Served
        BY DEF Growth, GivenOut
      <3> QED
        BY <2>7, <3>2, <3>3
    <2>9. \A c \in Cells : state'[c] # "dead" => c \in H
      <3>1. \A c \in Cells : c # x => state'[c] = state[c]
        BY <1>4, <2>3 DEF ClaimCell, Set, HeapInv, HeapType
      <3> QED
        BY <2>4, <3>1 DEF Growth, GivenOut
    <2>10. GivenOut(H)'
      <3>1. \A c \in Chunks, b \in Blocks, e \in Entries :
              ~empty'[<<c, b>>] => <<c, b, e>> \in H
        BY <1>1, <2>4 DEF Growth, GivenOut
      <3>2. Cells' = Cells
        BY DEF Cells, Chunks
      <3> QED
        BY <2>8, <2>9, <3>1 DEF GivenOut, Cells, Chunks
    <2>11. CellsPassed(t, H)'
      <3>1. Cell(t)' = x
        BY <1>1, <2>1, <2>3 DEF Cell, Chunk
      <3> QED
        BY <2>1, <2>4, <3>1 DEF CellsPassed
    <2>12. ChunksPassed(t)'
      <3>1. ChunksPassed(t)
        BY DEF Growth
      <3> QED
        BY <1>1, <2>1, <3>1 DEF ChunksPassed, Scanning, Full
    <2>13. \A c \in Chunks : KnowsOf(t, c) => KnowsOf(t, c)'
      BY <1>1, <2>1 DEF KnowsOf
    <2>14. Growth(H, f)'
      BY <1>1, <1>3, <2>5, <2>6, <2>10, <2>11, <2>12, <2>13, StepGrowth
    <2> QED
      BY <2>14 DEF GrowthInv
  <1>5. CASE state[Cell(t)] # "dead"
    <2>1. SkipCell(t) /\ UNCHANGED state
      BY <1>5 DEF ClaimCell
    <2>2. /\ pc'[t] \in {"probe", "retire"}
          /\ \A u \in Threads \ {t} : /\ pc'[u] = pc[u] /\ entry_index'[u] = entry_index[u]
                                      /\ j'[u] = j[u]
          /\ CellsPassed(t, G)' /\ ChunksPassed(t)'
      BY <1>1, <1>5, <2>1, SkipCellGrowth
    <2>3. OthersStand(t) /\ OthersKept(t)
      BY <1>1, <2>2 DEF OthersStand, OthersKept
    <2>4. Served' = Served
      BY <1>1, <2>2, <2>3, ServedSame DEF Busy
    <2>5. GivenOut(G)'
      BY <1>1, <2>1, <2>4, GivenSame DEF Growth
    <2>6. Grows(G, G)
      BY <1>1, <1>2 DEF Grows
    <2>7. \A c \in Chunks : KnowsOf(t, c) => KnowsOf(t, c)'
      BY <1>1, <2>2 DEF KnowsOf
    <2>8. Growth(G, f)'
      BY <1>1, <1>3, <2>2, <2>3, <2>5, <2>6, <2>7, StepGrowth
    <2> QED
      BY <2>8 DEF GrowthInv
  <1> QED
    BY <1>4, <1>5

\* The chunks of a search that has ended are still there for the next one.
LEMMA InstallObjectGrowth ==
  ASSUME HeapInv, HeapInv', NEW G \in SUBSET Cells, NEW f \in [Chunks -> Threads], Growth(G, f),
         NEW t \in Threads, InstallObject(t)
  PROVE  Growth(G, f)'
  <1>1. /\ pc[t] = "install" /\ calls \in Nat
        /\ UNCHANGED <<empty, chunks, created, calls, byte_size, heap_chunks, fresh,
                       current_chunk_index, i, index, block_size, entry_index, j>>
    BY DEF Growth, InstallObject, listVars, callVars, scanVars
  <1>2. pc'[t] = "idle" /\ OthersStand(t)
    <2>1. /\ pc' = [pc EXCEPT ![t] = "idle"]
          /\ start_index' = [start_index EXCEPT ![t] = current_chunk_index[t]]
      BY DEF InstallObject, Goto, Set
    <2>2. pc \in [Threads -> Labels] /\ start_index \in [Threads -> Nat]
      BY DEF HeapInv, CallType
    <2> QED
      BY <1>1, <2>1, <2>2 DEF OthersKept, OthersStand
  <1>3. OthersKept(t) /\ Served' = Served
    BY <1>1, <1>2, ServedSame DEF OthersStand, Busy
  <1>4. GivenOut(G)'
    <2>1. Cell(t) \in G
      BY <1>1 DEF Growth, CellsPassed
    <2>2. \A c \in Cells : c # Cell(t) => state'[c] = state[c]
      BY DEF InstallObject, Set, HeapInv, HeapType
    <2>3. \A c \in Cells : state'[c] # "dead" => c \in G
      BY <2>1, <2>2 DEF Growth, GivenOut
    <2> QED
      BY <1>1, <1>3, <2>3 DEF Growth, GivenOut, Cells, Chunks
  <1>5. Grows(G, G)
    <2>1. Len(chunks) \in Nat
      BY LenProperties DEF HeapInv, HeapType
    <2> QED
      BY <1>1, <2>1 DEF Grows
  <1>6. CellsPassed(t, G)' /\ ChunksPassed(t)' /\ SnapshotOld(t)'
    BY <1>2 DEF CellsPassed, ChunksPassed, SnapshotOld, Scanning
  <1>7. \A c \in Chunks : KnowsOf(t, c) => KnowsOf(t, c)'
    <2>1. SnapshotOld(t)
      BY DEF Growth
    <2> QED
      BY <1>1, <1>2, <2>1 DEF KnowsOf, SnapshotOld
  <1> QED
    BY <1>1, <1>2, <1>4, <1>5, <1>6, <1>7, StepGrowth

\* A block that is given up has had each of its cells handed out.
LEMMA RetireBlockGrowth ==
  ASSUME HeapInv, HeapInv', NEW G \in SUBSET Cells, NEW f \in [Chunks -> Threads], Growth(G, f),
         NEW t \in Threads, RetireBlock(t)
  PROVE  Growth(G, f)'
  <1>1. /\ pc[t] = "retire" /\ calls \in Nat /\ NextBlock(t)
        /\ UNCHANGED <<state, chunks, created, calls, byte_size, heap_chunks, fresh,
                       current_chunk_index, i, entry_index, j, start_index>>
    BY DEF Growth, RetireBlock, listVars, callVars
  <1>2. Block(t) \in Chunks \X Blocks /\ Block(t) = <<Chunk(t), index[t]>>
    BY <1>1, CellType DEF Scanning, Block
  <1>3. /\ empty' = [empty EXCEPT ![Block(t)] = FALSE]
        /\ empty \in [Chunks \X Blocks -> BOOLEAN]
    BY DEF RetireBlock, Set, HeapInv, HeapType
  <1>4. /\ ~empty'[Block(t)]
        /\ \A x \in Chunks \X Blocks : x # Block(t) => empty'[x] = empty[x]
    BY <1>2, <1>3
  <1>5. \A c \in Chunks, b \in Blocks : empty'[<<c, b>>] => empty[<<c, b>>]
    BY <1>4
  <1>6. Grows(G, G)
    <2>1. Len(chunks) \in Nat
      BY LenProperties DEF HeapInv, HeapType
    <2> QED
      BY <1>1, <1>5, <2>1 DEF Grows
  <1>7. \A c \in Chunks : Full(c) => Full(c)'
    BY <1>5, FullStays
  <1>8. pc'[t] \in {"block", "next_chunk"} /\ CellsPassed(t, G)' /\ ChunksPassed(t)'
    BY <1>1, <1>4, <1>7, NextBlockGrowth
  <1>9. OthersStand(t) /\ OthersKept(t)
    <2>1. /\ index' = [index EXCEPT ![t] = index[t] + 1]
          /\ block_size' = [block_size EXCEPT ![t] = NextBlockSize(block_size[t])]
          /\ \/ pc' = [pc EXCEPT ![t] = "next_chunk"]
             \/ pc' = [pc EXCEPT ![t] = "block"]
      BY <1>1 DEF NextBlock, Goto, Set
    <2>2. /\ pc \in [Threads -> Labels] /\ index \in [Threads -> Nat]
          /\ block_size \in [Threads -> Nat]
      BY DEF HeapInv, CallType
    <2> QED
      BY <1>1, <2>1, <2>2 DEF OthersKept, OthersStand
  <1>10. Served' = Served
    BY <1>1, <1>8, <1>9, ServedSame DEF Busy
  <1>11. \A e \in Entries : <<Chunk(t), index[t], e>> \in G
    <2>1. /\ j[t] = cells_size
          /\ \A e \in Before(entry_index[t], j[t], cells_size) : <<Chunk(t), index[t], e>> \in G
      BY <1>1 DEF Growth, CellsPassed
    <2>2. cells_size \in Nat /\ entry_index[t] \in 0 .. cells_size - 1
      BY CellsAssumption DEF HeapInv, CallType, Entries
    <2>3. Before(entry_index[t], cells_size, cells_size) = Entries
      BY <2>2, BeforeAll DEF Entries
    <2> QED
      BY <2>1, <2>3
  <1>12. GivenOut(G)'
    <2>1. ASSUME NEW c \in Chunks, NEW b \in Blocks, NEW e \in Entries, ~empty'[<<c, b>>]
          PROVE  <<c, b, e>> \in G
      <3>1. CASE <<c, b>> = Block(t)
        BY <1>2, <1>11, <3>1
      <3>2. CASE <<c, b>> # Block(t)
        BY <1>4, <2>1, <3>2 DEF Growth, GivenOut
      <3> QED
        BY <3>1, <3>2
    <2> QED
      BY <1>1, <1>10, <2>1 DEF Growth, GivenOut, Cells, Chunks
  <1>13. SnapshotOld(t)'
    BY <1>1 DEF Growth, SnapshotOld
  <1>14. \A c \in Chunks : KnowsOf(t, c) => KnowsOf(t, c)'
    BY <1>1, <1>8 DEF KnowsOf
  <1> QED
    BY <1>1, <1>6, <1>8, <1>9, <1>12, <1>13, <1>14, StepGrowth

\* A released cell has been handed out.
LEMMA ReleaseGrowth ==
  ASSUME HeapInv, NEW G \in SUBSET Cells, NEW f \in [Chunks -> Threads], Growth(G, f),
         NEW object \in held, Release(object)
  PROVE  Growth(G, f)'
  <1>1. UNCHANGED <<empty, chunks, created, calls, byte_size, heap_chunks, fresh, pc,
                    current_chunk_index, i, index, block_size, entry_index, j>>
    BY DEF Release, listVars, callVars, scanVars
  <1>2. \A c \in Cells : state'[c] # "dead" => state[c] # "dead"
    BY DEF Release, Set, HeapInv, HeapType
  <1>3. Served' = Served
    BY <1>1 DEF Served
  <1>4. GivenOut(G)'
    BY <1>1, <1>2, <1>3 DEF Growth, GivenOut, Cells, Chunks
  <1>5. \A t \in Threads : CellsPassed(t, G)' /\ ChunksPassed(t)' /\ SnapshotOld(t)'
    BY <1>1 DEF Growth, CellsPassed, ChunksPassed, SnapshotOld, Full, Chunk, Cell
  <1>6. Filling' = Filling /\ \A t, c : KnowsOf(t, c)' <=> KnowsOf(t, c)
    BY <1>1 DEF Filling, Full, KnowsOf
  <1> QED
    BY <1>1, <1>4, <1>5, <1>6 DEF Growth

\* The first chunk is there before anything was handed out.
LEMMA InitGrowth == Init => GrowthInv
  <1> SUFFICES ASSUME Init PROVE GrowthInv
    OBVIOUS
  <1>1. PICK t \in Threads : TRUE
    BY ThreadsAssumption
  <1>2. PICK f \in [Chunks -> Threads] : f = [c \in Chunks |-> t]
    BY <1>1
  <1>3. PICK G \in SUBSET Cells : G = {}
    OBVIOUS
  <1>4. Busy = {} /\ Served = 0
    <2>1. Busy = {}
      BY DEF Init, Busy
    <2>2. Cardinality(Busy) = 0
      BY <2>1, FS_EmptySet
    <2>3. Served = calls - Cardinality(Busy)
      BY DEF Served, Busy
    <2> QED
      BY <2>1, <2>2, <2>3 DEF Init
  <1>5. GivenOut(G)
    BY <1>3, <1>4, FS_EmptySet DEF GivenOut, Init, Cells
  <1>6. \A u \in Threads : CellsPassed(u, G) /\ ChunksPassed(u) /\ SnapshotOld(u)
    BY DEF Init, CellsPassed, ChunksPassed, SnapshotOld, Scanning
  <1>7. \A c \in Filling : c = 1
    BY DEF Filling, Init, Chunks
  <1>8. \A u \in Threads : KnowsOf(u, 1)
    BY DEF KnowsOf, Init
  <1>9. Growth(G, f)
    BY <1>2, <1>5, <1>6, <1>7, <1>8 DEF Growth, Init, Filling
  <1> QED
    BY <1>9 DEF GrowthInv

\* Every step keeps the invariant.
LEMMA NextGrowth == HeapInv /\ GrowthInv /\ [Next]_vars => GrowthInv'
  <1> SUFFICES ASSUME HeapInv, GrowthInv, [Next]_vars PROVE GrowthInv'
    OBVIOUS
  <1>1. HeapInv'
    BY NextHeapInv
  <1>2. PICK G \in SUBSET Cells, f \in [Chunks -> Threads] : Growth(G, f)
    BY DEF GrowthInv
  <1>3. ASSUME NEW t \in Threads, RegisterChunk(t) \/ ClaimCell(t)
        PROVE  GrowthInv'
    BY <1>1, <1>2, <1>3, RegisterChunkGrowth, ClaimCellGrowth
  <1>4. ASSUME Growth(G, f)' PROVE GrowthInv'
    BY <1>4 DEF GrowthInv, Cells, Chunks
  <1>5. ASSUME NEW t \in Threads, MallocStep(t) PROVE GrowthInv'
    <2>1. CASE Snapshot(t) \/ NextChunk(t) \/ AppendChunk(t) \/ EnterBlock(t)
      BY <1>1, <1>2, <1>4, <2>1, SnapshotGrowth, NextChunkGrowth, AppendChunkGrowth,
         EnterBlockGrowth
    <2>2. CASE ProbeCell(t) \/ InstallObject(t) \/ RetireBlock(t)
      BY <1>1, <1>2, <1>4, <2>2, ProbeCellGrowth, InstallObjectGrowth, RetireBlockGrowth
    <2> QED
      BY <1>3, <1>5, <2>1, <2>2 DEF MallocStep
  <1>6. ASSUME NEW t \in Threads, NEW n \in Lengths, CallMalloc(t, n) PROVE GrowthInv'
    BY <1>1, <1>2, <1>4, <1>6, CallMallocGrowth
  <1>7. ASSUME NEW object \in held, Release(object) PROVE GrowthInv'
    BY <1>2, <1>4, <1>7, ReleaseGrowth
  <1>8. CASE UNCHANGED vars
    <2>1. UNCHANGED <<state, empty, chunks, created, calls, heap_chunks, fresh, pc,
                      current_chunk_index, i, index, entry_index, j>>
      BY <1>8 DEF vars, chunkVars, listVars, callVars, scanVars
    <2>2. Served' = Served
      BY <2>1 DEF Served
    <2>3. GivenOut(G)'
      BY <1>2, <2>1, <2>2 DEF Growth, GivenOut, Cells, Chunks
    <2>4. \A t \in Threads : CellsPassed(t, G)' /\ ChunksPassed(t)' /\ SnapshotOld(t)'
      BY <1>2, <2>1 DEF Growth, CellsPassed, ChunksPassed, SnapshotOld, Full, Chunk, Cell
    <2>5. Filling' = Filling /\ \A t, c : KnowsOf(t, c)' <=> KnowsOf(t, c)
      BY <2>1 DEF Filling, Full, KnowsOf
    <2> QED
      BY <1>2, <1>4, <2>1, <2>3, <2>4, <2>5 DEF Growth
  <1> QED
    BY <1>5, <1>6, <1>7, <1>8 DEF Next

\* There are no more chunks being filled than threads.
LEMMA FillingBound ==
  ASSUME NEW G, NEW f \in [Chunks -> Threads], Growth(G, f)
  PROVE  IsFiniteSet(Filling) /\ Cardinality(Filling) <= Cardinality(Threads)
  <1> DEFINE g == [c \in Filling |-> f[c]]
  <1>1. g \in [Filling -> Threads] /\ \A c, d \in Filling : g[c] = g[d] => c = d
    BY DEF Filling, Growth
  <1>2. g \in Injection(Filling, Threads)
    BY <1>1 DEF Injection, IsInjective
  <1> QED
    BY <1>2, ThreadsAssumption, FS_Injection

\* Each of the others had all cells of its last block handed out.
LEMMA FullBound ==
  ASSUME NEW G \in SUBSET Cells, GivenOut(G), NEW F \in SUBSET Chunks, \A c \in F : Full(c)
  PROVE  IsFiniteSet(F) /\ Cardinality(F) * cells_size <= Cardinality(G)
  <1> DEFINE last == NUMBER_OF_BLOCKS - 1
             g == [x \in F \X Entries |-> <<x[1], last, x[2]>>]
  <1>1. last \in Blocks
    BY DEF Blocks, NUMBER_OF_BLOCKS
  <1>2. \A c \in F, e \in Entries : <<c, last, e>> \in G
    BY <1>1 DEF GivenOut, Full
  <1>3. g \in [F \X Entries -> G] /\ \A x, y \in F \X Entries : g[x] = g[y] => x = y
    <2> HIDE DEF last
    <2>1. \A x \in F \X Entries : x[1] \in F /\ x[2] \in Entries /\ x = <<x[1], x[2]>>
      OBVIOUS
    <2>2. g \in [F \X Entries -> G]
      BY <1>2, <2>1
    <2>3. \A x, y \in F \X Entries : g[x] = g[y] => x = y
      BY <2>1
    <2> QED
      BY <2>2, <2>3
  <1>4. g \in Injection(F \X Entries, G)
    BY <1>3 DEF Injection, IsInjective
  <1>5. IsFiniteSet(G)
    BY CellsFinite, FS_Subset
  <1>6. Cardinality(F \X Entries) <= Cardinality(G)
    BY <1>4, <1>5, FS_Injection
  <1>7. IsFiniteSet(F) /\ IsFiniteSet(Entries) /\ Cardinality(Entries) = cells_size
    <2>1. 1 \in Int /\ MaxChunks \in Int /\ 0 \in Int /\ cells_size - 1 \in Int
      BY ChunksAssumption, CellsAssumption
    <2>2. IsFiniteSet(Chunks) /\ IsFiniteSet(Entries)
      BY <2>1, FS_Interval DEF Chunks, Entries
    <2>3. Cardinality(Entries) = IF 0 > cells_size - 1 THEN 0 ELSE (cells_size - 1) - 0 + 1
      BY <2>1, FS_Interval DEF Entries
    <2> QED
      BY <2>2, <2>3, CellsAssumption, FS_Subset
  <1> QED
    BY <1>6, <1>7, FS_Product

\* What division is.
LEMMA QuotientBound ==
  ASSUME NEW a \in Nat, NEW b \in Nat, NEW c \in Nat \ {0}, a * c <= b
  PROVE  a <= b \div c
  <1> DEFINE q == b \div c
  <1>1. q \in Nat /\ b < (q + 1) * c
    OBVIOUS
  <1> HIDE DEF q
  <1>2. ASSUME q + 1 <= a PROVE FALSE
    <2>1. (q + 1) * c <= a * c
      BY <1>1, <1>2, ScaleMonotone
    <2>2. (q + 1) * c \in Nat /\ a * c \in Nat
      BY <1>1
    <2> QED
      BY <1>1, <2>1, <2>2
  <1>3. a <= q
    BY <1>1, <1>2
  <1> QED
    BY <1>3 DEF q

\* HeapAllocator::malloc creates a chunk only after a search in which every
\* chunk had its last block given up: there are never more chunks than the
\* calls served so far have filled, and one being filled for every thread.
THEOREM GrowthOnDemand == Spec => []GrowsOnDemand
  <1>1. Init => HeapInv /\ GrowthInv
    BY InitHeapInv, InitGrowth
  <1>2. HeapInv /\ GrowthInv /\ [Next]_vars => (HeapInv /\ GrowthInv)'
    BY NextHeapInv, NextGrowth
  <1>3. HeapInv /\ GrowthInv => GrowsOnDemand
    <2> SUFFICES ASSUME HeapInv, GrowthInv PROVE GrowsOnDemand
      OBVIOUS
    <2>1. PICK G \in SUBSET Cells, f \in [Chunks -> Threads] : Growth(G, f)
      BY DEF GrowthInv
    <2> DEFINE F == {c \in Chunks : c <= created /\ Full(c)}
    <2>2. created \in Nat /\ 1 .. created = F \cup Filling /\ F \cap Filling = {}
      BY ChunksAssumption DEF HeapInv, HeapType, Filling, Chunks
    <2>3. IsFiniteSet(Filling) /\ Cardinality(Filling) <= Cardinality(Threads)
      BY <2>1, FillingBound
    <2>4. IsFiniteSet(F) /\ Cardinality(F) * cells_size <= Cardinality(G)
      <3>1. F \in SUBSET Chunks /\ \A c \in F : Full(c)
        OBVIOUS
      <3>2. GivenOut(G)
        BY <2>1 DEF Growth
      <3> HIDE DEF F
      <3> QED
        BY <3>1, <3>2, FullBound
    <2> HIDE DEF F
    <2>5. created = Cardinality(F) + Cardinality(Filling)
      <3>1. Cardinality(F \cup Filling) =
              Cardinality(F) + Cardinality(Filling) - Cardinality(F \cap Filling)
        BY <2>3, <2>4, FS_Union
      <3>2. Cardinality(1 .. created) = IF 1 > created THEN 0 ELSE created - 1 + 1
        <4>1. 1 \in Int /\ created \in Int
          BY <2>2
        <4> QED
          BY <4>1, FS_Interval
      <3>3. Cardinality(F \cap Filling) = 0
        BY <2>2, FS_EmptySet
      <3>4. Cardinality(F) \in Nat /\ Cardinality(Filling) \in Nat
        BY <2>3, <2>4, FS_CardinalityType
      <3>5. Cardinality(F \cup Filling) = Cardinality(1 .. created)
        BY <2>2
      <3> QED
        BY <2>2, <3>1, <3>2, <3>3, <3>4, <3>5
    <2>6. /\ Cardinality(F) \in Nat /\ Cardinality(Filling) \in Nat /\ Cardinality(Threads) \in Nat
          /\ Cardinality(G) \in Nat /\ Cardinality(G) <= Served
      BY <2>1, <2>3, <2>4, CellsFinite, FS_Subset, FS_CardinalityType, ThreadsAssumption
         DEF Growth, GivenOut
    <2>7. Served \in Int
      <3>1. Busy \in SUBSET Threads
        BY DEF Busy
      <3>2. Cardinality(Busy) \in Nat
        BY <3>1, ThreadsAssumption, FS_Subset, FS_CardinalityType
      <3>3. Served = calls - Cardinality(Busy)
        BY DEF Served, Busy
      <3> QED
        BY <2>1, <3>2, <3>3 DEF Growth
    <2>8. Cardinality(F) <= Served \div cells_size
      <3>1. /\ Cardinality(F) * cells_size <= Served /\ Cardinality(F) * cells_size \in Nat
            /\ cells_size \in Nat \ {0} /\ Served \in Nat
        BY <2>4, <2>6, <2>7, CellsAssumption
      <3> QED
        BY <2>6, <3>1, QuotientBound
    <2>9. Served \div cells_size \in Int
      BY <2>7, CellsAssumption
    <2> QED
      BY <2>3, <2>5, <2>6, <2>8, <2>9 DEF GrowsOnDemand
  <1> QED
    BY <1>1, <1>2, <1>3, PTL DEF Spec

=============================================================================
