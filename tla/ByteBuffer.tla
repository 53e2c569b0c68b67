----------------------------- MODULE ByteBuffer -----------------------------
(***************************************************************************)
(* The buffers of frames: ByteBufferWritable, which owns its memory and    *)
(* grows at both ends, and ByteBufferReadable, which shares it by a        *)
(* reference count (ByteBuffer.hpp, src/ByteBuffer.cpp, and the memory of  *)
(* src/MemoryPool.cpp).  When a buffer becomes readable, a header with the *)
(* count is written at the start of its block, in front of the data.       *)
(*                                                                         *)
(* Bytes are written in pieces, and a piece is named by its length; the    *)
(* memory of a block is the set of the pieces in it with their addresses.  *)
(* Each object belongs to one thread, and objects of different threads     *)
(* share blocks; the operations on the count are atomic.  Bytes that no    *)
(* buffer holds any more are left out of the memory.  Names of this        *)
(* module start with Buffer where other modules have such a name.          *)
(***************************************************************************)
EXTENDS Integers, Sequences, FiniteSets

CONSTANTS
    Writable, Readable,     \* objects of the two classes
    Block,                  \* blocks of memory, 1 .. n
    Pieces,                 \* lengths of what is appended and prepended
    Slacks,                 \* bytes rpmalloc gives above the request
    MaxPieces,              \* pieces in a buffer
    MaxTotal                \* bytes in a block

ASSUME ByteBufferAssumption ==
    /\ Pieces \subseteq Nat \ {0} /\ Slacks \subseteq Nat
    /\ MaxPieces \in Nat /\ MaxTotal \in Nat /\ Block \subseteq Nat

VARIABLES
    memory,     \* per block: total bytes (0: not allocated), pieces, header;
                \* history: the text that was written, piece after piece
    writable,   \* per ByteBufferWritable: block, _offset, _size, _capacity
    readable    \* per ByteBufferReadable: block of its storage, or 0

bufferVars == <<memory, writable, readable>>

\* sizeof(ByteBufferStorageHeader), INITIAL_DATA_OFFSET
StorageHeaderBytes  == 20
INITIAL_DATA_OFFSET == 32

NoStorage == [refCounter |-> 0, size |-> 0, offset |-> 0, capacity |-> 0]
NoMemory  ==
    [total |-> 0, pieces |-> {}, header |-> NoStorage, text |-> <<>>]
NoData    == [block |-> 0, offset |-> 0, size |-> 0, capacity |-> 0]

BufferInit ==
    /\ memory = [b \in Block |-> NoMemory]
    /\ writable = [w \in Writable |-> NoData]
    /\ readable = [r \in Readable |-> 0]

-----------------------------------------------------------------------------
(* Memory.                                                                 *)

Larger(a, b) == IF a > b THEN a ELSE b

\* round_capacity_up: with the offset, the least multiple of a quarter of the
\* next power of two
RoundCapacityUp(capacity) ==
    LET wanted == capacity + INITIAL_DATA_OFFSET
        width  == CHOOSE n \in 7 .. 20 :
                     2^(n - 1) <= Larger(wanted, 64) /\ Larger(wanted, 64) < 2^n
        step   == 2^(width - 2)
        times  == CHOOSE k \in 1 .. 4 : (k - 1) * step < wanted /\ wanted <= k * step
    IN  times * step - INITIAL_DATA_OFFSET

\* Bytes written to a block: pieces they cover, or cover a part of, are lost
Write(pieces, at, len) ==
    {p \in pieces : p.at + p.len <= at \/ at + len <= p.at}
        \cup {[at |-> at, len |-> len]}

\* MemoryPool::Allocate of the constructor with a capacity: the first free block
FreeBlocks == {b \in Block : memory[b].total = 0}
NewBlock   == CHOOSE b \in FreeBlocks : \A c \in FreeBlocks : b <= c

Allocated(capacity, slack) ==
    [NoMemory EXCEPT !.total = RoundCapacityUp(capacity) + INITIAL_DATA_OFFSET + slack]

FreshData(b, m) ==
    [block |-> b, offset |-> INITIAL_DATA_OFFSET, size |-> 0,
     capacity |-> m.total - INITIAL_DATA_OFFSET]

\* The text of a buffer, which may have no memory yet
Text(d) == IF d.block = 0 THEN <<>> ELSE memory[d.block].text

\* The pieces of a buffer, copied to the offset to of a new block
Copied(d, to) ==
    IF d.size = 0 THEN {} ELSE
    {[p EXCEPT !.at = @ - d.offset + to] : p \in
        {q \in memory[d.block].pieces :
            d.offset <= q.at /\ q.at + q.len <= d.offset + d.size}}

-----------------------------------------------------------------------------
(* ByteBufferWritable.                                                     *)

Valid(w) == writable[w].block # 0

\* ByteBufferWritable(capacity)
BufferConstruct(w, capacity, slack) ==
    /\ ~Valid(w)
    /\ FreeBlocks # {}
    /\ memory' = [memory EXCEPT ![NewBlock] = Allocated(capacity, slack)]
    /\ writable' = [writable EXCEPT ![w] = FreshData(NewBlock, memory'[NewBlock])]
    /\ UNCHANGED readable

\* The destructor, free_buffer
BufferDestroy(w) ==
    /\ Valid(w)
    /\ memory' = [memory EXCEPT ![writable[w].block] = NoMemory]
    /\ writable' = [writable EXCEPT ![w] = NoData]
    /\ UNCHANGED readable

\* operator=(ByteBufferWritable &&) and its move constructor
BufferMove(w, v) ==
    /\ w # v
    /\ Valid(v)
    /\ memory' = IF Valid(w) THEN [memory EXCEPT ![writable[w].block] = NoMemory]
                 ELSE memory
    /\ writable' = [writable EXCEPT ![w] = writable[v], ![v] = NoData]
    /\ UNCHANGED readable

\* operator=(const ByteBufferWritable &) to an object without memory: the bytes
\* are copied, and none of the capacity
BufferCopy(w, v, slack) ==
    LET d == writable[v]
        b == NewBlock
        m == Allocated(d.size, slack)
    IN  /\ ~Valid(w) /\ Valid(v)
        /\ d.size > 0
        /\ FreeBlocks # {}
        /\ memory' = [memory EXCEPT ![b] =
                         [m EXCEPT !.pieces = Copied(d, INITIAL_DATA_OFFSET),
                                   !.text = memory[d.block].text]]
        /\ writable' = [writable EXCEPT ![w] = [FreshData(b, m) EXCEPT !.size = d.size]]
        /\ UNCHANGED readable

\* clear: the data starts at its first offset again
BufferClear(w) ==
    LET d == writable[w]
    IN  /\ Valid(w)
        /\ d.size > 0
        /\ writable' = [writable EXCEPT ![w] = FreshData(d.block, memory[d.block])]
        /\ memory' = [memory EXCEPT ![d.block] = [@ EXCEPT !.pieces = {},
                                                           !.text = <<>>]]
        /\ UNCHANGED readable

\* The buffer w with n more bytes is moved to a new block: its data to the offset
\* to, the bytes to the offset at; the old block is released
Grow(w, capacity, slack, to, at, n, text) ==
    LET d == writable[w]
        m == Allocated(capacity, slack)
    IN  /\ FreeBlocks # {}
        /\ m.total <= MaxTotal
        /\ memory' = [b \in Block |->
              IF b = NewBlock THEN [m EXCEPT !.pieces = Write(Copied(d, to), at, n),
                                             !.text = text]
              ELSE IF b = d.block THEN NoMemory ELSE memory[b]]
        /\ writable' = [writable EXCEPT ![w] =
                           [FreshData(NewBlock, m) EXCEPT !.size = d.size + n]]

\* append and push_back, within the capacity or after reserve_or_shrink
BufferAppend(w, n, slack) ==
    LET d == writable[w]
    IN  /\ Len(Text(d)) < MaxPieces
        /\ IF d.size + n <= d.capacity
           THEN /\ memory' = [memory EXCEPT ![d.block] =
                      [@ EXCEPT !.pieces = Write(@, d.offset + d.size, n),
                                !.text = Append(@, n)]]
                /\ writable' = [writable EXCEPT ![w].size = @ + n]
           ELSE Grow(w, RoundCapacityUp(d.size + n), slack, INITIAL_DATA_OFFSET,
                     INITIAL_DATA_OFFSET + d.size, n, Append(Text(d), n))
        /\ UNCHANGED readable

\* Mutant: the room the header needs is forgotten
FrontRoomAll(d, n) == d.offset >= n

\* prepend has room in front of the data and behind the header
FrontRoom(d, n) == d.offset >= StorageHeaderBytes + n

\* prepend, into the room before the data or into a new block
BufferPrepend(w, n, slack) ==
    LET d == writable[w]
    IN  /\ Len(Text(d)) < MaxPieces
        /\ IF FrontRoom(d, n)
           THEN /\ memory' = [memory EXCEPT ![d.block] =
                      [@ EXCEPT !.pieces = Write(@, d.offset - n, n),
                                !.text = <<n>> \o @]]
                /\ writable' = [writable EXCEPT ![w] =
                      [d EXCEPT !.offset = @ - n, !.size = @ + n, !.capacity = @ + n]]
           ELSE Grow(w, n + d.capacity, slack, INITIAL_DATA_OFFSET + n,
                     INITIAL_DATA_OFFSET, n, <<n>> \o Text(d))
        /\ UNCHANGED readable

-----------------------------------------------------------------------------
(* ByteBufferReadable.                                                     *)

\* ByteBufferReadable(ByteBufferWritable &&): the header is written
BufferShare(r, w) ==
    LET d == writable[w]
    IN  /\ readable[r] = 0
        /\ Valid(w)
        /\ memory' = [memory EXCEPT ![d.block] =
              [@ EXCEPT !.pieces = Write(@, 0, StorageHeaderBytes),
                        !.header = [refCounter |-> 1, size |-> d.size,
                                    offset |-> d.offset, capacity |-> d.capacity]]]
        /\ readable' = [readable EXCEPT ![r] = d.block]
        /\ writable' = [writable EXCEPT ![w] = NoData]

\* Mutant: the block is released while one reference is left
UnrefEarly(mem, b) ==
    IF b = 0 THEN mem
    ELSE IF mem[b].header.refCounter <= 2 THEN [mem EXCEPT ![b] = NoMemory]
    ELSE [mem EXCEPT ![b].header.refCounter = @ - 1]

\* unref
Unref(mem, b) ==
    IF b = 0 THEN mem
    ELSE IF mem[b].header.refCounter = 1 THEN [mem EXCEPT ![b] = NoMemory]
    ELSE [mem EXCEPT ![b].header.refCounter = @ - 1]

\* The copy constructor and operator=(const ByteBufferReadable &)
BufferShareCopy(r, s) ==
    /\ readable[s] # 0
    /\ readable[r] # readable[s]
    /\ memory' = [Unref(memory, readable[r]) EXCEPT ![readable[s]].header.refCounter = @ + 1]
    /\ readable' = [readable EXCEPT ![r] = readable[s]]
    /\ UNCHANGED writable

\* The move constructor and operator=(ByteBufferReadable &&).  An object with
\* the same storage keeps it, and both keep their reference.
BufferShareMove(r, s) ==
    /\ readable[s] # 0
    /\ readable[r] # readable[s]
    /\ memory' = Unref(memory, readable[r])
    /\ readable' = [readable EXCEPT ![r] = readable[s], ![s] = 0]
    /\ UNCHANGED writable

\* The destructor
BufferShareDestroy(r) ==
    /\ readable[r] # 0
    /\ memory' = Unref(memory, readable[r])
    /\ readable' = [readable EXCEPT ![r] = 0]
    /\ UNCHANGED writable

\* TryRecycle by the only reference: the block becomes writable again, empty
BufferRecycle(w, r) ==
    LET b == readable[r]
    IN  /\ b # 0
        /\ ~Valid(w)
        /\ memory[b].header.refCounter = 1
        /\ memory' = [memory EXCEPT ![b] =
                         [NoMemory EXCEPT !.total = memory[b].total]]
        /\ readable' = [readable EXCEPT ![r] = 0]
        /\ writable' = [writable EXCEPT ![w] =
              [block |-> b, offset |-> INITIAL_DATA_OFFSET, size |-> 0,
               capacity |-> memory[b].header.offset + memory[b].header.capacity
                              - INITIAL_DATA_OFFSET]]

BufferNext ==
    \/ \E w \in Writable, slack \in Slacks :
          \/ \E capacity \in Pieces : BufferConstruct(w, capacity, slack)
          \/ \E n \in Pieces : BufferAppend(w, n, slack) \/ BufferPrepend(w, n, slack)
          \/ \E v \in Writable : BufferCopy(w, v, slack)
    \/ \E w \in Writable :
          \/ BufferDestroy(w) \/ BufferClear(w)
          \/ \E v \in Writable : BufferMove(w, v)
          \/ \E r \in Readable : BufferShare(r, w) \/ BufferRecycle(w, r)
    \/ \E r \in Readable :
          \/ BufferShareDestroy(r)
          \/ \E s \in Readable : BufferShareCopy(r, s) \/ BufferShareMove(r, s)

BufferSpec == BufferInit /\ [][BufferNext]_bufferVars

-----------------------------------------------------------------------------
\* What is read from a block: the lengths of the pieces from offset on
ReadPieces(b, offset, size) ==
    LET inside == {p \in memory[b].pieces : offset <= p.at /\ p.at < offset + size}
        nth(i) == CHOOSE p \in inside :
                     Cardinality({q \in inside : q.at < p.at}) = i - 1
    IN  [i \in 1 .. Cardinality(inside) |-> nth(i).len]

TotalSize(s) ==
    LET sum[i \in 0 .. Len(s)] == IF i = 0 THEN 0 ELSE sum[i - 1] + s[i]
    IN  sum[Len(s)]

\* Every block has one writable owner or as many readers as its reference count
\* says, whatever is copied, moved, recycled and destroyed by whichever thread;
\* a block is in use exactly as long as an object refers to it: none is freed
\* early, freed twice or leaked.
OwnersExact ==
    \A b \in Block :
        LET owners  == {w \in Writable : writable[w].block = b}
            readers == {r \in Readable : readable[r] = b}
        IN  /\ Cardinality(owners) <= 1
            /\ owners = {} \/ readers = {}
            /\ memory[b].header.refCounter = Cardinality(readers)
            /\ memory[b].total # 0 <=> owners \cup readers # {}

\* The bytes of a buffer are the ones that were appended and prepended, in that
\* order, in a readable buffer too: growing, moving, copying and writing the
\* header at the start of the block keep them, and they stay inside the block.
BytesKept ==
    LET kept(b, offset, size, capacity) ==
            /\ ReadPieces(b, offset, size) = memory[b].text
            /\ size = TotalSize(memory[b].text)
            /\ size <= capacity /\ offset + capacity = memory[b].total
    IN  /\ \A w \in Writable : Valid(w) =>
              LET d == writable[w]
              IN  kept(d.block, d.offset, d.size, d.capacity)
        /\ \A r \in Readable : readable[r] # 0 =>
              LET h == memory[readable[r]].header
              IN  kept(readable[r], h.offset, h.size, h.capacity)
=============================================================================
