--------------------------- MODULE CommandsBuffer ---------------------------
(***************************************************************************)
(* A block of memory that commands are constructed in one after another:   *)
(* src/CommandsBuffer.cpp.  Commands grow from the front, each at an       *)
(* offset of its own alignment; the offset of every command is kept in an  *)
(* entry of four bytes, and these grow down from the end of the block.     *)
(*                                                                         *)
(* A buffer is a record; the offset field of its commands are the entries. *)
(***************************************************************************)
EXTENDS Integers, Sequences

CONSTANTS
    Blocks,         \* what MemoryPool::Allocate gives for bufferSize bytes
    Kinds           \* [size, align] of the classes of commands

\* sizeof(CommandEntryMetadata), and the size of the class Command
MetadataSize   == 4
CommandMinSize == 16

\* What MemoryPool::Allocate asserts of the address of a block
BlockAlignment == 16

\* Commands hold pointers; GetOffsetOfNextCommand asserts the upper bound
Alignments == {8, 16, 32, 64, 128, 256, 512, 1024, 2048, 4096}

\* Every class of commands fits into a block.
ASSUME CommandsBufferAssumption ==
    /\ Blocks \subseteq [address : Nat, bytes : Nat]
    /\ \A block \in Blocks : block.address % BlockAlignment = 0
    /\ Kinds \subseteq [size : Nat, align : Alignments]
    /\ \A kind \in Kinds :
          /\ kind.size >= CommandMinSize
          /\ \A block \in Blocks : kind.size + MetadataSize <= block.bytes

\* A buffer that owns no memory
NoBuffer == [address |-> 0, totalBytes |-> 0, commands |-> <<>>, offsetOfFree |-> 0]

IsValid(b) == b.totalBytes # 0

\* CommandsBuffer::Init
NewBuffer(block) ==
    [address      |-> block.address,
     totalBytes   |-> block.bytes,
     commands     |-> <<>>,
     offsetOfFree |-> 0]

\* The entry of the command with index id, which starts at 0
GetMetadataOffset(b, id) == b.totalBytes - MetadataSize * (id + 1)

\* Mutant: the next command is put right behind the last one
GetOffsetOfNextCommandPacked(b, alignment) == b.offsetOfFree

\* GetOffsetOfNextCommand; the alignment is a power of two, and clearing the
\* low bits rounds down to a multiple of it
GetOffsetOfNextCommand(b, alignment) ==
    LET end == b.offsetOfFree + alignment - 1
    IN  end - (end % alignment)

\* CanAllocate
CanAllocate(b, kind) ==
    /\ IsValid(b)
    /\ GetOffsetOfNextCommand(b, kind.align) + kind.size
          <= GetMetadataOffset(b, Len(b.commands))

\* EnqueueCommand and Allocate of a command that CanAllocate
Allocate(b, kind, id) ==
    LET offset == GetOffsetOfNextCommand(b, kind.align)
    IN  [b EXCEPT !.commands = Append(@, [id     |-> id,
                                          kind   |-> kind,
                                          offset |-> offset]),
                  !.offsetOfFree = offset + kind.size]

-----------------------------------------------------------------------------
\* The end of a command
End(c) == c.offset + c.kind.size

\* The alignment a command can rely on: the offset is aligned, not the address,
\* so it is no more than that of the block
Guaranteed(kind) == IF kind.align <= BlockAlignment THEN kind.align ELSE BlockAlignment

\* Commands lie in memory as they need it, up to the alignment of the block, in
\* order and apart from each other, from the front of the block to offsetOfFree,
\* all below the entries; and the entry of the next command lies in the block, so
\* that GetMetadataOffset never wraps around.
Layout(b) ==
    /\ \A i \in 1 .. Len(b.commands) :
          LET c == b.commands[i]
          IN  /\ (b.address + c.offset) % Guaranteed(c.kind) = 0
              /\ (IF i = 1 THEN 0 ELSE End(b.commands[i - 1])) <= c.offset
    /\ b.offsetOfFree = IF b.commands = <<>> THEN 0
                        ELSE End(b.commands[Len(b.commands)])
    /\ b.offsetOfFree <= b.totalBytes - MetadataSize * Len(b.commands)
    /\ IsValid(b) => GetMetadataOffset(b, Len(b.commands)) >= 0
=============================================================================
