---------------------------- MODULE RamdiskFile ----------------------------
(***************************************************************************)
(* How P4's ramdisk.c keeps the bytes of one regular file: an array of     *)
(* blocks of BlockSize bytes that is allocated block by block and doubled  *)
(* when it is full (r_write, r_read, r_truncate).  The kernel calls one of *)
(* these at a time for a file, so each call is one action.                 *)
(*                                                                         *)
(* A byte is <<w, p>>: the w-th write put it there and meant it for        *)
(* position p of the file.  The ghost variables content and end are what a *)
(* file is to its users.                                                   *)
(*                                                                         *)
(* The kernel (external) writes within one page at a time and reads whole  *)
(* pages below the size it knows.                                          *)
(***************************************************************************)
EXTENDS Integers, Sequences, FiniteSets, SequencesExt

CONSTANTS
    BlockSize,      \* BLOCK_SIZE
    InitBlockNum,   \* INIT_BLOCK_NUM
    PageSize,       \* the kernel's page, a multiple of BlockSize
    MaxSize,        \* ramdisk_engine->max_size
    Reach,          \* bound: no write goes to this position or beyond
    MaxWrites,      \* bound on the number of writes tried
    MaxFailures     \* bound on the calls of malloc that fail

ASSUME SizesAssumption ==
    /\ {BlockSize, InitBlockNum, PageSize, MaxSize, Reach} \subseteq Nat \ {0}
    /\ PageSize % BlockSize = 0
    /\ MaxWrites \in Nat /\ MaxFailures \in Nat

VARIABLES
    status,         \* "mounted", or how the process went wrong
    blocks,         \* r_file->blocks: a function on 0 .. block_number - 1
    size,           \* r_file->size
    current_size,   \* ramdisk_engine->current_size: this is its only file
    writes,         \* writes tried so far
    failures,       \* failed calls of malloc so far
    content,        \* ghost: the byte last written to each position
    end,            \* ghost: one past the last position ever written
    plain,          \* ghost: every write began where the one before ended
    jumped          \* ghost: a write began more than a block behind the array

ghosts == <<content, end, plain, jumped>>
vars == <<status, blocks, size, current_size, writes, failures, ghosts>>

NULL == <<>>
Zero == <<0, 0>>
Untouched == <<0, -1>>    \* a byte of the caller's buffer nobody wrote
EmptyBlock == [o \in 0 .. BlockSize - 1 |-> Zero]
FreshBlocks == [k \in 0 .. InitBlockNum - 1 |-> NULL]

\* r_create
Init ==
    /\ status = "mounted"
    /\ blocks = FreshBlocks
    /\ size = 0 /\ current_size = 0 /\ writes = 0 /\ failures = 0
    /\ content = [p \in 0 .. Reach - 1 |-> Zero]
    /\ end = 0 /\ plain = TRUE /\ jumped = FALSE

block_number == Cardinality(DOMAIN blocks)
CeilDiv(a, b) == (a + b - 1) \div b
Smaller(a, b) == IF a < b THEN a ELSE b

-----------------------------------------------------------------------------
(***************************************************************************)
(* r_write of n bytes at position off.                                     *)
(***************************************************************************)
Index(off) == off \div BlockSize                 \* block_index_offset
Room(off) == BlockSize - (off % BlockSize)       \* block_free_space
Capacity(bn) == bn * BlockSize                   \* max_capacity
InOneBlock(off, n) ==
    off + n <= Capacity(block_number) /\ n <= Room(off)

CornerForgotten(off, n) ==    \* mutant: no correction for a full array
    IF off + n <= Capacity(block_number) THEN CeilDiv(n - Room(off), BlockSize)
    ELSE CeilDiv(off + n - Capacity(block_number), BlockSize)
           + (IF Index(off) < block_number - 1
              THEN block_number - Index(off) - 1 ELSE 0)

\* to_inti_block_num: the blocks to initialise and to write after the first.
BlocksAfter(off, n) ==
    IF off + n <= Capacity(block_number) THEN CeilDiv(n - Room(off), BlockSize)
    ELSE CeilDiv(off + n - Capacity(block_number), BlockSize)
           + (IF Index(off) = block_number THEN -1
              ELSE IF Index(off) < block_number - 1
              THEN block_number - Index(off) - 1 ELSE 0)

Doublings(bn, bytes) == {bn * 2 ^ k : k \in 0 .. CeilDiv(bytes, bn)}

GrownTooFar(bn, bytes) ==    \* mutant: a full array is doubled as well
    CHOOSE m \in Doublings(bn, bytes) :
        /\ Capacity(m) > bytes
        /\ m = bn \/ Capacity(m \div 2) <= bytes

\* The array is doubled until it holds the given number of bytes.
Grown(bn, bytes) ==
    CHOOSE m \in Doublings(bn, bytes) :
        /\ Capacity(m) >= bytes
        /\ m = bn \/ Capacity(m \div 2) < bytes

\* The array with bn entries in which block k, unless it was, is initialised.
ExtendedEmpty(bn) == [k \in 0 .. bn - 1 |-> NULL]    \* mutant: nothing is copied
Extended(bn) == [k \in 0 .. bn - 1 |-> IF k < block_number THEN blocks[k] ELSE NULL]
Initialised(bs, K) ==
    [k \in DOMAIN bs |-> IF k \in K /\ bs[k] = NULL THEN EmptyBlock ELSE bs[k]]

\* memcpy of n bytes, from buf[at], to offset o of block k.
Buffer(off, at) == <<writes + 1, off + at>>
CopyIn(bs, k, o, off, at, n) ==
    [bs EXCEPT ![k] = [x \in 0 .. BlockSize - 1 |->
                          IF x \in o .. o + n - 1 THEN Buffer(off, at + x - o)
                          ELSE @[x]]]

\* One pass of the writing loop.  st.left is t_size, st.at is buf_offset; a
\* pass that writes the last of the bytes changes neither.
WriteBlock(st, k, off) ==
    LET n == Smaller(st.left, BlockSize)
        more == st.left > BlockSize
    IN  [bs |-> CopyIn(st.bs, k, 0, off, st.at, n),
         at |-> IF more THEN st.at + BlockSize ELSE st.at,
         left |-> IF more THEN st.left - BlockSize ELSE st.left]

\* The file's blocks after the write.
Written(bs, off, n) ==
    LET o == off % BlockSize
        after == IF n <= Room(off) THEN 0 ELSE BlocksAfter(off, n)
        first == CopyIn(bs, Index(off), o, off, 0, Smaller(n, Room(off)))
        Step(st, k) == WriteBlock(st, k, off)
    IN  FoldLeft(Step, [bs |-> first, at |-> Room(off), left |-> n - Room(off)],
                 [j \in 1 .. after |-> Index(off) + j]).bs

\* What the kernel asks to write: n bytes within a page.
Request(off, n) ==
    /\ off + n <= Reach
    /\ off \div PageSize = (off + n - 1) \div PageSize
    /\ writes < MaxWrites

AccountsOverrun(n) == current_size <= MaxSize   \* mutant: n is not considered
HasCapacity(n) == current_size + n <= MaxSize   \* check_ramdisk_capacity

NewBlocks(off, n) ==
    IF InOneBlock(off, n) THEN blocks ELSE Extended(Grown(block_number, off + n))
ToInitialise(off, n) ==
    Index(off) .. Index(off) + (IF InOneBlock(off, n) THEN 0 ELSE BlocksAfter(off, n))

\* size grows by what is written, wherever it is written.
Write(off, n) ==
    /\ status = "mounted"
    /\ Request(off, n)
    /\ HasCapacity(n)
    /\ ToInitialise(off, n) \subseteq DOMAIN NewBlocks(off, n)
    /\ blocks' = Written(Initialised(NewBlocks(off, n), ToInitialise(off, n)), off, n)
    /\ size' = size + n
    /\ current_size' = current_size + n
    /\ writes' = writes + 1
    /\ content' = [p \in DOMAIN content |->
                     IF p \in off .. off + n - 1 THEN <<writes + 1, p>> ELSE content[p]]
    /\ end' = IF off + n > end THEN off + n ELSE end
    /\ plain' = (plain /\ off = end)
    /\ jumped' = (jumped \/ Index(off) > block_number)
    /\ UNCHANGED <<status, failures>>

\* The loop that initialises blocks runs over the end of the array: the test
\* for it is there, the statement that would skip is not compiled.
WriteOverruns(off, n) ==
    /\ status = "mounted"
    /\ Request(off, n)
    /\ HasCapacity(n)
    /\ ~(ToInitialise(off, n) \subseteq DOMAIN NewBlocks(off, n))
    /\ status' = "overrun"
    /\ UNCHANGED <<blocks, size, current_size, writes, failures, ghosts>>

\* malloc fails in r_write: what was allocated before stays, nothing is
\* written and nothing is counted.
WriteFails(off, n) ==
    /\ status = "mounted"
    /\ Request(off, n)
    /\ HasCapacity(n)
    /\ failures < MaxFailures
    /\ ToInitialise(off, n) \subseteq DOMAIN NewBlocks(off, n)
    /\ failures' = failures + 1
    /\ writes' = writes + 1
    /\ \/ blocks' = blocks
       \/ \E m \in Doublings(block_number, off + n) :
             /\ Capacity(m) < off + n
             /\ blocks' = Initialised(Extended(m), {Index(off)} \cap DOMAIN blocks)
       \/ \E k \in ToInitialise(off, n) :
             /\ NewBlocks(off, n)[k] = NULL
             /\ blocks' = Initialised(NewBlocks(off, n), Index(off) .. k - 1)
    /\ UNCHANGED <<status, size, current_size, ghosts>>

\* r_truncate to 0; to the present size it changes nothing, and any other size
\* is refused.
Truncate ==
    /\ status = "mounted"
    /\ blocks' = FreshBlocks
    /\ current_size' = current_size - size
    /\ size' = 0
    /\ content' = [p \in DOMAIN content |-> Zero]
    /\ end' = 0 /\ plain' = TRUE /\ jumped' = FALSE
    /\ UNCHANGED <<status, writes, failures>>

\* malloc fails there: the old blocks are freed and paid back, the size stays,
\* and the file's next use goes through a NULL array.
TruncateFails ==
    /\ status = "mounted"
    /\ failures < MaxFailures
    /\ failures' = failures + 1
    /\ status' = "lost"
    /\ current_size' = current_size - size
    /\ UNCHANGED <<blocks, size, writes, ghosts>>

-----------------------------------------------------------------------------
(***************************************************************************)
(* r_read of n bytes at position off: the buffer and the count it returns. *)
(***************************************************************************)
SizeAsUnsigned(off, n) == n > size - off /\ size >= off
\* r_size.  The comparison is unsigned: beyond the size it is false.
Count(off, n) == IF SizeAsUnsigned(off, n) THEN size - off ELSE n

\* mutant: no block for the rest
LaterBlocksFloor(m) == IF m < 0 THEN 0 ELSE m \div BlockSize

\* to_copy_block_num, for a count that leaves m bytes to the later blocks.
LaterBlocks(m) ==
    IF m % BlockSize # 0
    THEN IF m < BlockSize THEN 0 ELSE m \div BlockSize + 1
    ELSE m \div BlockSize

CopyOut(buf, at, k, o, n) ==
    [x \in DOMAIN buf |->
        IF x \in at .. at + n - 1 THEN blocks[k][o + x - at] ELSE buf[x]]

ReadBlock(st, k) ==
    LET more == st.left > BlockSize
    IN  [buf |-> CopyOut(st.buf, st.at, k, 0, Smaller(st.left, BlockSize)),
         at |-> IF more THEN st.at + BlockSize ELSE st.at,
         left |-> IF more THEN st.left - BlockSize ELSE st.left]

Present(k) == k \in DOMAIN blocks /\ blocks[k] # NULL

\* Without a test the first block is taken to be there.
Faults(off) == ~Present(Index(off))

Read(off, n) ==
    LET o == off % BlockSize
        raw == [x \in 0 .. n - 1 |-> Untouched]
        first == CopyOut(raw, 0, Index(off), o, Smaller(n, Room(off)))
        left == Count(off, n) - Room(off)
        later == SelectSeq([j \in 1 .. LaterBlocks(left) |-> Index(off) + j], Present)
    IN  IF n <= Room(off) THEN [count |-> 0, buf |-> first]
        ELSE [count |-> Count(off, n),
              buf |-> FoldLeft(ReadBlock, [buf |-> first, at |-> Room(off), left |-> left],
                               later).buf]

\* What the kernel asks to read: pages that begin below the size.
Pages == {r \in (0 .. Reach) \X (1 .. Reach) :
             r[1] % PageSize = 0 /\ r[2] % PageSize = 0 /\ r[1] < size}

\* memcpy from NULL, or from what lies behind the array.
ReadFaults ==
    /\ status = "mounted"
    /\ {r \in Pages : Faults(r[1])} # {}
    /\ status' = "crashed"
    /\ UNCHANGED <<blocks, size, current_size, writes, failures, ghosts>>

Next ==
    \/ \E off \in 0 .. Reach - 1, n \in 1 .. PageSize :
          Write(off, n) \/ WriteOverruns(off, n) \/ WriteFails(off, n)
    \/ Truncate
    \/ TruncateFails
    \/ ReadFaults

Spec == Init /\ [][Next]_vars

-----------------------------------------------------------------------------
Bytes == {Zero} \cup (1 .. MaxWrites) \X (0 .. Reach - 1)

TypeOK ==
    /\ status \in {"mounted", "crashed", "overrun", "lost"}
    /\ DOMAIN blocks = 0 .. block_number - 1
    /\ block_number \in Doublings(InitBlockNum, Reach)
    /\ \A k \in DOMAIN blocks :
          blocks[k] = NULL \/ blocks[k] \in [0 .. BlockSize - 1 -> Bytes]
    /\ size \in 0 .. MaxSize
    /\ current_size \in 0 .. MaxSize
    /\ writes \in 0 .. MaxWrites
    /\ failures \in 0 .. MaxFailures
    /\ content \in [0 .. Reach - 1 -> Bytes]
    /\ end \in 0 .. Reach
    /\ plain \in BOOLEAN /\ jumped \in BOOLEAN

(***************************************************************************)
(* Whatever the order, position and size of the writes, and however often  *)
(* the array grew on the way or an allocation failed, the byte last        *)
(* written to a position is in the block and at the offset where r_read    *)
(* looks for it.  What no write ever reached is zero, also after a         *)
(* truncation, unless a write began behind the array: its loop is too      *)
(* long, and fills blocks behind the last with copies of its last bytes.   *)
(***************************************************************************)
ByteAt(p) == blocks[Index(p)][p % BlockSize]
BytesAreStored ==
    status = "mounted" =>
        \A p \in 0 .. end - 1 :
            /\ content[p] # Zero => Present(Index(p)) /\ ByteAt(p) = content[p]
            /\ content[p] = Zero /\ Present(Index(p)) /\ ~jumped => ByteAt(p) = Zero

(***************************************************************************)
(* The array holds the file and, unless a write failed half way, is not    *)
(* doubled more often than the file needs.                                 *)
(***************************************************************************)
ArrayFits ==
    /\ TypeOK
    /\ end <= Capacity(block_number)
    /\ failures = 0 /\ block_number > InitBlockNum =>
          Capacity(block_number \div 2) < end

\* The size is the length of the file as long as it is only appended to, the
\* disk's account agrees with it, and the disk is never fuller than it may be.
AppendsKeepSize ==
    /\ plain => size = end
    /\ current_size = size \/ status = "lost"
    /\ current_size <= MaxSize

\* What a read is to return.
Expected(off, n) == Smaller(n, size - off)
ReturnsBytes(off, n, m) ==
    /\ ~Faults(off)
    /\ Read(off, n).count = Expected(off, n)
    /\ \A x \in 0 .. m - 1 : Read(off, n).buf[x] = content[off + x]

(***************************************************************************)
(* A file that was only appended to is read back as it was written, but    *)
(* for one case: of a last stretch longer than one block and shorter than  *)
(* two only the first block arrives.                                       *)
(***************************************************************************)
LosesTail(off, n) == Expected(off, n) \in BlockSize + 1 .. 2 * BlockSize - 1
ReadsBack ==
    status = "mounted" /\ plain =>
        \A r \in Pages :
            ReturnsBytes(r[1], r[2],
                IF LosesTail(r[1], r[2]) THEN BlockSize ELSE Expected(r[1], r[2]))
=============================================================================
