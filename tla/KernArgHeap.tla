----------------------------- MODULE KernArgHeap -----------------------------
(***************************************************************************)
(* dagr's heap for kernel arguments.  A request is rounded up to a multiple *)
(* of MIN_ALLOC_SIZE and served by the heap of that size, made on first     *)
(* use.  Such a heap takes big blocks of MAX_ALLOC_SIZE bytes from HSA,     *)
(* cuts each into blocks of its size, and keeps the free ones on a stack;   *)
(* big blocks go back to HSA only when the heap is destroyed.               *)
(*                                                                         *)
(* A block is the big block it was cut from with the offsets of its first   *)
(* byte and of the byte after its last.  Sizes are in bytes.                *)
(***************************************************************************)
EXTENDS Integers, SequencesExt

CONSTANTS
    MIN_ALLOC_SIZE,     \* 16 in the code
    MAX_ALLOC_SIZE,     \* 4096 in the code, the size of a big block
    BigBlocks           \* bound: what HSA can hand out

ASSUME HeapAssumption ==
    /\ MIN_ALLOC_SIZE \in Nat \ {0}
    /\ MAX_ALLOC_SIZE \in Nat \ {0}
    /\ MAX_ALLOC_SIZE % MIN_ALLOC_SIZE = 0

VARIABLES
    mHeapsForSz,        \* bucket |-> the heap, or NoHeap where none was made
    hsaBlocks,          \* big blocks allocated from the kernarg region
    given               \* blocks in the hands of callers

heapVars == <<mHeapsForSz, hsaBlocks, given>>

NUM_BUCKETS == MAX_ALLOC_SIZE \div MIN_ALLOC_SIZE

NoHeap == [made |-> FALSE, mAllocSz |-> 0, mFreeBlocks |-> <<>>, mBigBlocks |-> {}]

Blocks == [big: BigBlocks, beg: 0 .. MAX_ALLOC_SIZE, end: 0 .. MAX_ALLOC_SIZE]
NullBlock == [big |-> "null", beg |-> 0, end |-> 0]
SizeOf(blk) == blk.end - blk.beg

HeapInit ==
    /\ mHeapsForSz = [b \in 0 .. NUM_BUCKETS - 1 |-> NoHeap]
    /\ hsaBlocks = {}
    /\ given = {}

-----------------------------------------------------------------------------
(* heapForSize: the bucket of a request, and the heaps once its heap exists.
   The assertion that the bucket is inside the vector is not in a release
   build: the access itself makes the bucket "exist" past the end.  Mutant:
   a multiple of MIN_ALLOC_SIZE is rounded up too.                          *)
MutRoundUp(n) == ((n + MIN_ALLOC_SIZE) \div MIN_ALLOC_SIZE) * MIN_ALLOC_SIZE
RoundUp(n) == ((n + MIN_ALLOC_SIZE - 1) \div MIN_ALLOC_SIZE) * MIN_ALLOC_SIZE
BucketOf(n) == RoundUp(n) \div MIN_ALLOC_SIZE

HeapForSize(n) ==
    LET made == [b \in {BucketOf(n)} |->
                    [NoHeap EXCEPT !.made = TRUE, !.mAllocSz = RoundUp(n)]]
    IN  IF BucketOf(n) \in DOMAIN mHeapsForSz
        THEN [b \in DOMAIN mHeapsForSz |->
                 IF b = BucketOf(n) /\ ~mHeapsForSz[b].made THEN made[b]
                                                            ELSE mHeapsForSz[b]]
        ELSE [b \in DOMAIN mHeapsForSz \cup DOMAIN made |->
                 IF b \in DOMAIN made THEN made[b] ELSE mHeapsForSz[b]]

(* FixedSizeHeapImpl::replenish cuts a big block from its beginning; what is
   left at the end and too short is never used.                             *)
MutChop(big, sz) ==
    [i \in 1 .. MAX_ALLOC_SIZE \div sz + 1 |->
        [big |-> big, beg |-> (i - 1) * sz, end |-> i * sz]]
Chop(big, sz) ==
    [i \in 1 .. MAX_ALLOC_SIZE \div sz |->
        [big |-> big, beg |-> (i - 1) * sz, end |-> i * sz]]

(* FixedSizeHeapImpl::allocate on the heap of bucket b of heaps: the block
   freed last, or the last one of a new big block.                          *)
Offered(heaps, b) ==
    IF heaps[b].mFreeBlocks # <<>>
    THEN {Last(heaps[b].mFreeBlocks)}
    ELSE {Last(Chop(big, heaps[b].mAllocSz)) : big \in BigBlocks \ hsaBlocks}

HeapAllocate(heaps, b, blk) ==
    /\ blk \in Offered(heaps, b)
    /\ IF heaps[b].mFreeBlocks # <<>>
       THEN /\ mHeapsForSz' = [heaps EXCEPT ![b].mFreeBlocks = Front(@)]
            /\ UNCHANGED hsaBlocks
       ELSE /\ mHeapsForSz' = [heaps EXCEPT
                   ![b].mFreeBlocks = Front(Chop(blk.big, heaps[b].mAllocSz)),
                   ![b].mBigBlocks = @ \cup {blk.big}]
            /\ hsaBlocks' = hsaBlocks \cup {blk.big}
    /\ given' = given \cup {blk}

(* KernArgHeap::allocate; nothing is taken for a kernel without arguments.  *)
Allocate(n) ==
    /\ n > 0
    /\ \E blk \in Offered(HeapForSize(n), BucketOf(n)) :
          HeapAllocate(HeapForSize(n), BucketOf(n), blk)

(* KernArgHeap::deallocate and FixedSizeHeapImpl::deallocate: the block is
   pushed on the stack of the heap of its size, unchecked.                  *)
Deallocate(blk) ==
    /\ blk \in given
    /\ mHeapsForSz' = [HeapForSize(SizeOf(blk)) EXCEPT
                          ![BucketOf(SizeOf(blk))].mFreeBlocks = Append(@, blk)]
    /\ given' = given \ {blk}
    /\ UNCHANGED hsaBlocks

(* ~KernArgHeap deletes every heap, and a heap returns its big blocks,
   whether or not callers still hold pieces of them.                        *)
DestroyHeaps ==
    /\ hsaBlocks' = hsaBlocks \ UNION {mHeapsForSz[b].mBigBlocks : b \in DOMAIN mHeapsForSz}
    /\ mHeapsForSz' = <<>>
    /\ given' = {}

-----------------------------------------------------------------------------
Bytes(blk) == {<<blk.big, i>> : i \in blk.beg .. blk.end - 1}
FreeBlocks == UNION {Range(mHeapsForSz[b].mFreeBlocks) : b \in DOMAIN mHeapsForSz}

(* No byte belongs to two blocks, whether callers hold them or the free
   lists do, a block is on a free list once, it lies in a big block that HSA
   has not got back, and callers' blocks are on no free list, until the heap
   is destroyed.  One level of cutting, one stack per size and the unchecked return must keep this
   (Heap.h:56-117, memory.h:205-245).                                       *)
BlocksApart ==
    LET free == (DOMAIN mHeapsForSz) \X (1 .. MAX_ALLOC_SIZE)
        slots == {s \in free : s[2] <= Len(mHeapsForSz[s[1]].mFreeBlocks)}
        blk(s) == mHeapsForSz[s[1]].mFreeBlocks[s[2]]
    IN  /\ \A s, t \in slots : s # t => Bytes(blk(s)) \cap Bytes(blk(t)) = {}
        /\ \A g, h \in given : g # h => Bytes(g) \cap Bytes(h) = {}
        /\ \A g \in given, s \in slots : Bytes(g) \cap Bytes(blk(s)) = {}
        /\ \A x \in given \cup FreeBlocks :
              /\ x.big \in hsaBlocks
              /\ x.end <= MAX_ALLOC_SIZE
              /\ x.beg % MIN_ALLOC_SIZE = 0

-----------------------------------------------------------------------------
(* The inductive invariant of the heap, of the heaps H, the big blocks hs    *)
(* got from HSA and the blocks held by callers.  Every block is a piece of a *)
(* big block: it begins at a multiple of MIN_ALLOC_SIZE and has the size of  *)
(* its bucket, which is what lets deallocate find the heap it came from.     *)
Heaps == [made: BOOLEAN, mAllocSz: 0 .. MAX_ALLOC_SIZE,
          mFreeBlocks: Seq(Blocks), mBigBlocks: SUBSET BigBlocks]

Piece(x, b, hs) ==
    /\ b \in 1 .. NUM_BUCKETS
    /\ x \in Blocks
    /\ x.big \in hs
    /\ x.beg % MIN_ALLOC_SIZE = 0
    /\ x.end = x.beg + b * MIN_ALLOC_SIZE

Apart(x, y) == x.big = y.big => x.end <= y.beg \/ y.end <= x.beg

HeapOK(H, hs, held) ==
    /\ DOMAIN H \subseteq 0 .. NUM_BUCKETS
    /\ hs \subseteq BigBlocks
    /\ \A b \in DOMAIN H :
          /\ H[b] \in Heaps
          /\ IF H[b].made THEN H[b].mAllocSz = b * MIN_ALLOC_SIZE
                          ELSE H[b].mFreeBlocks = <<>>
          /\ \A i \in 1 .. Len(H[b].mFreeBlocks) : Piece(H[b].mFreeBlocks[i], b, hs)
    /\ \A g \in held : \E b \in 1 .. NUM_BUCKETS : Piece(g, b, hs)
    /\ \A b, c \in DOMAIN H :
          \A i \in 1 .. Len(H[b].mFreeBlocks), j \in 1 .. Len(H[c].mFreeBlocks) :
             b # c \/ i # j => Apart(H[b].mFreeBlocks[i], H[c].mFreeBlocks[j])
    /\ \A g, h \in held : g # h => Apart(g, h)
    /\ \A g \in held, b \in DOMAIN H :
          \A i \in 1 .. Len(H[b].mFreeBlocks) : Apart(g, H[b].mFreeBlocks[i])

HeapInv == HeapOK(mHeapsForSz, hsaBlocks, given)
=============================================================================
