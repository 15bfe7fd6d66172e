---------------------------- MODULE ResourcePool ----------------------------
(***************************************************************************)
(* cpputils' pool of objects made by a factory, BATCH_SIZE at a time, and   *)
(* reused last in, first out.  dagr keeps HSA signals and queues in such    *)
(* pools.  Objects are numbered in the order in which they are created.     *)
(***************************************************************************)
EXTENDS Integers, SequencesExt

CONSTANT BATCH_SIZE         \* 8 queues, 16 * 4096 user signals in the code

VARIABLES
    mResPool,               \* the vector of objects at hand
    created                 \* objects the factory has made and not destroyed

(* replenish: only called when the pool is empty.                           *)
Batch(n) == [i \in 1 .. BATCH_SIZE |-> n + i]

(* The constructor fills the pool.                                          *)
PoolInit ==
    /\ mResPool = Batch(0)
    /\ created = BATCH_SIZE

(* allocate: from the back, after filling an empty pool.  The pool, the
   objects made so far and the objects taken, before and after.             *)
MutTakeOne(st) ==
    LET pool == IF st.pool = <<>> THEN Batch(st.made) ELSE st.pool
    IN  [pool |-> pool,
         made |-> IF st.pool = <<>> THEN st.made + BATCH_SIZE ELSE st.made,
         got  |-> Append(st.got, Last(pool))]
TakeOne(st) ==
    LET pool == IF st.pool = <<>> THEN Batch(st.made) ELSE st.pool
    IN  [pool |-> Front(pool),
         made |-> IF st.pool = <<>> THEN st.made + BATCH_SIZE ELSE st.made,
         got  |-> Append(st.got, Last(pool))]

(* k objects in turn, as the constructor of an executor takes its queues.   *)
Taken(k) ==
    LET st[i \in 0 .. k] ==
            IF i = 0 THEN [pool |-> mResPool, made |-> created, got |-> <<>>]
                     ELSE TakeOne(st[i - 1])
    IN  st[k]

PoolAllocate(k, objs) ==
    /\ objs = Taken(k).got
    /\ mResPool' = Taken(k).pool
    /\ created' = Taken(k).made

(* deallocate, for each object of a sequence.                               *)
PoolDeallocate(objs) ==
    /\ mResPool' = mResPool \o objs
    /\ UNCHANGED created

(* The destructor destroys the objects at hand, and no other.               *)
PoolDestroy ==
    /\ mResPool' = <<>>
    /\ created' = created - Len(mResPool)
=============================================================================
