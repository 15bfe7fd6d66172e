------------------------- MODULE GpuResourcesProofs -------------------------
(***************************************************************************)
(* Proofs about the resources the executors of a GPU share, for every       *)
(* program, every size of heap and pool: the blocks of the argument heap    *)
(* are apart and tasks have room in them, a queue is in one place, and no   *)
(* signal is lent twice.  First the pools and the heap, each with no        *)
(* variables, then the invariant of the whole resource.  Last, the device   *)
(* memory of Buffers:                                                       *)
(* what a sum is, how the blocks of a slot lie, and the invariant.          *)
(***************************************************************************)
EXTENDS GpuResources, Buffers, FiniteSetTheorems, ListLemmas, TLAPS

-----------------------------------------------------------------------------
(* The pools.  TakeFrom is TakeOne of a pool whose batches have B objects,  *)
(* and Run the states of a pool from which k objects are taken in turn.     *)
NextBatch(B, n) == [i \in 1 .. B |-> n + i]

TakeFrom(B, st) ==
    LET pool == IF st.pool = <<>> THEN NextBatch(B, st.made) ELSE st.pool
    IN  [pool |-> Front(pool),
         made |-> IF st.pool = <<>> THEN st.made + B ELSE st.made,
         got  |-> Append(st.got, Last(pool))]

Run(B, p, m, k, f) ==
    f = [i \in 0 .. k |->
            IF i = 0 THEN [pool |-> p, made |-> m, got |-> <<>>]
                     ELSE TakeFrom(B, f[i - 1])]

(* What one object taken changes, and what it does not: the objects at hand *)
(* and those taken are all different, and are those the pool had, with      *)
(* those made since.                                                        *)
FairShare(p, m, st, i) ==
    /\ st \in [pool: Seq(Nat), made: Nat, got: Seq(Nat)]
    /\ m <= st.made
    /\ Len(st.got) = i
    /\ IsInjective(st.pool)
    /\ IsInjective(st.got)
    /\ Range(st.pool) \cap Range(st.got) = {}
    /\ Range(st.pool) \cup Range(st.got) = Range(p) \cup ((m + 1) .. st.made)

LEMMA TakeFromShare ==
  ASSUME NEW B \in Nat \ {0}, NEW p \in Seq(Nat), NEW m \in Nat,
         Range(p) \subseteq 1..m,
         NEW st, NEW i \in Nat, FairShare(p, m, st, i)
  PROVE  FairShare(p, m, TakeFrom(B, st), i + 1)
<1> DEFINE pool == IF st.pool = <<>> THEN NextBatch(B, st.made) ELSE st.pool
           made == IF st.pool = <<>> THEN st.made + B ELSE st.made
           new == [pool |-> Front(pool), made |-> made, got |-> Append(st.got, Last(pool))]
<1>1. /\ st \in [pool: Seq(Nat), made: Nat, got: Seq(Nat)]
      /\ m <= st.made
      /\ Len(st.got) = i
      /\ IsInjective(st.pool)
      /\ IsInjective(st.got)
      /\ Range(st.pool) \cap Range(st.got) = {}
      /\ Range(st.pool) \cup Range(st.got) = Range(p) \cup ((m + 1) .. st.made)
  BY DEF FairShare
<1>2. st.pool \in Seq(Nat) /\ st.made \in Nat /\ st.got \in Seq(Nat)
  BY <1>1
<1>3. /\ pool \in Seq(Nat) /\ pool # <<>> /\ IsInjective(pool)
      /\ Range(pool) \cap Range(st.got) = {}
      /\ made \in Nat /\ m <= made
      /\ Range(pool) \cup Range(st.got) = Range(p) \cup ((m + 1) .. made)
  <2>1. CASE st.pool = <<>>
    <3> DEFINE batch == NextBatch(B, st.made)
    <3>1. pool = batch /\ made = st.made + B
      BY <2>1
    <3>2. /\ batch \in Seq(Nat) /\ batch # <<>>
          /\ DOMAIN batch = 1..B
          /\ \A j \in 1..B : batch[j] = st.made + j
      <4>1. batch \in [1..B -> Nat] /\ batch = [j \in 1..B |-> st.made + j]
        BY <1>2 DEF NextBatch
      <4>2. DOMAIN batch = 1..B /\ \A j \in 1..B : batch[j] = st.made + j
        BY <4>1
      <4>3. batch \in Seq(Nat)
        BY <4>1
      <4> QED
        BY <4>2, <4>3
    <3> HIDE DEF batch
    <3>3. IsInjective(batch)
      <4>1. \A a, b \in 1..B : st.made + a = st.made + b => a = b
        BY <1>2
      <4>2. \A a, b \in DOMAIN batch : batch[a] = batch[b] => a = b
        BY <3>2, <4>1
      <4> QED
        BY <4>2 DEF IsInjective
    <3>4. Range(batch) = (st.made + 1)..(st.made + B)
      <4>1. \A y \in (st.made + 1)..(st.made + B) : y - st.made \in 1..B /\ batch[y - st.made] = y
        BY <3>2, <1>2, SMTT(30)
      <4> QED
        BY <4>1, <3>2, <1>2 DEF Range
    <3>5. Range(st.pool) = {}
      BY <2>1 DEF Range
    <3>6. Range(st.got) \subseteq 1..st.made
      BY <3>5, <1>1, <1>2
    <3>7. Range(batch) \cap Range(st.got) = {}
      BY <3>4, <3>6, <1>2
    <3>8. (m + 1)..made = ((m + 1)..st.made) \cup ((st.made + 1)..(st.made + B))
      BY <3>1, <1>1, <1>2
    <3>9. Range(batch) \cup Range(st.got) = Range(p) \cup ((m + 1)..made)
      BY <3>4, <3>5, <3>8, <1>1
    <3>10. made \in Nat /\ m <= made
      BY <3>1, <1>1, <1>2
    <3> QED
      BY <3>1, <3>2, <3>3, <3>7, <3>9, <3>10
  <2>2. CASE st.pool # <<>>
    <3>1. pool = st.pool /\ made = st.made
      BY <2>2
    <3> HIDE DEF pool, made
    <3> QED
      BY <3>1, <2>2, <1>1, <1>2
  <2> QED
    BY <2>1, <2>2
<1>4. TakeFrom(B, st) = new
  BY DEF TakeFrom
<1> HIDE DEF pool, made
<1>5. /\ Front(pool) \in Seq(Nat) /\ Last(pool) \in Nat
      /\ Range(pool) = Range(Front(pool)) \cup {Last(pool)}
      /\ IsInjective(Front(pool)) /\ Last(pool) \notin Range(Front(pool))
  BY <1>3, FrontProperties, InjectiveFront
<1>6. Last(pool) \notin Range(st.got)
  BY <1>3, <1>5
<1>7. /\ Append(st.got, Last(pool)) \in Seq(Nat)
      /\ Len(Append(st.got, Last(pool))) = i + 1
      /\ IsInjective(Append(st.got, Last(pool)))
      /\ Range(Append(st.got, Last(pool))) = Range(st.got) \cup {Last(pool)}
  <2> DEFINE x == Last(pool)
             got == st.got
  <2>1. x \in Nat /\ got \in Seq(Nat) /\ IsInjective(got) /\ x \notin Range(got) /\ Len(got) = i
    BY <1>1, <1>2, <1>5, <1>6
  <2> HIDE DEF x, got
  <2>2. IsInjective(Append(got, x))
    BY <2>1, InjectiveAppend
  <2>3. /\ Append(got, x) \in Seq(Nat)
        /\ Len(Append(got, x)) = i + 1
        /\ Range(Append(got, x)) = Range(got) \cup {x}
    BY <2>1, AppendLastRange
  <2> QED
    BY <2>2, <2>3 DEF x, got
<1>8. Range(Front(pool)) \cap (Range(st.got) \cup {Last(pool)}) = {}
  BY <1>3, <1>5
<1>9. Range(Front(pool)) \cup (Range(st.got) \cup {Last(pool)}) = Range(p) \cup ((m + 1)..made)
  BY <1>3, <1>5
<1>10. /\ new \in [pool: Seq(Nat), made: Nat, got: Seq(Nat)]
       /\ new.pool = Front(pool) /\ new.made = made /\ new.got = Append(st.got, Last(pool))
  BY <1>3, <1>5, <1>7
<1> HIDE DEF new
<1> QED
  BY <1>3, <1>4, <1>5, <1>7, <1>8, <1>9, <1>10 DEF FairShare

(* A recursive function is the function it says: there is one.              *)
LEMMA RunExists ==
  ASSUME NEW B, NEW p, NEW m, NEW k \in Nat
  PROVE  \E f : Run(B, p, m, k, f)
<1> DEFINE S == {n \in Nat : \E f : Run(B, p, m, n, f)}
<1>1. 0 \in S
  <2> DEFINE g == [i \in 0..0 |-> [pool |-> p, made |-> m, got |-> <<>>]]
  <2>1. Run(B, p, m, 0, g)
    BY DEF Run
  <2> QED
    BY <2>1
<1>2. ASSUME NEW n \in S
      PROVE  n + 1 \in S
  <2>1. PICK f : Run(B, p, m, n, f)
    OBVIOUS
  <2> DEFINE g == [i \in 0..(n + 1) |-> IF i = n + 1 THEN TakeFrom(B, f[n]) ELSE f[i]]
  <2>2. \A i \in 0..n : f[i] = IF i = 0 THEN [pool |-> p, made |-> m, got |-> <<>>]
                                       ELSE TakeFrom(B, f[i - 1])
    BY <2>1 DEF Run
  <2>3. \A i \in 0..(n + 1) : g[i] = IF i = 0 THEN [pool |-> p, made |-> m, got |-> <<>>]
                                             ELSE TakeFrom(B, g[i - 1])
    BY <2>2
  <2>4. g = [i \in 0..(n + 1) |-> IF i = 0 THEN [pool |-> p, made |-> m, got |-> <<>>]
                                         ELSE TakeFrom(B, g[i - 1])]
    <3>1. g = [i \in 0..(n + 1) |-> g[i]]
      OBVIOUS
    <3> HIDE DEF g
    <3> QED
      BY <2>3, <3>1
  <2>5. Run(B, p, m, n + 1, g)
    BY <2>4 DEF Run
  <2> HIDE DEF g
  <2> QED
    BY <2>5
<1>3. S = Nat
  <2>1. S \in SUBSET Nat
    OBVIOUS
  <2> HIDE DEF S
  <2> QED
    BY <1>1, <1>2, <2>1, NatSetInduction
<1> QED
  BY <1>3

(* Whatever is taken from a pool of different objects, in any number.       *)
LEMMA RunShares ==
  ASSUME NEW B \in Nat \ {0}, NEW p \in Seq(Nat), NEW m \in Nat,
         IsInjective(p), Range(p) \subseteq 1..m,
         NEW k \in Nat, NEW f, Run(B, p, m, k, f)
  PROVE  FairShare(p, m, f[k], k)
<1> DEFINE S == {n \in Nat : n <= k => FairShare(p, m, f[n], n)}
<1>1. 0 \in S
  <2>1. f[0] = [pool |-> p, made |-> m, got |-> <<>>]
    BY DEF Run
  <2>2. <<>> \in Seq(Nat) /\ Len(<<>>) = 0 /\ DOMAIN <<>> = {}
    OBVIOUS
  <2>3. Range(<<>>) = {} /\ IsInjective(<<>>)
    BY <2>2 DEF Range, IsInjective
  <2>4. (m + 1)..m = {}
    OBVIOUS
  <2>5. FairShare(p, m, f[0], 0)
    BY <2>1, <2>2, <2>3, <2>4 DEF FairShare
  <2> QED
    BY <2>5
<1>2. ASSUME NEW n \in S
      PROVE  n + 1 \in S
  <2> SUFFICES ASSUME n + 1 <= k
               PROVE  FairShare(p, m, f[n + 1], n + 1)
    OBVIOUS
  <2>1. FairShare(p, m, f[n], n)
    OBVIOUS
  <2>2. f[n + 1] = TakeFrom(B, f[n])
    <3>1. n + 1 \in 0..k /\ n + 1 # 0 /\ n + 1 - 1 = n
      OBVIOUS
    <3> QED
      BY <3>1 DEF Run
  <2> QED
    BY <2>1, <2>2, TakeFromShare
<1>3. S = Nat
  <2>1. S \in SUBSET Nat
    OBVIOUS
  <2> HIDE DEF S
  <2> QED
    BY <1>1, <1>2, <2>1, NatSetInduction
<1> QED
  BY <1>3

(* The two pools of the resource.                                           *)
LEMMA QueuesTaken ==
  ASSUME NEW k \in Nat, queuePool \in Seq(Nat), queuesMade \in Nat,
         IsInjective(queuePool), Range(queuePool) \subseteq 1..queuesMade
  PROVE  FairShare(queuePool, queuesMade, Queues!Taken(k), k)
<1>1. PICK f : Run(QBatch, queuePool, queuesMade, k, f)
  BY RunExists
<1> DEFINE st == CHOOSE g : Run(QBatch, queuePool, queuesMade, k, g)
<1>2. Run(QBatch, queuePool, queuesMade, k, st)
  BY <1>1
<1>3. Queues!Taken(k) = st[k]
  BY DEF Run, TakeFrom, NextBatch, Front, Last, Queues!Taken, Queues!TakeOne, Queues!Batch,
         Queues!Front, Queues!Last
<1> HIDE DEF st
<1> QED
  BY <1>2, <1>3, RunShares, PoolAssumption

LEMMA SignalsTaken ==
  ASSUME NEW k \in Nat, sigPool \in Seq(Nat), sigsMade \in Nat,
         IsInjective(sigPool), Range(sigPool) \subseteq 1..sigsMade
  PROVE  FairShare(sigPool, sigsMade, Signals!Taken(k), k)
<1>1. PICK f : Run(SBatch, sigPool, sigsMade, k, f)
  BY RunExists
<1> DEFINE st == CHOOSE g : Run(SBatch, sigPool, sigsMade, k, g)
<1>2. Run(SBatch, sigPool, sigsMade, k, st)
  BY <1>1
<1>3. Signals!Taken(k) = st[k]
  BY DEF Run, TakeFrom, NextBatch, Front, Last, Signals!Taken, Signals!TakeOne, Signals!Batch,
         Signals!Front, Signals!Last
<1> HIDE DEF st
<1> QED
  BY <1>2, <1>3, RunShares, PoolAssumption

-----------------------------------------------------------------------------
(* The heap.  A request is served by the heap of the bucket it is rounded   *)
(* up to, and no other size has that bucket.                                *)
LEMMA BigBlockSize ==
  /\ NUM_BUCKETS \in Nat \ {0}
  /\ NUM_BUCKETS * MIN_ALLOC_SIZE = MAX_ALLOC_SIZE
<1>1. /\ MIN_ALLOC_SIZE \in Nat \ {0} /\ MAX_ALLOC_SIZE \in Nat \ {0}
      /\ MAX_ALLOC_SIZE % MIN_ALLOC_SIZE = 0
  BY HeapAssumption
<1>2. /\ MAX_ALLOC_SIZE \div MIN_ALLOC_SIZE \in Nat
      /\ MAX_ALLOC_SIZE = MIN_ALLOC_SIZE * (MAX_ALLOC_SIZE \div MIN_ALLOC_SIZE)
                          + (MAX_ALLOC_SIZE % MIN_ALLOC_SIZE)
  BY <1>1, DivMod
<1> QED
  BY <1>1, <1>2 DEF NUM_BUCKETS

LEMMA Buckets ==
  ASSUME NEW n \in 0..MAX_ALLOC_SIZE
  PROVE  /\ RoundUp(n) \in 0..MAX_ALLOC_SIZE
         /\ n <= RoundUp(n)
         /\ BucketOf(n) \in 0..NUM_BUCKETS
         /\ RoundUp(n) = BucketOf(n) * MIN_ALLOC_SIZE
         /\ n > 0 => BucketOf(n) \in 1..NUM_BUCKETS
<1> DEFINE d == MIN_ALLOC_SIZE
           q == (n + d - 1) \div d
<1>1. d \in Nat \ {0} /\ MAX_ALLOC_SIZE \in Nat /\ n \in Nat /\ n <= MAX_ALLOC_SIZE
  BY HeapAssumption
<1>2. /\ q * d \in Nat /\ n <= q * d /\ q * d < n + d
      /\ (q * d) \div d = q
  BY <1>1, UpToMultiple
<1>3. n + d - 1 \in Nat
  BY <1>1
<1>4. q \in Nat
  BY <1>1, <1>3, DivMod
<1>5. RoundUp(n) = q * d
  BY DEF RoundUp
<1>6. BucketOf(n) = q
  BY <1>2, <1>5 DEF BucketOf
<1> HIDE DEF q, d
<1>7. q * d < (NUM_BUCKETS + 1) * d
  <2>1. (NUM_BUCKETS + 1) * d = MAX_ALLOC_SIZE + d
    BY BigBlockSize, <1>1 DEF d
  <2> QED
    BY <1>1, <1>2, <2>1
<1>8. q < NUM_BUCKETS + 1
  BY <1>1, <1>4, <1>7, BigBlockSize, MulLess
<1>9. q \in 0..NUM_BUCKETS
  BY <1>4, <1>8, BigBlockSize
<1>10. q * d <= MAX_ALLOC_SIZE
  <2>1. q * d <= NUM_BUCKETS * d
    BY <1>1, <1>4, <1>9, BigBlockSize, MulMono
  <2> QED
    BY <2>1, BigBlockSize DEF d
<1>11. n > 0 => q # 0
  BY <1>1, <1>2
<1> QED
  BY <1>1, <1>2, <1>5, <1>6, <1>9, <1>10, <1>11, BigBlockSize DEF d

LEMMA BucketOfPiece ==
  ASSUME NEW b \in 1..NUM_BUCKETS
  PROVE  /\ b * MIN_ALLOC_SIZE \in 1..MAX_ALLOC_SIZE
         /\ BucketOf(b * MIN_ALLOC_SIZE) = b
<1> DEFINE d == MIN_ALLOC_SIZE
           n == b * d
           q == (n + d - 1) \div d
<1>1. d \in Nat \ {0} /\ b \in Nat \ {0} /\ b <= NUM_BUCKETS /\ NUM_BUCKETS \in Nat
  BY HeapAssumption, BigBlockSize
<1>2. n \in Nat \ {0}
  BY <1>1
<1>3. n <= NUM_BUCKETS * d
  BY <1>1, MulMono
<1>4. /\ q * d \in Nat /\ n <= q * d /\ q * d < n + d
      /\ (q * d) \div d = q
  BY <1>1, <1>2, UpToMultiple
<1>5. q \in Nat
  <2>1. n + d - 1 \in Nat
    BY <1>1, <1>2
  <2> HIDE DEF d, n
  <2> QED
    BY <1>1, <2>1, DivMod
<1>6. BucketOf(n) = q
  BY <1>4 DEF BucketOf, RoundUp
<1> HIDE DEF q
<1>7. q < b + 1
  <2>1. q * d < (b + 1) * d
    BY <1>1, <1>4
  <2> HIDE DEF d, n
  <2> QED
    BY <1>1, <1>5, <2>1, MulLess
<1>8. ~ (q < b)
  <2> SUFFICES ASSUME q < b
               PROVE  FALSE
    OBVIOUS
  <2>1. q + 1 <= b /\ q + 1 \in Nat
    BY <1>1, <1>5
  <2>2. (q + 1) * d <= b * d
    <3> HIDE DEF d, n
    <3> QED
      BY <1>1, <2>1, MulMono
  <2>3. (q + 1) * d = q * d + d
    BY <1>1, <1>5
  <2> QED
    BY <1>1, <1>2, <1>4, <2>2, <2>3
<1>9. q = b
  BY <1>1, <1>5, <1>7, <1>8
<1>10. n \in 1..MAX_ALLOC_SIZE
  BY <1>2, <1>3, BigBlockSize, HeapAssumption
<1> QED
  BY <1>6, <1>9, <1>10

(* heapForSize only adds an empty heap, where there was none.               *)
NewHeap(n) == [made |-> TRUE, mAllocSz |-> RoundUp(n), mFreeBlocks |-> <<>>, mBigBlocks |-> {}]

LEMMA HeapForSizeAdds ==
  ASSUME NEW n
  PROVE  /\ DOMAIN HeapForSize(n) = DOMAIN mHeapsForSz \cup {BucketOf(n)}
         /\ \A b \in DOMAIN HeapForSize(n) :
               \/ b \in DOMAIN mHeapsForSz /\ HeapForSize(n)[b] = mHeapsForSz[b]
               \/ b = BucketOf(n) /\ HeapForSize(n)[b] = NewHeap(n)
         /\ \A b \in DOMAIN mHeapsForSz :
               mHeapsForSz[b].made => HeapForSize(n)[b] = mHeapsForSz[b]
         /\ HeapForSize(n)[BucketOf(n)] = NewHeap(n) \/ HeapForSize(n)[BucketOf(n)].made
<1> DEFINE made == [b \in {BucketOf(n)} |-> [NoHeap EXCEPT !.made = TRUE, !.mAllocSz = RoundUp(n)]]
<1>1. DOMAIN made = {BucketOf(n)} /\ made[BucketOf(n)] = NewHeap(n)
  BY DEF NoHeap, NewHeap
<1> HIDE DEF made
<1>2. HeapForSize(n) =
        IF BucketOf(n) \in DOMAIN mHeapsForSz
        THEN [b \in DOMAIN mHeapsForSz |->
                 IF b = BucketOf(n) /\ ~mHeapsForSz[b].made THEN made[b] ELSE mHeapsForSz[b]]
        ELSE [b \in DOMAIN mHeapsForSz \cup DOMAIN made |->
                 IF b \in DOMAIN made THEN made[b] ELSE mHeapsForSz[b]]
  BY DEF HeapForSize, made
<1>3. CASE BucketOf(n) \in DOMAIN mHeapsForSz
  <2>1. HeapForSize(n) = [b \in DOMAIN mHeapsForSz |->
           IF b = BucketOf(n) /\ ~mHeapsForSz[b].made THEN made[b] ELSE mHeapsForSz[b]]
    BY <1>2, <1>3
  <2>2. DOMAIN HeapForSize(n) = DOMAIN mHeapsForSz
    BY <2>1
  <2>3. \A b \in DOMAIN mHeapsForSz : HeapForSize(n)[b] =
           IF b = BucketOf(n) /\ ~mHeapsForSz[b].made THEN made[b] ELSE mHeapsForSz[b]
    BY <2>1
  <2> QED
    BY <1>1, <1>3, <2>2, <2>3
<1>4. CASE BucketOf(n) \notin DOMAIN mHeapsForSz
  <2>1. HeapForSize(n) = [b \in DOMAIN mHeapsForSz \cup DOMAIN made |->
           IF b \in DOMAIN made THEN made[b] ELSE mHeapsForSz[b]]
    BY <1>2, <1>4
  <2>2. DOMAIN HeapForSize(n) = DOMAIN mHeapsForSz \cup {BucketOf(n)}
    BY <1>1, <2>1
  <2>3. \A b \in DOMAIN mHeapsForSz \cup {BucketOf(n)} : HeapForSize(n)[b] =
           IF b = BucketOf(n) THEN made[b] ELSE mHeapsForSz[b]
    BY <1>1, <2>1
  <2> QED
    BY <1>1, <1>4, <2>2, <2>3
<1> QED
  BY <1>3, <1>4

LEMMA HeapForSizeOK ==
  ASSUME NEW n \in 0..MAX_ALLOC_SIZE, HeapInv
  PROVE  /\ HeapOK(HeapForSize(n), hsaBlocks, given)
         /\ BucketOf(n) \in DOMAIN HeapForSize(n)
         /\ HeapForSize(n)[BucketOf(n)].made
<1> DEFINE H == HeapForSize(n)
           G == mHeapsForSz
           k == BucketOf(n)
           F(b) == H[b].mFreeBlocks
<1>1. /\ DOMAIN H = DOMAIN G \cup {k}
      /\ \A b \in DOMAIN H : \/ b \in DOMAIN G /\ H[b] = G[b]
                             \/ b = k /\ H[b] = NewHeap(n)
      /\ H[k] = NewHeap(n) \/ H[k].made
  BY HeapForSizeAdds
<1>2. /\ RoundUp(n) \in 0..MAX_ALLOC_SIZE /\ k \in 0..NUM_BUCKETS
      /\ RoundUp(n) = k * MIN_ALLOC_SIZE
  BY Buckets
<1>3. /\ NewHeap(n) \in Heaps
      /\ NewHeap(n).made /\ NewHeap(n).mAllocSz = RoundUp(n)
      /\ NewHeap(n).mFreeBlocks = <<>>
  BY <1>2 DEF NewHeap, Heaps
<1>4. HeapOK(G, hsaBlocks, given)
  BY DEF HeapInv
<1> HIDE DEF H, G, k
<1>5. DOMAIN H \subseteq 0..NUM_BUCKETS /\ hsaBlocks \subseteq BigBlocks
  BY <1>1, <1>2, <1>4 DEF HeapOK
<1>6. ASSUME NEW b \in DOMAIN H, NEW i \in 1..Len(F(b))
      PROVE  b \in DOMAIN G /\ H[b] = G[b] /\ i \in 1..Len(G[b].mFreeBlocks)
  <2>1. F(b) # <<>>
    <3>1. CASE F(b) = <<>>
      <4>1. Len(F(b)) = 0
        BY <3>1
      <4> QED
        BY <4>1
    <3> QED
      BY <3>1
  <2> QED
    BY <1>1, <1>3, <2>1
<1>7. ASSUME NEW b \in DOMAIN H
      PROVE  /\ H[b] \in Heaps
             /\ IF H[b].made THEN H[b].mAllocSz = b * MIN_ALLOC_SIZE ELSE H[b].mFreeBlocks = <<>>
             /\ \A i \in 1..Len(F(b)) : Piece(F(b)[i], b, hsaBlocks)
  <2>1. CASE b \in DOMAIN G /\ H[b] = G[b]
    BY <1>4, <2>1 DEF HeapOK
  <2>2. CASE b = k /\ H[b] = NewHeap(n)
    <3>1. \A i \in 1..Len(F(b)) : FALSE
      <4>1. Len(F(b)) = 0
        BY <1>3, <2>2
      <4> QED
        BY <4>1
    <3> QED
      BY <1>2, <1>3, <2>2, <3>1
  <2> QED
    BY <1>1, <2>1, <2>2
<1>8. \A g \in given : \E b \in 1..NUM_BUCKETS : Piece(g, b, hsaBlocks)
  BY <1>4 DEF HeapOK
<1>9. ASSUME NEW b \in DOMAIN H, NEW c \in DOMAIN H, NEW i \in 1..Len(F(b)), NEW j \in 1..Len(F(c)),
             b # c \/ i # j
      PROVE  Apart(F(b)[i], F(c)[j])
  <2>1. /\ b \in DOMAIN G /\ H[b] = G[b] /\ i \in 1..Len(G[b].mFreeBlocks)
        /\ c \in DOMAIN G /\ H[c] = G[c] /\ j \in 1..Len(G[c].mFreeBlocks)
    BY <1>6
  <2>2. Apart(G[b].mFreeBlocks[i], G[c].mFreeBlocks[j])
    BY <1>4, <1>9, <2>1 DEF HeapOK
  <2> QED
    BY <2>1, <2>2
<1>10. \A g, h \in given : g # h => Apart(g, h)
  BY <1>4 DEF HeapOK
<1>11. ASSUME NEW g \in given, NEW b \in DOMAIN H, NEW i \in 1..Len(F(b))
       PROVE  Apart(g, F(b)[i])
  <2>1. b \in DOMAIN G /\ H[b] = G[b] /\ i \in 1..Len(G[b].mFreeBlocks)
    BY <1>6
  <2>2. Apart(g, G[b].mFreeBlocks[i])
    BY <1>4, <2>1 DEF HeapOK
  <2> QED
    BY <2>1, <2>2
<1>12. HeapOK(H, hsaBlocks, given)
  BY <1>5, <1>7, <1>8, <1>9, <1>10, <1>11, Zenon DEF HeapOK
<1>13. k \in DOMAIN H /\ H[k].made
  BY <1>1, <1>3
<1> QED
  BY <1>12, <1>13 DEF H, k

(* A step of the heap changes one free list, the blocks held, and perhaps   *)
(* what HSA handed out: the conditions under which the invariant survives.  *)
LEMMA ApartSymmetric ==
  ASSUME NEW x, NEW y, Apart(x, y)
  PROVE  Apart(y, x)
BY DEF Apart

LEMMA PieceStays ==
  ASSUME NEW x, NEW b, NEW hs, NEW hs2, hs \subseteq hs2, Piece(x, b, hs)
  PROVE  Piece(x, b, hs2)
BY DEF Piece

OnlyHeap(H, hs, H2, hs2, b) ==
    /\ b \in DOMAIN H
    /\ DOMAIN H2 = DOMAIN H
    /\ \A c \in DOMAIN H : c # b => H2[c] = H[c]
    /\ H2[b] \in Heaps
    /\ H2[b].made
    /\ H2[b].mAllocSz = b * MIN_ALLOC_SIZE
    /\ hs \subseteq hs2
    /\ hs2 \subseteq BigBlocks

FreeListFits(H, hs2, b, F) ==
    /\ \A i \in 1..Len(F) : Piece(F[i], b, hs2)
    /\ \A i, j \in 1..Len(F) : i # j => Apart(F[i], F[j])
    /\ \A i \in 1..Len(F), c \in DOMAIN H : c # b =>
          \A j \in 1..Len(H[c].mFreeBlocks) : Apart(F[i], H[c].mFreeBlocks[j])

HeldFits(H, hs2, held2, b, F) ==
    /\ \A g \in held2 : \E c \in 1..NUM_BUCKETS : Piece(g, c, hs2)
    /\ \A g, h \in held2 : g # h => Apart(g, h)
    /\ \A g \in held2, i \in 1..Len(F) : Apart(g, F[i])
    /\ \A g \in held2, c \in DOMAIN H : c # b =>
          \A j \in 1..Len(H[c].mFreeBlocks) : Apart(g, H[c].mFreeBlocks[j])

LEMMA FreeListChange ==
  ASSUME NEW H, NEW hs, NEW held, HeapOK(H, hs, held),
         NEW H2, NEW hs2, NEW held2, NEW b, NEW F, F = H2[b].mFreeBlocks,
         OnlyHeap(H, hs, H2, hs2, b),
         FreeListFits(H, hs2, b, F),
         HeldFits(H, hs2, held2, b, F)
  PROVE  HeapOK(H2, hs2, held2)
<1> USE DEF OnlyHeap, FreeListFits, HeldFits
<1>1. DOMAIN H2 \subseteq 0..NUM_BUCKETS
  BY DEF HeapOK
<1>2. ASSUME NEW c \in DOMAIN H2
      PROVE  /\ H2[c] \in Heaps
             /\ IF H2[c].made THEN H2[c].mAllocSz = c * MIN_ALLOC_SIZE ELSE H2[c].mFreeBlocks = <<>>
             /\ \A i \in 1..Len(H2[c].mFreeBlocks) : Piece(H2[c].mFreeBlocks[i], c, hs2)
  <2>1. CASE c = b
    BY <2>1
  <2>2. CASE c # b
    <3>1. H2[c] = H[c] /\ c \in DOMAIN H
      BY <2>2
    <3>2. /\ H[c] \in Heaps
          /\ IF H[c].made THEN H[c].mAllocSz = c * MIN_ALLOC_SIZE ELSE H[c].mFreeBlocks = <<>>
          /\ \A i \in 1..Len(H[c].mFreeBlocks) : Piece(H[c].mFreeBlocks[i], c, hs)
      BY <3>1 DEF HeapOK
    <3>3. \A i \in 1..Len(H[c].mFreeBlocks) : Piece(H[c].mFreeBlocks[i], c, hs2)
      BY <3>2, PieceStays
    <3> QED
      BY <3>1, <3>2, <3>3
  <2> QED
    BY <2>1, <2>2
<1>3. ASSUME NEW c \in DOMAIN H2, NEW d \in DOMAIN H2,
             NEW i \in 1..Len(H2[c].mFreeBlocks), NEW j \in 1..Len(H2[d].mFreeBlocks),
             c # d \/ i # j
      PROVE  Apart(H2[c].mFreeBlocks[i], H2[d].mFreeBlocks[j])
  <2>1. CASE c = b /\ d = b
    BY <1>3, <2>1
  <2>2. CASE c = b /\ d # b
    <3>1. H2[d] = H[d]
      BY <2>2
    <3> QED
      BY <2>2, <3>1
  <2>3. CASE c # b /\ d = b
    <3>1. H2[c] = H[c]
      BY <2>3
    <3>2. Apart(H2[d].mFreeBlocks[j], H2[c].mFreeBlocks[i])
      BY <2>3, <3>1
    <3> QED
      BY <3>2, ApartSymmetric
  <2>4. CASE c # b /\ d # b
    <3>1. H2[c] = H[c] /\ H2[d] = H[d]
      BY <2>4
    <3> QED
      BY <1>3, <3>1 DEF HeapOK
  <2> QED
    BY <2>1, <2>2, <2>3, <2>4
<1>4. ASSUME NEW g \in held2, NEW c \in DOMAIN H2, NEW i \in 1..Len(H2[c].mFreeBlocks)
      PROVE  Apart(g, H2[c].mFreeBlocks[i])
  <2>1. CASE c = b
    BY <2>1
  <2>2. CASE c # b
    BY <2>2
  <2> QED
    BY <2>1, <2>2
<1> QED
  BY <1>1, <1>2, <1>3, <1>4, Zenon DEF HeapOK

(* A block blk of bucket b was taken: the heaps H2, and what HSA handed out. *)
BlockTaken(H, held, H2, hs2, b, blk) ==
    /\ HeapOK(H2, hs2, held \cup {blk})
    /\ DOMAIN H2 = DOMAIN H
    /\ \A c \in DOMAIN H : H2[c].made = H[c].made
    /\ Piece(blk, b, hs2)
    /\ \A g \in held : Apart(g, blk)

(* The block freed last is taken.                                           *)
LEMMA PopOK ==
  ASSUME NEW H, NEW hs, NEW held, HeapOK(H, hs, held),
         NEW b \in DOMAIN H, H[b].mFreeBlocks # <<>>,
         NEW blk, blk = Last(H[b].mFreeBlocks)
  PROVE  BlockTaken(H, held, [H EXCEPT ![b].mFreeBlocks = Front(@)], hs, b, blk)
<1> DEFINE L == H[b].mFreeBlocks
           F == Front(L)
           n == Len(L)
           H2 == [H EXCEPT ![b].mFreeBlocks = Front(@)]
<1>1. /\ H[b] \in Heaps /\ H[b].made /\ H[b].mAllocSz = b * MIN_ALLOC_SIZE
      /\ hs \subseteq BigBlocks
      /\ \A i \in 1..n : Piece(L[i], b, hs)
      /\ \A i, j \in 1..n : i # j => Apart(L[i], L[j])
      /\ \A c \in DOMAIN H : \A i \in 1..n, j \in 1..Len(H[c].mFreeBlocks) :
            c # b => Apart(L[i], H[c].mFreeBlocks[j])
      /\ \A g \in held : \E c \in 1..NUM_BUCKETS : Piece(g, c, hs)
      /\ \A g, h \in held : g # h => Apart(g, h)
      /\ \A g \in held, c \in DOMAIN H :
            \A j \in 1..Len(H[c].mFreeBlocks) : Apart(g, H[c].mFreeBlocks[j])
  BY DEF HeapOK
<1>2. L \in Seq(Blocks) /\ L # <<>>
  BY <1>1 DEF Heaps
<1>3. /\ F \in Seq(Blocks) /\ n \in Nat \ {0} /\ Len(F) = n - 1
      /\ \A i \in 1..(n - 1) : F[i] = L[i]
      /\ blk = L[n]
  BY <1>2, FrontProperties DEF Last
<1>4. /\ DOMAIN H2 = DOMAIN H
      /\ \A c \in DOMAIN H : c # b => H2[c] = H[c]
      /\ H2[b] = [H[b] EXCEPT !.mFreeBlocks = F]
  OBVIOUS
<1>5. /\ H2[b] \in Heaps /\ H2[b].made /\ H2[b].mAllocSz = b * MIN_ALLOC_SIZE
      /\ F = H2[b].mFreeBlocks
  BY <1>1, <1>3, <1>4 DEF Heaps
<1> HIDE DEF L, F, n, H2
<1>6. Piece(blk, b, hs)
  BY <1>1, <1>3
<1>7. \A g \in held : Apart(g, blk)
  BY <1>1, <1>3 DEF L, n
<1>8. b \in 1..NUM_BUCKETS
  BY <1>6 DEF Piece
<1>9. \A i \in 1..Len(F) : i \in 1..n /\ i # n /\ F[i] = L[i]
  BY <1>3
<1>10. \A i \in 1..Len(F) : Piece(F[i], b, hs)
  BY <1>1, <1>9
<1>11. \A i, j \in 1..Len(F) : i # j => Apart(F[i], F[j])
  BY <1>1, <1>9
<1>12. \A i \in 1..Len(F), c \in DOMAIN H : c # b =>
          \A j \in 1..Len(H[c].mFreeBlocks) : Apart(F[i], H[c].mFreeBlocks[j])
  BY <1>1, <1>9
<1>13. \A g \in held \cup {blk} : \E c \in 1..NUM_BUCKETS : Piece(g, c, hs)
  BY <1>1, <1>6, <1>8
<1>14. \A g, h \in held \cup {blk} : g # h => Apart(g, h)
  BY <1>1, <1>7, ApartSymmetric
<1>15. ASSUME NEW g \in held \cup {blk}, NEW i \in 1..Len(F)
       PROVE  Apart(g, F[i])
  <2>1. CASE g \in held
    <3>1. Apart(g, L[i])
      BY <1>1, <1>9, <2>1 DEF L, n
    <3> QED
      BY <1>9, <3>1
  <2>2. CASE g = blk
    <3>1. Apart(L[n], L[i])
      BY <1>1, <1>3, <1>9
    <3> QED
      BY <1>3, <1>9, <2>2, <3>1
  <2> QED
    BY <2>1, <2>2
<1>16. ASSUME NEW g \in held \cup {blk}, NEW c \in DOMAIN H, c # b,
              NEW j \in 1..Len(H[c].mFreeBlocks)
       PROVE  Apart(g, H[c].mFreeBlocks[j])
  <2>1. CASE g \in held
    BY <1>1, <2>1
  <2>2. CASE g = blk
    <3>1. n \in 1..n
      BY <1>3
    <3> QED
      BY <1>1, <1>3, <1>16, <2>2, <3>1
  <2> QED
    BY <2>1, <2>2
<1>17. HeapOK(H2, hs, held \cup {blk})
  <2>1. OnlyHeap(H, hs, H2, hs, b)
    BY <1>1, <1>4, <1>5 DEF OnlyHeap
  <2>2. FreeListFits(H, hs, b, F)
    BY <1>10, <1>11, <1>12 DEF FreeListFits
  <2>3. HeldFits(H, hs, held \cup {blk}, b, F)
    BY <1>13, <1>14, <1>15, <1>16, Zenon DEF HeldFits
  <2> QED
    BY <1>5, <2>1, <2>2, <2>3, FreeListChange
<1>18. \A c \in DOMAIN H : H2[c].made = H[c].made
  BY <1>1, <1>4, <1>5
<1> QED
  BY <1>4, <1>6, <1>7, <1>17, <1>18 DEF H2, BlockTaken

(* A big block is cut into pieces of the size of the bucket.                *)
LEMMA ChopPieces ==
  ASSUME NEW b \in 1..NUM_BUCKETS, NEW big \in BigBlocks, NEW hs, big \in hs
  PROVE  LET L == Chop(big, b * MIN_ALLOC_SIZE)
         IN  /\ L \in Seq(Blocks) /\ L # <<>>
             /\ \A i \in 1..Len(L) : Piece(L[i], b, hs) /\ L[i].big = big
             /\ \A i, j \in 1..Len(L) : i # j => Apart(L[i], L[j])
<1> DEFINE sz == b * MIN_ALLOC_SIZE
           n == MAX_ALLOC_SIZE \div sz
           L == Chop(big, sz)
<1>1. /\ sz \in Nat \ {0} /\ sz <= MAX_ALLOC_SIZE /\ MAX_ALLOC_SIZE \in Nat
      /\ b \in Nat \ {0} /\ MIN_ALLOC_SIZE \in Nat \ {0}
  BY BucketOfPiece, HeapAssumption, BigBlockSize
<1>2. /\ n \in Nat \ {0}
      /\ n * sz <= MAX_ALLOC_SIZE
  <2>1. n \in Nat /\ n * sz <= MAX_ALLOC_SIZE
    BY <1>1, DivMod, DivMulLe
  <2>2. n # 0
    <3>1. /\ MAX_ALLOC_SIZE % sz \in Nat /\ MAX_ALLOC_SIZE % sz < sz
          /\ MAX_ALLOC_SIZE = sz * n + (MAX_ALLOC_SIZE % sz)
      BY <1>1, DivMod
    <3>2. n = 0 => sz * n = 0
      BY <1>1
    <3> QED
      BY <1>1, <3>1, <3>2
  <2> QED
    BY <2>1, <2>2
<1>3. L = [i \in 1..n |-> [big |-> big, beg |-> (i - 1) * sz, end |-> i * sz]]
  BY DEF Chop
<1> HIDE DEF sz, n, L
<1>4. ASSUME NEW i \in 1..n
      PROVE  /\ (i - 1) * sz \in 0..MAX_ALLOC_SIZE
             /\ i * sz \in 0..MAX_ALLOC_SIZE
             /\ i * sz = (i - 1) * sz + sz
             /\ ((i - 1) * sz) % MIN_ALLOC_SIZE = 0
  <2>1. i \in Nat /\ i - 1 \in Nat /\ i <= n
    BY <1>2
  <2>2. i * sz <= n * sz
    BY <1>1, <1>2, <2>1, MulMono
  <2>3. i * sz = (i - 1) * sz + sz /\ (i - 1) * sz \in Nat /\ i * sz \in Nat /\ n * sz \in Nat
    BY <1>1, <1>2, <2>1
  <2>4. (i - 1) * sz = ((i - 1) * b) * MIN_ALLOC_SIZE
    BY <1>1, <2>1 DEF sz
  <2>5. (i - 1) * b \in Nat
    BY <1>1, <2>1
  <2>6. (((i - 1) * b) * MIN_ALLOC_SIZE) % MIN_ALLOC_SIZE = 0
    BY <1>1, <2>5, MulDivMod
  <2>7. i * sz <= MAX_ALLOC_SIZE /\ (i - 1) * sz <= MAX_ALLOC_SIZE
    BY <1>1, <1>2, <2>2, <2>3
  <2> QED
    BY <1>1, <2>3, <2>4, <2>6, <2>7
<1>5. ASSUME NEW i \in 1..n
      PROVE  /\ L[i] = [big |-> big, beg |-> (i - 1) * sz, end |-> i * sz]
             /\ L[i] \in Blocks /\ Piece(L[i], b, hs) /\ L[i].big = big
  <2>1. L[i] = [big |-> big, beg |-> (i - 1) * sz, end |-> i * sz]
    BY <1>3
  <2>2. L[i] \in Blocks
    BY <1>4, <2>1 DEF Blocks
  <2>3. Piece(L[i], b, hs)
    BY <1>4, <2>1, <2>2 DEF Piece, sz
  <2> QED
    BY <2>1, <2>2, <2>3
<1>6. L \in Seq(Blocks) /\ Len(L) = n /\ L # <<>>
  <2>1. L \in [1..n -> Blocks]
    BY <1>3, <1>5
  <2>2. L \in Seq(Blocks) /\ Len(L) = n
    BY <1>2, <2>1
  <2> QED
    BY <1>2, <2>2
<1>7. ASSUME NEW i \in 1..n, NEW j \in 1..n, i < j
      PROVE  Apart(L[i], L[j]) /\ Apart(L[j], L[i])
  <2>1. i \in Nat /\ j - 1 \in Nat /\ i <= j - 1
    BY <1>2, <1>7
  <2>2. i * sz <= (j - 1) * sz
    BY <1>1, <2>1, MulMono
  <2>3. L[i].end = i * sz /\ L[j].beg = (j - 1) * sz
    <3>1. L[i] = [big |-> big, beg |-> (i - 1) * sz, end |-> i * sz]
      BY <1>5
    <3>2. L[j] = [big |-> big, beg |-> (j - 1) * sz, end |-> j * sz]
      BY <1>5
    <3> QED
      BY <1>4, <3>1, <3>2
  <2> QED
    BY <2>2, <2>3 DEF Apart
<1>8. \A i, j \in 1..n : i # j => Apart(L[i], L[j])
  <2>1. \A i, j \in 1..n : i # j => i < j \/ j < i
    BY <1>2
  <2> QED
    BY <1>7, <2>1
<1> QED
  BY <1>5, <1>6, <1>8 DEF L, sz

(* A new big block is cut, and its last piece taken.                        *)
Cut(H, b, big) ==
    [H EXCEPT ![b].mFreeBlocks = Front(Chop(big, H[b].mAllocSz)),
              ![b].mBigBlocks = @ \cup {big}]

LEMMA ChopOK ==
  ASSUME NEW H, NEW hs, NEW held, HeapOK(H, hs, held),
         NEW b \in DOMAIN H, b # 0, H[b].made = TRUE, H[b].mFreeBlocks = <<>>,
         NEW big \in BigBlocks \ hs,
         NEW blk, blk = Last(Chop(big, H[b].mAllocSz))
  PROVE  BlockTaken(H, held, Cut(H, b, blk.big), hs \cup {blk.big}, b, blk)
<1> DEFINE L == Chop(big, H[b].mAllocSz)
           F == Front(L)
           n == Len(L)
           hs2 == hs \cup {big}
           held2 == held \cup {blk}
           H2 == Cut(H, b, big)
<1>1. /\ DOMAIN H \subseteq 0..NUM_BUCKETS
      /\ H[b] \in Heaps /\ H[b].mAllocSz = b * MIN_ALLOC_SIZE
      /\ hs \subseteq BigBlocks
      /\ \A c \in DOMAIN H : \A j \in 1..Len(H[c].mFreeBlocks) : Piece(H[c].mFreeBlocks[j], c, hs)
      /\ \A g \in held : \E c \in 1..NUM_BUCKETS : Piece(g, c, hs)
      /\ \A g, h \in held : g # h => Apart(g, h)
      /\ \A g \in held, c \in DOMAIN H :
            \A j \in 1..Len(H[c].mFreeBlocks) : Apart(g, H[c].mFreeBlocks[j])
  BY DEF HeapOK
<1>2. b \in 1..NUM_BUCKETS
  BY <1>1, BigBlockSize
<1>3. /\ L \in Seq(Blocks) /\ L # <<>>
      /\ \A i \in 1..n : Piece(L[i], b, hs2) /\ L[i].big = big
      /\ \A i, j \in 1..n : i # j => Apart(L[i], L[j])
  <2>1. L = Chop(big, b * MIN_ALLOC_SIZE) /\ big \in hs2
    BY <1>1
  <2> HIDE DEF L, hs2
  <2> QED
    BY <1>2, <2>1, ChopPieces
<1>4. /\ DOMAIN H2 = DOMAIN H
      /\ \A c \in DOMAIN H : c # b => H2[c] = H[c]
      /\ H2[b] = [H[b] EXCEPT !.mFreeBlocks = F, !.mBigBlocks = @ \cup {big}]
  BY DEF Cut
<1> HIDE DEF L, H2
<1>5. /\ F \in Seq(Blocks) /\ n \in Nat \ {0} /\ Len(F) = n - 1
      /\ \A i \in 1..(n - 1) : F[i] = L[i]
      /\ blk = L[n]
  BY <1>3, FrontProperties DEF Last, L
<1> HIDE DEF F, n, held2
<1>6. /\ H2[b] \in Heaps /\ H2[b].made /\ H2[b].mAllocSz = b * MIN_ALLOC_SIZE
      /\ F = H2[b].mFreeBlocks
  <2> DEFINE h == H[b]
             sz == b * MIN_ALLOC_SIZE
             big2 == h.mBigBlocks \cup {big}
  <2>1. h \in Heaps /\ h.made /\ h.mAllocSz = sz /\ F \in Seq(Blocks)
    BY <1>1, <1>5
  <2>2. H2[b] = [h EXCEPT !.mFreeBlocks = F, !.mBigBlocks = big2]
    BY <1>4
  <2>3. big2 \in SUBSET BigBlocks
    BY <2>1 DEF Heaps
  <2> HIDE DEF h, sz, big2
  <2>4. [h EXCEPT !.mFreeBlocks = F, !.mBigBlocks = big2] \in Heaps
    BY <2>1, <2>3 DEF Heaps
  <2>5. H2[b].made /\ H2[b].mAllocSz = sz /\ H2[b].mFreeBlocks = F
    BY <2>1, <2>2 DEF Heaps
  <2> QED
    BY <2>2, <2>4, <2>5 DEF sz
<1>7. Piece(blk, b, hs2) /\ blk.big = big
  <2>1. n \in 1..n
    BY <1>5
  <2> QED
    BY <1>3, <1>5, <2>1
<1>8. \A g \in held : g.big \in hs /\ \E c \in 1..NUM_BUCKETS : Piece(g, c, hs2)
  <2>1. \A x, c : Piece(x, c, hs) => Piece(x, c, hs2) /\ x.big \in hs
    BY DEF Piece
  <2> QED
    BY <1>1, <2>1
<1>9. \A x, y : x.big \in hs /\ y.big = big => Apart(x, y) /\ Apart(y, x)
  BY DEF Apart
<1>10. \A c \in DOMAIN H : \A j \in 1..Len(H[c].mFreeBlocks) : H[c].mFreeBlocks[j].big \in hs
  BY <1>1 DEF Piece
<1>11. \A i \in 1..Len(F) : i \in 1..n /\ i # n /\ F[i] = L[i]
  BY <1>5
<1>12. FreeListFits(H, hs2, b, F)
  <2>1. \A i \in 1..Len(F) : Piece(F[i], b, hs2) /\ F[i].big = big
    BY <1>3, <1>11
  <2>2. \A i, j \in 1..Len(F) : i # j => Apart(F[i], F[j])
    BY <1>3, <1>11
  <2>3. \A i \in 1..Len(F), c \in DOMAIN H : c # b =>
           \A j \in 1..Len(H[c].mFreeBlocks) : Apart(F[i], H[c].mFreeBlocks[j])
    BY <1>9, <1>10, <2>1
  <2> QED
    BY <2>1, <2>2, <2>3 DEF FreeListFits
<1>13. HeldFits(H, hs2, held2, b, F)
  <2>1. \A g \in held2 : \E c \in 1..NUM_BUCKETS : Piece(g, c, hs2)
    BY <1>2, <1>7, <1>8 DEF held2
  <2>2. \A g, h \in held2 : g # h => Apart(g, h)
    BY <1>1, <1>7, <1>8, <1>9 DEF held2
  <2>3. ASSUME NEW g \in held2, NEW i \in 1..Len(F)
        PROVE  Apart(g, F[i])
    <3>1. F[i] = L[i] /\ i \in 1..n /\ i # n
      BY <1>11
    <3>2. CASE g \in held
      BY <1>3, <1>8, <1>9, <3>1, <3>2
    <3>3. CASE g = blk
      <4>1. n \in 1..n
        BY <1>5
      <4> QED
        BY <1>3, <1>5, <3>1, <3>3, <4>1
    <3> QED
      BY <3>2, <3>3 DEF held2
  <2>4. ASSUME NEW g \in held2, NEW c \in DOMAIN H, c # b, NEW j \in 1..Len(H[c].mFreeBlocks)
        PROVE  Apart(g, H[c].mFreeBlocks[j])
    <3>1. CASE g \in held
      BY <1>1, <3>1
    <3>2. CASE g = blk
      BY <1>7, <1>9, <1>10, <3>2
    <3> QED
      BY <3>1, <3>2 DEF held2
  <2> QED
    BY <2>1, <2>2, <2>3, <2>4, Zenon DEF HeldFits
<1>14. OnlyHeap(H, hs, H2, hs2, b)
  BY <1>1, <1>4, <1>6 DEF OnlyHeap
<1>15. HeapOK(H2, hs2, held2)
  BY <1>6, <1>12, <1>13, <1>14, FreeListChange
<1>16. \A c \in DOMAIN H : H2[c].made = H[c].made
  BY <1>4, <1>6
<1>17. \A g \in held : Apart(g, blk)
  BY <1>7, <1>8, <1>9
<1> QED
  BY <1>4, <1>7, <1>15, <1>16, <1>17 DEF H2, held2, BlockTaken

(* A held block goes back to the free list of its size.                     *)
LEMMA PushOK ==
  ASSUME NEW H, NEW hs, NEW held, HeapOK(H, hs, held),
         NEW blk \in held, NEW b \in DOMAIN H, H[b].made, Piece(blk, b, hs)
  PROVE  LET H2 == [H EXCEPT ![b].mFreeBlocks = Append(@, blk)]
         IN  /\ HeapOK(H2, hs, held \ {blk})
             /\ DOMAIN H2 = DOMAIN H
             /\ \A c \in DOMAIN H : H2[c].made = H[c].made
<1> DEFINE L == H[b].mFreeBlocks
           F == Append(L, blk)
           n == Len(L)
           held2 == held \ {blk}
           H2 == [H EXCEPT ![b].mFreeBlocks = Append(@, blk)]
<1>1. /\ H[b] \in Heaps /\ H[b].mAllocSz = b * MIN_ALLOC_SIZE
      /\ hs \subseteq BigBlocks
      /\ \A i \in 1..n : Piece(L[i], b, hs)
      /\ \A i, j \in 1..n : i # j => Apart(L[i], L[j])
      /\ \A c \in DOMAIN H : \A i \in 1..n, j \in 1..Len(H[c].mFreeBlocks) :
            c # b => Apart(L[i], H[c].mFreeBlocks[j])
      /\ \A g \in held : \E c \in 1..NUM_BUCKETS : Piece(g, c, hs)
      /\ \A g, h \in held : g # h => Apart(g, h)
      /\ \A g \in held, c \in DOMAIN H :
            \A j \in 1..Len(H[c].mFreeBlocks) : Apart(g, H[c].mFreeBlocks[j])
  BY DEF HeapOK
<1>2. L \in Seq(Blocks) /\ blk \in Blocks
  BY <1>1 DEF Heaps, Piece
<1>3. /\ DOMAIN H2 = DOMAIN H
      /\ \A c \in DOMAIN H : c # b => H2[c] = H[c]
      /\ H2[b] = [H[b] EXCEPT !.mFreeBlocks = F]
  OBVIOUS
<1> HIDE DEF L, H2
<1>4. /\ F \in Seq(Blocks) /\ n \in Nat /\ Len(F) = n + 1
      /\ \A i \in 1..n : F[i] = L[i]
      /\ F[n + 1] = blk
  BY <1>2, AppendLastRange
<1> HIDE DEF F, n, held2
<1>5. /\ H2[b] \in Heaps /\ H2[b].made /\ H2[b].mAllocSz = b * MIN_ALLOC_SIZE
      /\ F = H2[b].mFreeBlocks
  BY <1>1, <1>3, <1>4 DEF Heaps
<1>6. \A i \in 1..Len(F) : (i \in 1..n /\ F[i] = L[i]) \/ (i = n + 1 /\ F[i] = blk)
  BY <1>4
<1>7. \A i \in 1..n : Apart(blk, L[i]) /\ Apart(L[i], blk)
  BY <1>1, ApartSymmetric DEF L, n
<1>8. FreeListFits(H, hs, b, F)
  <2>1. \A i \in 1..Len(F) : Piece(F[i], b, hs)
    BY <1>1, <1>6
  <2>2. \A i, j \in 1..Len(F) : i # j => Apart(F[i], F[j])
    BY <1>1, <1>6, <1>7
  <2>3. \A i \in 1..Len(F), c \in DOMAIN H : c # b =>
           \A j \in 1..Len(H[c].mFreeBlocks) : Apart(F[i], H[c].mFreeBlocks[j])
    BY <1>1, <1>6
  <2> QED
    BY <2>1, <2>2, <2>3 DEF FreeListFits
<1>9. HeldFits(H, hs, held2, b, F)
  <2>1. \A g \in held2 : \E c \in 1..NUM_BUCKETS : Piece(g, c, hs)
    BY <1>1 DEF held2
  <2>2. \A g, h \in held2 : g # h => Apart(g, h)
    BY <1>1 DEF held2
  <2>3. ASSUME NEW g \in held2, NEW i \in 1..Len(F)
        PROVE  Apart(g, F[i])
    <3>1. g \in held /\ g # blk
      BY DEF held2
    <3>2. \A j \in 1..n : Apart(g, L[j])
      BY <1>1, <3>1 DEF L, n
    <3>3. Apart(g, blk)
      BY <1>1, <3>1
    <3> QED
      BY <1>6, <3>2, <3>3
  <2>4. \A g \in held2, c \in DOMAIN H : c # b =>
           \A j \in 1..Len(H[c].mFreeBlocks) : Apart(g, H[c].mFreeBlocks[j])
    BY <1>1 DEF held2
  <2> QED
    BY <2>1, <2>2, <2>3, <2>4, Zenon DEF HeldFits
<1>10. OnlyHeap(H, hs, H2, hs, b)
  BY <1>1, <1>3, <1>5 DEF OnlyHeap
<1>11. HeapOK(H2, hs, held2)
  BY <1>5, <1>8, <1>9, <1>10, FreeListChange
<1>12. \A c \in DOMAIN H : H2[c].made = H[c].made
  BY <1>3, <1>5
<1> QED
  BY <1>3, <1>11, <1>12 DEF H2, held2

-----------------------------------------------------------------------------
(* Queues in one place, of a pool q of which m were made and the queues mq   *)
(* of the executors: an executor that is not there holds none.               *)
OnePlace(q, m, mq) ==
    /\ IsInjective(q)
    /\ \A e \in Execs : IsInjective(mq[e]) /\ Range(mq[e]) \cap Range(q) = {}
    /\ \A e, f \in Execs : e # f => Range(mq[e]) \cap Range(mq[f]) = {}
    /\ \A x : x \in 1..m <=> x \in Range(q) \/ \E e \in Execs : x \in Range(mq[e])

LEMMA OnePlaceEverywhere ==
  QueuesInOnePlace <=> OnePlace(queuePool, queuesMade, mQueues)
<1>1. \A e \in Execs \ Holders : IsInjective(mQueues[e]) /\ Range(mQueues[e]) = {}
  BY EmptyList DEF Holders
<1>2. Holders \subseteq Execs
  BY DEF Holders
<1>3. ASSUME QueuesInOnePlace
      PROVE  OnePlace(queuePool, queuesMade, mQueues)
  <2>1. \A x : x \in 1..queuesMade <=>
           x \in Range(queuePool) \/ \E e \in Holders : x \in Range(mQueues[e])
    BY <1>3 DEF QueuesInOnePlace
  <2>2. \A e \in Execs : IsInjective(mQueues[e]) /\ Range(mQueues[e]) \cap Range(queuePool) = {}
    BY <1>1, <1>3 DEF QueuesInOnePlace
  <2>3. ASSUME NEW e \in Execs, NEW f \in Execs, e # f
        PROVE  Range(mQueues[e]) \cap Range(mQueues[f]) = {}
    <3>1. CASE e \in Holders /\ f \in Holders
      BY <1>3, <2>3, <3>1 DEF QueuesInOnePlace
    <3>2. CASE e \notin Holders \/ f \notin Holders
      BY <1>1, <3>2
    <3> QED
      BY <3>1, <3>2
  <2>4. \A x : x \in 1..queuesMade <=>
           x \in Range(queuePool) \/ \E e \in Execs : x \in Range(mQueues[e])
    BY <1>1, <1>2, <2>1
  <2>5. IsInjective(queuePool)
    BY <1>3 DEF QueuesInOnePlace
  <2> QED
    BY <2>2, <2>3, <2>4, <2>5, Zenon DEF OnePlace
<1>4. ASSUME OnePlace(queuePool, queuesMade, mQueues)
      PROVE  QueuesInOnePlace
  <2>1. /\ IsInjective(queuePool)
        /\ \A e \in Execs : IsInjective(mQueues[e]) /\ Range(mQueues[e]) \cap Range(queuePool) = {}
        /\ \A e, f \in Execs : e # f => Range(mQueues[e]) \cap Range(mQueues[f]) = {}
        /\ \A x : x \in 1..queuesMade <=>
              x \in Range(queuePool) \/ \E e \in Execs : x \in Range(mQueues[e])
    BY <1>4 DEF OnePlace
  <2>2. \A x : x \in 1..queuesMade <=>
           x \in Range(queuePool) \/ \E e \in Holders : x \in Range(mQueues[e])
    BY <1>1, <1>2, <2>1
  <2>3. Range(queuePool) \cup UNION {Range(mQueues[e]) : e \in Holders} = 1..queuesMade
    BY <2>2
  <2> QED
    BY <1>2, <2>1, <2>3 DEF QueuesInOnePlace
<1> QED
  BY <1>3, <1>4

(* An executor that was not there takes queues,                              *)
LEMMA QueuesTakenOnce ==
  ASSUME NEW q \in Seq(Nat), NEW m \in Nat, NEW mq \in [Execs -> Seq(Nat)],
         OnePlace(q, m, mq),
         NEW e \in Execs, mq[e] = <<>>,
         NEW st, NEW k \in Nat, FairShare(q, m, st, k)
  PROVE  OnePlace(st.pool, st.made, [mq EXCEPT ![e] = st.got])
<1> DEFINE mq2 == [mq EXCEPT ![e] = st.got]
           pool == st.pool
           got == st.got
           made == st.made
<1>1. /\ made \in Nat /\ m <= made
      /\ IsInjective(pool) /\ IsInjective(got)
      /\ Range(pool) \cap Range(got) = {}
      /\ Range(pool) \cup Range(got) = Range(q) \cup ((m + 1)..made)
  BY DEF FairShare
<1>2. mq2[e] = got /\ \A f \in Execs \ {e} : mq2[f] = mq[f]
  OBVIOUS
<1>3. Range(mq[e]) = {}
  BY EmptyList
<1>4. /\ \A f \in Execs : IsInjective(mq[f]) /\ Range(mq[f]) \cap Range(q) = {}
      /\ \A f, g \in Execs : f # g => Range(mq[f]) \cap Range(mq[g]) = {}
      /\ \A x : x \in 1..m <=> x \in Range(q) \/ \E f \in Execs : x \in Range(mq[f])
  BY DEF OnePlace
<1> HIDE DEF mq2, pool, got, made
<1>5. \A f \in Execs : Range(mq[f]) \cap ((m + 1)..made) = {}
  <2> SUFFICES ASSUME NEW f \in Execs, NEW x \in Range(mq[f]), x \in (m + 1)..made
               PROVE  FALSE
    OBVIOUS
  <2>1. x \in 1..m
    BY <1>4
  <2> QED
    BY <1>1, <2>1
<1>6. \A f \in Execs : Range(mq[f]) \cap Range(pool) = {} /\ Range(mq[f]) \cap Range(got) = {}
  BY <1>1, <1>4, <1>5
<1>7. \A f \in Execs : IsInjective(mq2[f]) /\ Range(mq2[f]) \cap Range(pool) = {}
  BY <1>1, <1>2, <1>4, <1>6
<1>8. \A f, g \in Execs : f # g => Range(mq2[f]) \cap Range(mq2[g]) = {}
  BY <1>2, <1>4, <1>6
<1>9. ASSUME NEW x
      PROVE  x \in 1..made <=> x \in Range(pool) \/ \E f \in Execs : x \in Range(mq2[f])
  <2>1. x \in 1..made <=> x \in 1..m \/ x \in (m + 1)..made
    BY <1>1
  <2>2. x \in 1..m <=> x \in Range(q) \/ \E f \in Execs \ {e} : x \in Range(mq2[f])
    BY <1>2, <1>3, <1>4
  <2>3. (\E f \in Execs : x \in Range(mq2[f])) <=>
            x \in Range(got) \/ \E f \in Execs \ {e} : x \in Range(mq2[f])
    BY <1>2
  <2> QED
    BY <1>1, <2>1, <2>2, <2>3
<1> QED
  BY <1>1, <1>7, <1>8, <1>9, Zenon DEF OnePlace, mq2, pool, made

(* and gives them back;                                                      *)
LEMMA QueuesGivenBack ==
  ASSUME NEW q \in Seq(Nat), NEW m \in Nat, NEW mq \in [Execs -> Seq(Nat)],
         OnePlace(q, m, mq), NEW e \in Execs
  PROVE  OnePlace(q \o mq[e], m, [mq EXCEPT ![e] = <<>>])
<1> DEFINE mq2 == [mq EXCEPT ![e] = <<>>]
           t == mq[e]
           u == q \o t
<1>1. t \in Seq(Nat)
  OBVIOUS
<1>2. mq2[e] = <<>> /\ \A f \in Execs \ {e} : mq2[f] = mq[f]
  OBVIOUS
<1>3. /\ IsInjective(q)
      /\ \A f \in Execs : IsInjective(mq[f]) /\ Range(mq[f]) \cap Range(q) = {}
      /\ \A f, g \in Execs : f # g => Range(mq[f]) \cap Range(mq[g]) = {}
      /\ \A x : x \in 1..m <=> x \in Range(q) \/ \E f \in Execs : x \in Range(mq[f])
  BY DEF OnePlace
<1>4. IsInjective(t) /\ Range(t) \cap Range(q) = {}
  BY <1>3
<1> HIDE DEF mq2, t, u
<1>5. Range(u) = Range(q) \cup Range(t) /\ IsInjective(u)
  <2>1. Range(q) \cap Range(t) = {}
    BY <1>4
  <2> QED
    BY <1>1, <1>3, <1>4, <2>1, ConcatenateLists, InjectiveConcat DEF u
<1>6. Range(mq2[e]) = {} /\ IsInjective(mq2[e])
  BY <1>2, EmptyList
<1>7. ASSUME NEW f \in Execs
      PROVE  IsInjective(mq2[f]) /\ Range(mq2[f]) \cap Range(u) = {}
  <2>1. CASE f = e
    BY <1>6, <2>1
  <2>2. CASE f # e
    <3>1. mq2[f] = mq[f]
      BY <1>2, <2>2
    <3>2. Range(mq[f]) \cap Range(t) = {}
      BY <1>3, <2>2 DEF t
    <3> QED
      BY <1>3, <1>5, <3>1, <3>2
  <2> QED
    BY <2>1, <2>2
<1>8. \A f, g \in Execs : f # g => Range(mq2[f]) \cap Range(mq2[g]) = {}
  BY <1>2, <1>3, <1>6
<1>9. ASSUME NEW x
      PROVE  x \in 1..m <=> x \in Range(u) \/ \E f \in Execs : x \in Range(mq2[f])
  <2>1. (\E f \in Execs : x \in Range(mq[f])) <=>
            x \in Range(t) \/ \E f \in Execs \ {e} : x \in Range(mq[f])
    BY DEF t
  <2>2. (\E f \in Execs : x \in Range(mq2[f])) <=> \E f \in Execs \ {e} : x \in Range(mq[f])
    BY <1>2, <1>6
  <2> QED
    BY <1>3, <1>5, <2>1, <2>2
<1> QED
  BY <1>5, <1>7, <1>8, <1>9, Zenon DEF OnePlace, mq2, u, t

(* when all have, the pool holds every queue made.                           *)
LEMMA AllQueuesBack ==
  ASSUME NEW q \in Seq(Nat), NEW m \in Nat, NEW mq \in [Execs -> Seq(Nat)],
         OnePlace(q, m, mq), \A e \in Execs : mq[e] = <<>>
  PROVE  Len(q) = m /\ OnePlace(<<>>, 0, mq)
<1>1. \A e \in Execs : Range(mq[e]) = {} /\ IsInjective(mq[e])
  BY EmptyList
<1>2. IsInjective(q) /\ Range(q) = 1..m
  BY <1>1 DEF OnePlace
<1>3. Len(q) \in Nat /\ DOMAIN q = 1..Len(q)
  OBVIOUS
<1>4. q \in Bijection(1..Len(q), 1..m)
  <2>1. q \in [1..Len(q) -> 1..m]
    BY <1>2, <1>3 DEF Range
  <2>2. \A a, b \in 1..Len(q) : q[a] = q[b] => a = b
    BY <1>2, <1>3 DEF IsInjective
  <2>3. \A y \in 1..m : \E x \in 1..Len(q) : q[x] = y
    BY <1>2, <1>3 DEF Range
  <2> QED
    BY <2>1, <2>2, <2>3 DEF Bijection, Injection, Surjection, IsInjective
<1>5. Cardinality(1..Len(q)) = Len(q) /\ Cardinality(1..m) = m /\ IsFiniteSet(1..Len(q))
  <2>1. \A n \in Nat : IsFiniteSet(1..n) /\ Cardinality(1..n) = IF 1 > n THEN 0 ELSE n - 1 + 1
    BY FS_Interval
  <2>2. \A n \in Nat : (IF 1 > n THEN 0 ELSE n - 1 + 1) = n
    OBVIOUS
  <2> QED
    BY <1>3, <2>1, <2>2
<1>6. Cardinality(1..m) = Cardinality(1..Len(q))
  BY <1>4, <1>5, FS_Bijection DEF ExistsBijection
<1>7. OnePlace(<<>>, 0, mq)
  <2>1. 1..0 = {}
    OBVIOUS
  <2> QED
    BY <1>1, <2>1, EmptyList, Zenon DEF OnePlace
<1> QED
  BY <1>5, <1>6, <1>7

-----------------------------------------------------------------------------
(* The steps of the heap in the resource.                                   *)
LEMMA HeapAllocateOK ==
  ASSUME NEW H, HeapOK(H, hsaBlocks, given),
         NEW b \in DOMAIN H, b # 0, H[b].made,
         NEW blk, HeapAllocate(H, b, blk)
  PROVE  /\ HeapInv'
         /\ DOMAIN mHeapsForSz' = DOMAIN H
         /\ \A c \in DOMAIN H : mHeapsForSz'[c].made = H[c].made
         /\ given' = given \cup {blk}
         /\ Piece(blk, b, hsaBlocks')
         /\ \A g \in given : Apart(g, blk)
<1>1. CASE H[b].mFreeBlocks # <<>>
  <2>1. /\ blk = Last(H[b].mFreeBlocks)
        /\ mHeapsForSz' = [H EXCEPT ![b].mFreeBlocks = Front(@)]
        /\ hsaBlocks' = hsaBlocks /\ given' = given \cup {blk}
    BY <1>1 DEF HeapAllocate, Offered
  <2> DEFINE H2 == [H EXCEPT ![b].mFreeBlocks = Front(@)]
  <2>2. BlockTaken(H, given, H2, hsaBlocks, b, blk)
    BY <1>1, <2>1, PopOK
  <2> HIDE DEF H2
  <2>3. mHeapsForSz' = H2
    BY <2>1 DEF H2
  <2> QED
    BY <2>1, <2>2, <2>3 DEF HeapInv, BlockTaken
<1>2. CASE H[b].mFreeBlocks = <<>>
  <2>1. PICK big \in BigBlocks \ hsaBlocks : blk = Last(Chop(big, H[b].mAllocSz))
    BY <1>2 DEF HeapAllocate, Offered
  <2>2. BlockTaken(H, given, Cut(H, b, blk.big), hsaBlocks \cup {blk.big}, b, blk)
    <3>1. H[b].made = TRUE
      BY DEF HeapOK, Heaps
    <3> QED
      BY <1>2, <2>1, <3>1, ChopOK
  <2>3. /\ mHeapsForSz' = Cut(H, b, blk.big)
        /\ hsaBlocks' = hsaBlocks \cup {blk.big} /\ given' = given \cup {blk}
    BY <1>2 DEF HeapAllocate, Cut
  <2> QED
    BY <2>2, <2>3 DEF HeapInv, BlockTaken
<1> QED
  BY <1>1, <1>2

LEMMA ApartBytes ==
  ASSUME NEW x \in Blocks, NEW y \in Blocks, Apart(x, y)
  PROVE  Bytes(x) \cap Bytes(y) = {}
<1>1. x.beg \in Nat /\ x.end \in Nat /\ y.beg \in Nat /\ y.end \in Nat
  BY HeapAssumption DEF Blocks
<1> SUFFICES ASSUME NEW z \in Bytes(x), z \in Bytes(y)
             PROVE  FALSE
  OBVIOUS
<1>2. PICK i \in x.beg .. x.end - 1 : z = <<x.big, i>>
  BY DEF Bytes
<1>3. PICK j \in y.beg .. y.end - 1 : z = <<y.big, j>>
  BY DEF Bytes
<1>4. x.big = y.big /\ i = j
  BY <1>2, <1>3
<1> QED
  BY <1>1, <1>4 DEF Apart

(* What is not touched stays as it was.                                     *)
HeapsStay ==
    \A b \in DOMAIN mHeapsForSz : mHeapsForSz[b].made =>
        b \in DOMAIN mHeapsForSz' /\ mHeapsForSz'[b].made

LEMMA QuietInfo ==
  ASSUME InfoInv, HeapsStay, UNCHANGED mKernInfoByName
  PROVE  InfoInv'
BY DEF InfoInv, HeapsStay

LEMMA QuietTasks ==
  ASSUME TasksInv, UNCHANGED tasks, Up' => Up,
         \A x \in TakenByTasks : x \in given => x \in given'
  PROVE  TasksInv'
BY DEF TasksInv, TakenByTasks

LEMMA QuietQueues ==
  ASSUME QueuesInOnePlace, UNCHANGED queueVars
  PROVE  QueuesInOnePlace' /\ Holders' = Holders
BY DEF QueuesInOnePlace, Holders, queueVars

LEMMA QuietSignals ==
  ASSUME SignalInv, UNCHANGED sigVars, Up' => Up
  PROVE  SignalInv'
BY DEF SignalInv, SignalsLentOnce, sigVars

LEMMA QuietHeap ==
  ASSUME HeapInv, InfoInv, TasksInv, UNCHANGED heapVars, UNCHANGED mKernInfoByName, UNCHANGED tasks
  PROVE  HeapInv' /\ InfoInv' /\ TasksInv' /\ Up' = Up
<1>1. mHeapsForSz' = mHeapsForSz /\ hsaBlocks' = hsaBlocks /\ given' = given
  BY DEF heapVars
<1>2. HeapInv'
  BY <1>1 DEF HeapInv
<1>3. Up' = Up /\ HeapsStay
  BY <1>1 DEF Up, HeapsStay
<1> QED
  BY <1>1, <1>2, <1>3, QuietInfo, QuietTasks

(* The constructor of the resource.                                         *)
LEMMA InitIInv == Init => IInv
<1> SUFFICES ASSUME Init
             PROVE  IInv
  OBVIOUS
<1>1. /\ mHeapsForSz = [b \in 0..(NUM_BUCKETS - 1) |-> NoHeap]
      /\ hsaBlocks = {} /\ given = {}
      /\ mKernInfoByName = <<>> /\ tasks = <<>> /\ signals = <<>>
      /\ queuePool = NextBatch(QBatch, 0) /\ queuesMade = QBatch
      /\ sigPool = NextBatch(SBatch, 0) /\ sigsMade = SBatch
      /\ mQueues = [e \in Execs |-> <<>>]
  BY DEF Init, HeapInit, Queues!PoolInit, Signals!PoolInit, Queues!Batch, Signals!Batch, NextBatch
<1>2. ASSUME NEW B \in Nat \ {0}
      PROVE  /\ NextBatch(B, 0) \in Seq(Nat) /\ IsInjective(NextBatch(B, 0))
             /\ Range(NextBatch(B, 0)) = 1..B
  <2> DEFINE s == NextBatch(B, 0)
  <2>1. DOMAIN s = 1..B /\ \A i \in 1..B : s[i] = i /\ s[i] \in Nat
    BY DEF NextBatch
  <2>2. s \in Seq(Nat)
    <3>1. s \in [1..B -> Nat]
      BY DEF NextBatch
    <3> QED
      BY <3>1
  <2> HIDE DEF s
  <2>3. IsInjective(s) /\ Range(s) = 1..B
    BY <2>1 DEF IsInjective, Range
  <2> QED
    BY <2>2, <2>3 DEF s
<1>3. /\ queuePool \in Seq(Nat) /\ IsInjective(queuePool) /\ Range(queuePool) = 1..queuesMade
      /\ sigPool \in Seq(Nat) /\ IsInjective(sigPool) /\ Range(sigPool) = 1..sigsMade
      /\ queuesMade \in Nat /\ sigsMade \in Nat
  BY <1>1, <1>2, PoolAssumption
<1>4. DOMAIN mKernInfoByName = {} /\ DOMAIN tasks = {}
  BY <1>1
<1>5. TypeOK
  BY <1>1, <1>3, <1>4 DEF TypeOK
<1>6. Holders = {}
  BY <1>1 DEF Holders
<1>7. HeapInv
  <2>1. DOMAIN mHeapsForSz = 0..(NUM_BUCKETS - 1) /\ \A b \in DOMAIN mHeapsForSz : mHeapsForSz[b] = NoHeap
    BY <1>1
  <2>2. /\ NoHeap \in Heaps /\ ~NoHeap.made /\ NoHeap.mFreeBlocks = <<>> /\ Len(NoHeap.mFreeBlocks) = 0
    <3>1. <<>> \in Seq(Blocks) /\ 0 \in 0..MAX_ALLOC_SIZE
      BY HeapAssumption
    <3> QED
      BY <3>1 DEF NoHeap, Heaps
  <2>3. \A b \in DOMAIN mHeapsForSz : \A i \in 1..Len(mHeapsForSz[b].mFreeBlocks) : FALSE
    BY <2>1, <2>2
  <2>4. DOMAIN mHeapsForSz \subseteq 0..NUM_BUCKETS
    BY <2>1, BigBlockSize
  <2> QED
    BY <1>1, <2>1, <2>2, <2>3, <2>4 DEF HeapInv, HeapOK
<1>8. InfoInv
  BY <1>4 DEF InfoInv
<1>9. TasksInv
  <2>1. TakenByTasks = {}
    BY <1>1, EmptyList DEF TakenByTasks
  <2> QED
    BY <1>4, <2>1 DEF TasksInv
<1>10. QueuesInOnePlace
  BY <1>3, <1>6 DEF QueuesInOnePlace
<1>11. SignalInv
  BY <1>1, <1>3, EmptyList DEF SignalInv, SignalsLentOnce
<1>12. DownInv
  BY <1>1, <1>4, <1>6 DEF DownInv
<1> QED
  BY <1>5, <1>7, <1>8, <1>9, <1>10, <1>11, <1>12 DEF IInv

-----------------------------------------------------------------------------
(* Registration: the heap of the kernel's size is there from now on.        *)
LEMMA RegisterStep ==
  ASSUME IInv, NEW k \in Kernels, Register(k),
         UNCHANGED <<hsaBlocks, given, tasks, queueVars, sigVars>>
  PROVE  IInv'
<1>1. Up
  BY DEF Register
<1>2. CASE k \in DOMAIN mKernInfoByName
  <2>1. UNCHANGED <<mKernInfoByName, heapVars, tasks, queueVars, sigVars>>
    BY <1>2 DEF Register, heapVars
  <2>2. HeapInv' /\ InfoInv' /\ TasksInv' /\ Up' = Up
    BY <2>1, QuietHeap DEF IInv
  <2>3. QueuesInOnePlace' /\ SignalInv'
    BY <2>1, <2>2, QuietQueues, QuietSignals DEF IInv
  <2>4. TypeOK'
    BY <2>1 DEF IInv, TypeOK, queueVars, sigVars
  <2>5. DownInv'
    BY <1>1, <2>2 DEF DownInv
  <2> QED
    BY <2>2, <2>3, <2>4, <2>5 DEF IInv
<1>3. CASE k \notin DOMAIN mKernInfoByName
  <2> DEFINE n == ArgBufSize
  <2>1. n \in 0..MAX_ALLOC_SIZE
    BY HeapAssumption DEF ArgBufSize
  <2>2. /\ mHeapsForSz' = HeapForSize(n)
        /\ DOMAIN mKernInfoByName' = DOMAIN mKernInfoByName \cup {k}
        /\ mKernInfoByName'[k] = KernInfo(k)
        /\ \A j \in DOMAIN mKernInfoByName : mKernInfoByName'[j] = mKernInfoByName[j]
    BY <1>3 DEF Register
  <2> HIDE DEF n
  <2>3. /\ HeapOK(HeapForSize(n), hsaBlocks, given)
        /\ BucketOf(n) \in DOMAIN HeapForSize(n)
        /\ HeapForSize(n)[BucketOf(n)].made
    BY <2>1, HeapForSizeOK DEF IInv
  <2>4. HeapInv'
    BY <2>2, <2>3 DEF HeapInv
  <2>5. /\ \A b \in DOMAIN mHeapsForSz : b \in DOMAIN mHeapsForSz'
        /\ \A b \in DOMAIN mHeapsForSz : mHeapsForSz[b].made => mHeapsForSz'[b] = mHeapsForSz[b]
    BY <2>2, HeapForSizeAdds
  <2>6. Up'
    BY <1>1, <2>5 DEF Up
  <2>7. InfoInv'
    <3> SUFFICES ASSUME NEW j \in DOMAIN mKernInfoByName'
                 PROVE  LET info == mKernInfoByName'[j]
                        IN  /\ info.mKernArgBufSz = ArgBufSize
                            /\ info.bucket = BucketOf(info.mKernArgBufSz)
                            /\ info.bucket \in DOMAIN mHeapsForSz'
                            /\ mHeapsForSz'[info.bucket].made
      BY DEF InfoInv
    <3>1. CASE j = k
      <4>1. /\ mKernInfoByName'[j].mKernArgBufSz = n
            /\ mKernInfoByName'[j].bucket = BucketOf(n)
        BY <2>2, <3>1 DEF KernInfo, n
      <4> QED
        BY <2>2, <2>3, <3>1, <4>1 DEF n
    <3>2. CASE j \in DOMAIN mKernInfoByName
      BY <2>2, <2>5, <3>2 DEF IInv, InfoInv
    <3> QED
      BY <2>2, <3>1, <3>2
  <2>8. TasksInv'
    BY <1>1, QuietTasks DEF IInv
  <2>9. QueuesInOnePlace' /\ SignalInv'
    BY <1>1, QuietQueues, QuietSignals DEF IInv
  <2>10. TypeOK'
    BY <2>2 DEF IInv, TypeOK, queueVars, sigVars
  <2>11. DownInv'
    BY <2>6 DEF DownInv
  <2> QED
    BY <2>4, <2>7, <2>8, <2>9, <2>10, <2>11 DEF IInv
<1> QED
  BY <1>2, <1>3

(* A task gets a block that nobody holds, of the size of its kernel's       *)
(* information, or none.                                                    *)
LEMMA NewTask ==
  ASSUME IInv, Up, NEW n \in 0..MAX_ALLOC_SIZE, NEW blk \in Blocks \cup {NullBlock},
         tasks' = Append(tasks, [mKernArgBufSz |-> n, mKernArgBuf |-> blk]),
         RoomFor(n, blk),
         HeapInv', HeapsStay, Up', given \subseteq given',
         blk \in given' \cup {NullBlock},
         \A g \in given : blk # NullBlock => Apart(g, blk),
         UNCHANGED <<regVars, queueVars, sigVars>>
  PROVE  IInv'
<1>1. InfoInv'
  BY QuietInfo DEF IInv, regVars
<1>2. /\ tasks \in Seq([mKernArgBufSz: 0 .. MAX_ALLOC_SIZE, mKernArgBuf: Blocks \cup {NullBlock}])
      /\ [mKernArgBufSz |-> n, mKernArgBuf |-> blk] \in [mKernArgBufSz: 0 .. MAX_ALLOC_SIZE, mKernArgBuf: Blocks \cup {NullBlock}]
  BY DEF IInv, TypeOK
<1>3. /\ tasks' \in Seq([mKernArgBufSz: 0 .. MAX_ALLOC_SIZE, mKernArgBuf: Blocks \cup {NullBlock}])
      /\ Len(tasks') = Len(tasks) + 1
      /\ DOMAIN tasks = 1..Len(tasks) /\ DOMAIN tasks' = 1..(Len(tasks) + 1) /\ Len(tasks) \in Nat
      /\ \A i \in 1..Len(tasks) : tasks'[i] = tasks[i]
      /\ tasks'[Len(tasks) + 1].mKernArgBufSz = n
      /\ tasks'[Len(tasks) + 1].mKernArgBuf = blk
      /\ Range(tasks') = Range(tasks) \cup {[mKernArgBufSz |-> n, mKernArgBuf |-> blk]}
  <2> DEFINE T == [mKernArgBufSz: 0 .. MAX_ALLOC_SIZE, mKernArgBuf: Blocks \cup {NullBlock}]
             t == [mKernArgBufSz |-> n, mKernArgBuf |-> blk]
             old == tasks
  <2>1. old \in Seq(T) /\ t \in T /\ tasks' = Append(old, t) /\ t.mKernArgBufSz = n /\ t.mKernArgBuf = blk
    BY <1>2
  <2> HIDE DEF T, t, old
  <2>2. /\ Append(old, t) \in Seq(T)
        /\ Len(Append(old, t)) = Len(old) + 1
        /\ \A i \in 1..Len(old) : Append(old, t)[i] = old[i]
        /\ Append(old, t)[Len(old) + 1] = t
        /\ Range(Append(old, t)) = Range(old) \cup {t}
    BY <2>1, AppendLastRange
  <2>3. DOMAIN old = 1..Len(old) /\ Len(old) \in Nat /\ DOMAIN Append(old, t) = 1..(Len(old) + 1)
    BY <2>1, <2>2
  <2> QED
    BY <2>1, <2>2, <2>3 DEF T, t, old
<1>4. TasksInv'
  <2>1. \A i \in DOMAIN tasks' : RoomFor(tasks'[i].mKernArgBufSz, tasks'[i].mKernArgBuf)
    BY <1>3 DEF IInv, TasksInv
  <2>2. ASSUME NEW i \in DOMAIN tasks
        PROVE  Bytes(tasks[i].mKernArgBuf) \cap Bytes(blk) = {}
    <3> DEFINE t == tasks[i].mKernArgBuf
    <3>1. t \in TakenByTasks /\ t \in Blocks \cup {NullBlock}
      <4>1. tasks[i] \in [mKernArgBufSz: 0 .. MAX_ALLOC_SIZE, mKernArgBuf: Blocks \cup {NullBlock}]
        <5> DEFINE T == [mKernArgBufSz: 0 .. MAX_ALLOC_SIZE, mKernArgBuf: Blocks \cup {NullBlock}]
        <5>1. tasks \in Seq(T)
          BY <1>2
        <5> HIDE DEF T
        <5>2. tasks[i] \in T
          BY <5>1
        <5> QED
          BY <5>2 DEF T
      <4>2. tasks[i] \in Range(tasks)
        BY DEF Range
      <4> QED
        BY <4>1, <4>2 DEF TakenByTasks
    <3>2. t \in given \cup {NullBlock}
      BY <3>1 DEF IInv, TasksInv
    <3>3. Bytes(NullBlock) = {}
      BY DEF Bytes, NullBlock
    <3>4. CASE t # NullBlock /\ blk # NullBlock
      <4>1. Apart(t, blk) /\ t \in Blocks /\ blk \in Blocks
        BY <3>1, <3>2, <3>4
      <4> QED
        BY <4>1, ApartBytes
    <3>5. CASE t = NullBlock \/ blk = NullBlock
      BY <3>3, <3>5
    <3> QED
      BY <3>4, <3>5
  <2>3. ASSUME NEW i \in DOMAIN tasks', NEW j \in DOMAIN tasks', i # j
        PROVE  Bytes(tasks'[i].mKernArgBuf) \cap Bytes(tasks'[j].mKernArgBuf) = {}
    <3>1. CASE i \in DOMAIN tasks /\ j \in DOMAIN tasks
      BY <1>3, <2>3, <3>1 DEF IInv, TasksInv
    <3>2. CASE i \in DOMAIN tasks /\ j = Len(tasks) + 1
      BY <1>3, <2>2, <3>2
    <3>3. CASE j \in DOMAIN tasks /\ i = Len(tasks) + 1
      BY <1>3, <2>2, <3>3
    <3>4. \A k \in DOMAIN tasks' : k \in DOMAIN tasks \/ k = Len(tasks) + 1
      <4>1. \A k \in 1..(Len(tasks) + 1) : k \in 1..Len(tasks) \/ k = Len(tasks) + 1
        BY <1>3
      <4> QED
        BY <1>3, <4>1
    <3> QED
      BY <2>3, <3>1, <3>2, <3>3, <3>4
  <2>4. TakenByTasks' \subseteq given' \cup {NullBlock}
    <3>1. TakenByTasks' = {t.mKernArgBuf : t \in Range(tasks')}
      BY DEF TakenByTasks
    <3>2. \A x \in TakenByTasks' : x \in TakenByTasks \/ x = blk
      BY <1>3, <3>1 DEF TakenByTasks
    <3>3. TakenByTasks \subseteq given \cup {NullBlock}
      BY DEF IInv, TasksInv
    <3> QED
      BY <3>2, <3>3
  <2> QED
    BY <2>1, <2>3, <2>4 DEF TasksInv
<1>5. TypeOK'
  BY <1>3 DEF IInv, TypeOK, regVars, queueVars, sigVars
<1>6. QueuesInOnePlace' /\ SignalInv'
  BY QuietQueues, QuietSignals DEF IInv
<1>7. DownInv'
  BY DEF DownInv
<1> QED
  BY <1>1, <1>4, <1>5, <1>6, <1>7 DEF IInv

(* makeTask of a registered kernel takes no block.                          *)
LEMMA MakeTaskStep ==
  ASSUME IInv, NEW k \in Kernels, MakeTask(k)
  PROVE  IInv'
<1>1. /\ tasks' = Append(tasks, [mKernArgBufSz |-> 0, mKernArgBuf |-> NullBlock])
      /\ UNCHANGED <<heapVars, regVars, queueVars, sigVars>>
  BY DEF MakeTask
<1>2. Up
  BY DEF MakeTask, IInv, DownInv
<1>3. HeapInv' /\ HeapsStay /\ Up' /\ given \subseteq given'
  BY <1>1, <1>2 DEF IInv, HeapInv, HeapsStay, heapVars, Up
<1>4. RoomFor(0, NullBlock) /\ 0 \in 0..MAX_ALLOC_SIZE
  BY HeapAssumption DEF RoomFor
<1>5. NullBlock \in Blocks \cup {NullBlock} /\ NullBlock \in given' \cup {NullBlock}
  OBVIOUS
<1>6. \A g \in given : NullBlock # NullBlock => Apart(g, NullBlock)
  OBVIOUS
<1> QED
  BY <1>1, <1>2, <1>3, <1>4, <1>5, <1>6, NewTask

(* The heap of a request, and a block taken from it.                        *)
LEMMA HeapGives ==
  ASSUME IInv, Up, NEW n \in 1..MAX_ALLOC_SIZE, NEW blk,
         HeapAllocate(HeapForSize(n), BucketOf(n), blk)
  PROVE  /\ HeapInv' /\ HeapsStay /\ Up'
         /\ given' = given \cup {blk}
         /\ blk \in Blocks /\ RoomFor(n, blk)
         /\ \A g \in given : Apart(g, blk)
<1>1. n \in 0..MAX_ALLOC_SIZE /\ n # 0 /\ n > 0
  BY HeapAssumption
<1>2. /\ HeapOK(HeapForSize(n), hsaBlocks, given)
      /\ BucketOf(n) \in DOMAIN HeapForSize(n)
      /\ HeapForSize(n)[BucketOf(n)].made
      /\ BucketOf(n) \in 1..NUM_BUCKETS
      /\ RoundUp(n) = BucketOf(n) * MIN_ALLOC_SIZE
  BY <1>1, HeapForSizeOK, Buckets DEF IInv
<1>3. /\ \A b \in DOMAIN mHeapsForSz : b \in DOMAIN HeapForSize(n)
      /\ \A b \in DOMAIN mHeapsForSz : mHeapsForSz[b].made => HeapForSize(n)[b] = mHeapsForSz[b]
  BY HeapForSizeAdds
<1>4. /\ HeapInv'
      /\ DOMAIN mHeapsForSz' = DOMAIN HeapForSize(n)
      /\ \A c \in DOMAIN HeapForSize(n) : mHeapsForSz'[c].made = HeapForSize(n)[c].made
      /\ given' = given \cup {blk}
      /\ Piece(blk, BucketOf(n), hsaBlocks')
      /\ \A g \in given : Apart(g, blk)
  <2> SUFFICES ASSUME NEW H, H = HeapForSize(n), NEW b, b = BucketOf(n)
               PROVE  /\ HeapInv'
                      /\ DOMAIN mHeapsForSz' = DOMAIN H
                      /\ \A c \in DOMAIN H : mHeapsForSz'[c].made = H[c].made
                      /\ given' = given \cup {blk}
                      /\ Piece(blk, b, hsaBlocks')
                      /\ \A g \in given : Apart(g, blk)
    OBVIOUS
  <2>1. /\ HeapOK(H, hsaBlocks, given) /\ b \in DOMAIN H /\ b # 0 /\ H[b].made
        /\ HeapAllocate(H, b, blk)
    BY <1>2
  <2> QED
    BY <2>1, HeapAllocateOK
<1>5. HeapsStay /\ Up'
  BY <1>3, <1>4 DEF HeapsStay, Up
<1>6. blk \in Blocks /\ RoomFor(n, blk)
  BY <1>1, <1>2, <1>4 DEF RoomFor, Piece
<1> QED
  BY <1>4, <1>5, <1>6

(* makeTask of a caller's own GpuKernInfo.                                  *)
LEMMA MakeOwnTaskStep ==
  ASSUME IInv, NEW n \in RequestSizes, MakeOwnTask(n)
  PROVE  IInv'
<1>1. Up /\ n # 0 /\ UNCHANGED <<regVars, queueVars, sigVars>>
  BY DEF MakeOwnTask
<1>2. n \in 0..MAX_ALLOC_SIZE /\ n \in 1..MAX_ALLOC_SIZE
  BY <1>1, RequestAssumption, HeapAssumption
<1>3. PICK blk : /\ HeapAllocate(HeapForSize(n), BucketOf(n), blk)
                 /\ tasks' = Append(tasks, [mKernArgBufSz |-> n, mKernArgBuf |-> blk])
  BY DEF MakeOwnTask
<1>4. /\ HeapInv' /\ HeapsStay /\ Up' /\ given' = given \cup {blk}
      /\ blk \in Blocks /\ RoomFor(n, blk) /\ \A g \in given : Apart(g, blk)
  BY <1>1, <1>2, <1>3, HeapGives
<1>5. given \subseteq given' /\ blk \in given' \cup {NullBlock} /\ blk \in Blocks \cup {NullBlock}
  BY <1>4
<1> QED
  BY <1>1, <1>2, <1>3, <1>4, <1>5, NewTask

(* Callers take blocks of their own,                                        *)
LEMMA TakeBlockStep ==
  ASSUME IInv, NEW n \in RequestSizes, TakeBlock(n)
  PROVE  IInv'
<1>1. /\ Up /\ n > 0
      /\ UNCHANGED <<regVars, tasks, queueVars, sigVars>>
  BY DEF TakeBlock, Allocate
<1>2. n \in 1..MAX_ALLOC_SIZE
  BY <1>1, RequestAssumption, HeapAssumption
<1>3. PICK blk : HeapAllocate(HeapForSize(n), BucketOf(n), blk)
  BY DEF TakeBlock, Allocate
<1>4. HeapInv' /\ HeapsStay /\ Up' /\ given' = given \cup {blk}
  BY <1>1, <1>2, <1>3, HeapGives
<1>5. InfoInv'
  BY <1>1, <1>4, QuietInfo DEF IInv, regVars
<1>6. TasksInv'
  BY <1>1, <1>4, QuietTasks DEF IInv
<1>7. QueuesInOnePlace' /\ SignalInv'
  BY <1>1, QuietQueues, QuietSignals DEF IInv
<1>8. TypeOK'
  BY <1>1 DEF IInv, TypeOK, regVars, queueVars, sigVars
<1>9. DownInv'
  BY <1>4 DEF DownInv
<1> QED
  BY <1>4, <1>5, <1>6, <1>7, <1>8, <1>9 DEF IInv

(* and free them: the size of a block leads back to its heap.               *)
LEMMA FreeBlockStep ==
  ASSUME IInv, NEW blk \in given, FreeBlock(blk)
  PROVE  IInv'
<1> DEFINE n == SizeOf(blk)
<1>1. blk \notin TakenByTasks /\ UNCHANGED <<regVars, tasks, queueVars, sigVars>>
  BY DEF FreeBlock
<1>2. Up
  BY DEF IInv, DownInv
<1>3. PICK b \in 1..NUM_BUCKETS : Piece(blk, b, hsaBlocks)
  BY DEF IInv, HeapInv, HeapOK
<1>4. n \in 0..MAX_ALLOC_SIZE /\ BucketOf(n) = b
  <2>1. blk.beg \in Nat /\ blk.end = blk.beg + b * MIN_ALLOC_SIZE
    BY <1>3, HeapAssumption DEF Piece, Blocks
  <2>2. b * MIN_ALLOC_SIZE \in 1..MAX_ALLOC_SIZE /\ BucketOf(b * MIN_ALLOC_SIZE) = b
    BY BucketOfPiece
  <2>3. n = b * MIN_ALLOC_SIZE
    BY <2>1, <2>2 DEF SizeOf
  <2> HIDE DEF n
  <2> QED
    BY <2>2, <2>3
<1>5. /\ mHeapsForSz' = [HeapForSize(n) EXCEPT ![b].mFreeBlocks = Append(@, blk)]
      /\ given' = given \ {blk} /\ hsaBlocks' = hsaBlocks
  BY <1>4 DEF FreeBlock, Deallocate
<1> HIDE DEF n
<1>6. /\ HeapOK(HeapForSize(n), hsaBlocks, given)
      /\ b \in DOMAIN HeapForSize(n)
      /\ HeapForSize(n)[b].made
  BY <1>4, HeapForSizeOK DEF IInv
<1>7. /\ \A c \in DOMAIN mHeapsForSz : c \in DOMAIN HeapForSize(n)
      /\ \A c \in DOMAIN mHeapsForSz : mHeapsForSz[c].made => HeapForSize(n)[c] = mHeapsForSz[c]
  BY HeapForSizeAdds
<1>8. /\ HeapInv'
      /\ DOMAIN mHeapsForSz' = DOMAIN HeapForSize(n)
      /\ \A c \in DOMAIN HeapForSize(n) : mHeapsForSz'[c].made = HeapForSize(n)[c].made
  <2> SUFFICES ASSUME NEW H, H = HeapForSize(n), NEW hs, hs = hsaBlocks, NEW held, held = given
               PROVE  /\ HeapInv'
                      /\ DOMAIN mHeapsForSz' = DOMAIN H
                      /\ \A c \in DOMAIN H : mHeapsForSz'[c].made = H[c].made
    OBVIOUS
  <2> DEFINE H2 == [H EXCEPT ![b].mFreeBlocks = Append(@, blk)]
  <2>1. HeapOK(H, hs, held) /\ b \in DOMAIN H /\ H[b].made /\ blk \in held /\ Piece(blk, b, hs)
    BY <1>3, <1>6
  <2>2. /\ HeapOK(H2, hs, held \ {blk})
        /\ DOMAIN H2 = DOMAIN H
        /\ \A c \in DOMAIN H : H2[c].made = H[c].made
    BY <2>1, PushOK
  <2>3. mHeapsForSz' = H2 /\ hsaBlocks' = hs /\ given' = held \ {blk}
    BY <1>5
  <2> HIDE DEF H2
  <2> QED
    BY <2>2, <2>3 DEF HeapInv
<1>9. HeapsStay /\ Up'
  BY <1>2, <1>7, <1>8 DEF HeapsStay, Up
<1>10. InfoInv'
  BY <1>1, <1>9, QuietInfo DEF IInv, regVars
<1>11. TasksInv'
  BY <1>1, <1>2, <1>5, QuietTasks DEF IInv
<1>12. QueuesInOnePlace' /\ SignalInv'
  BY <1>1, <1>2, QuietQueues, QuietSignals DEF IInv
<1>13. TypeOK'
  BY <1>1 DEF IInv, TypeOK, regVars, queueVars, sigVars
<1>14. DownInv'
  BY <1>9 DEF DownInv
<1> QED
  BY <1>8, <1>10, <1>11, <1>12, <1>13, <1>14 DEF IInv

(* Executors come with queues of their own,                                 *)
LEMMA NewExecutorStep ==
  ASSUME IInv, NEW e \in Execs, NEW numQs \in 1 .. MAX_ACTIVE_QUEUES + 1, NewExecutor(e, numQs)
  PROVE  IInv'
<1> DEFINE n == IF numQs <= MAX_ACTIVE_QUEUES THEN numQs ELSE MAX_ACTIVE_QUEUES
<1>1. /\ Up /\ mQueues[e] = <<>>
      /\ Queues!PoolAllocate(n, Queues!Taken(n).got)
      /\ mQueues' = [mQueues EXCEPT ![e] = Queues!Taken(n).got]
      /\ UNCHANGED <<heapVars, regVars, tasks, sigVars>>
  BY DEF NewExecutor
<1>2. n \in Nat
  BY PoolAssumption
<1> HIDE DEF n
<1>3. /\ queuePool \in Seq(Nat) /\ queuesMade \in Nat /\ mQueues \in [Execs -> Seq(Nat)]
      /\ OnePlace(queuePool, queuesMade, mQueues)
  BY OnePlaceEverywhere DEF IInv, TypeOK
<1>4. IsInjective(queuePool) /\ Range(queuePool) \subseteq 1..queuesMade
  BY <1>3 DEF OnePlace
<1> SUFFICES ASSUME NEW st, st = Queues!Taken(n)
             PROVE  IInv'
  OBVIOUS
<1>5. FairShare(queuePool, queuesMade, st, n)
  BY <1>2, <1>3, <1>4, QueuesTaken
<1>6. queuePool' = st.pool /\ queuesMade' = st.made /\ mQueues' = [mQueues EXCEPT ![e] = st.got]
  BY <1>1 DEF Queues!PoolAllocate
<1>7. st.pool \in Seq(Nat) /\ st.made \in Nat /\ st.got \in Seq(Nat)
  BY <1>5 DEF FairShare
<1>8. OnePlace(st.pool, st.made, [mQueues EXCEPT ![e] = st.got])
  <2> SUFFICES ASSUME NEW q, q = queuePool, NEW m, m = queuesMade, NEW mq, mq = mQueues
               PROVE  OnePlace(st.pool, st.made, [mq EXCEPT ![e] = st.got])
    OBVIOUS
  <2>1. /\ q \in Seq(Nat) /\ m \in Nat /\ mq \in [Execs -> Seq(Nat)]
        /\ OnePlace(q, m, mq) /\ mq[e] = <<>> /\ FairShare(q, m, st, n)
    BY <1>1, <1>3, <1>5
  <2> QED
    BY <1>2, <2>1, QueuesTakenOnce
<1>9. OnePlace(queuePool', queuesMade', mQueues')
  BY <1>6, <1>8
<1>10. QueuesInOnePlace'
  <2>1. QueuesInOnePlace' <=> OnePlace(queuePool, queuesMade, mQueues)'
    BY OnePlaceEverywhere, PTL
  <2> QED
    BY <1>9, <2>1 DEF OnePlace
<1>11. HeapInv' /\ InfoInv' /\ TasksInv' /\ Up' = Up
  BY <1>1, QuietHeap DEF IInv, regVars
<1>12. SignalInv'
  BY <1>1, <1>11, QuietSignals DEF IInv
<1>13. TypeOK'
  <2>1. mQueues' \in [Execs -> Seq(Nat)]
    BY <1>3, <1>6, <1>7
  <2> QED
    BY <1>1, <1>6, <1>7, <2>1 DEF IInv, TypeOK, regVars, sigVars
<1>14. DownInv'
  BY <1>1, <1>11 DEF DownInv
<1> QED
  BY <1>10, <1>11, <1>12, <1>13, <1>14 DEF IInv

(* and give them back.                                                      *)
LEMMA DestroyExecutorStep ==
  ASSUME IInv, NEW e \in Execs, DestroyExecutor(e)
  PROVE  IInv'
<1>1. /\ mQueues[e] # <<>>
      /\ queuePool' = queuePool \o mQueues[e] /\ queuesMade' = queuesMade
      /\ mQueues' = [mQueues EXCEPT ![e] = <<>>]
      /\ UNCHANGED <<heapVars, regVars, tasks, sigVars>>
  BY DEF DestroyExecutor, Queues!PoolDeallocate
<1>2. Up
  BY <1>1 DEF IInv, DownInv, Holders
<1>3. /\ queuePool \in Seq(Nat) /\ queuesMade \in Nat /\ mQueues \in [Execs -> Seq(Nat)]
      /\ OnePlace(queuePool, queuesMade, mQueues)
  BY OnePlaceEverywhere DEF IInv, TypeOK
<1>4. OnePlace(queuePool \o mQueues[e], queuesMade, [mQueues EXCEPT ![e] = <<>>])
  <2> SUFFICES ASSUME NEW q, q = queuePool, NEW m, m = queuesMade, NEW mq, mq = mQueues
               PROVE  OnePlace(q \o mq[e], m, [mq EXCEPT ![e] = <<>>])
    OBVIOUS
  <2>1. /\ q \in Seq(Nat) /\ m \in Nat /\ mq \in [Execs -> Seq(Nat)] /\ OnePlace(q, m, mq)
    BY <1>3
  <2> QED
    BY <2>1, QueuesGivenBack
<1>5. OnePlace(queuePool', queuesMade', mQueues')
  BY <1>1, <1>4
<1>6. QueuesInOnePlace'
  <2>1. QueuesInOnePlace' <=> OnePlace(queuePool, queuesMade, mQueues)'
    BY OnePlaceEverywhere, PTL
  <2> QED
    BY <1>5, <2>1 DEF OnePlace
<1>7. HeapInv' /\ InfoInv' /\ TasksInv' /\ Up' = Up
  BY <1>1, QuietHeap DEF IInv, regVars
<1>8. SignalInv'
  BY <1>1, <1>7, QuietSignals DEF IInv
<1>9. TypeOK'
  <2>1. mQueues' \in [Execs -> Seq(Nat)] /\ queuePool' \in Seq(Nat)
    <3>1. mQueues[e] \in Seq(Nat) /\ <<>> \in Seq(Nat)
      BY <1>3
    <3> QED
      BY <1>1, <1>3, <3>1
  <2> QED
    BY <1>1, <1>3, <2>1 DEF IInv, TypeOK, regVars, sigVars
<1>10. DownInv'
  BY <1>2, <1>7 DEF DownInv
<1> QED
  BY <1>6, <1>7, <1>8, <1>9, <1>10 DEF IInv

(* A launch borrows signals that nobody has.                                *)
LEMMA BorrowStep ==
  ASSUME IInv, Up, NEW n \in Nat, Borrow(n),
         UNCHANGED <<heapVars, regVars, tasks, queueVars>>
  PROVE  IInv'
<1>1. /\ Signals!PoolAllocate(n, Signals!Taken(n).got)
      /\ signals' = signals \o Signals!Taken(n).got
  BY DEF Borrow
<1>2. /\ sigPool \in Seq(Nat) /\ sigsMade \in Nat /\ signals \in Seq(Nat)
      /\ IsInjective(sigPool) /\ IsInjective(signals)
      /\ Range(signals) \cap Range(sigPool) = {}
      /\ Range(signals) \cup Range(sigPool) \subseteq 1..sigsMade
  BY DEF IInv, TypeOK, SignalInv, SignalsLentOnce
<1> SUFFICES ASSUME NEW st, st = Signals!Taken(n)
             PROVE  IInv'
  OBVIOUS
<1>3. FairShare(sigPool, sigsMade, st, n)
  BY <1>2, SignalsTaken
<1>4. sigPool' = st.pool /\ sigsMade' = st.made /\ signals' = signals \o st.got
  BY <1>1 DEF Signals!PoolAllocate
<1>5. /\ st.pool \in Seq(Nat) /\ st.made \in Nat /\ st.got \in Seq(Nat)
      /\ sigsMade <= st.made
      /\ IsInjective(st.pool) /\ IsInjective(st.got)
      /\ Range(st.pool) \cap Range(st.got) = {}
      /\ Range(st.pool) \cup Range(st.got) = Range(sigPool) \cup ((sigsMade + 1)..st.made)
  BY <1>3 DEF FairShare
<1> DEFINE pool == st.pool
           made == st.made
           got == st.got
<1> HIDE DEF pool, made, got
<1>6. /\ Range(signals) \cap Range(got) = {}
      /\ Range(signals) \cap Range(pool) = {}
      /\ Range(signals) \cup Range(pool) \cup Range(got) \subseteq 1..made
  <2>1. \A x \in Range(signals) \cup Range(sigPool) : x \in Nat /\ 1 <= x /\ x <= sigsMade
    BY <1>2
  <2>2. Range(signals) \cap ((sigsMade + 1)..made) = {}
    BY <1>2, <1>5, <2>1 DEF made
  <2>3. 1..sigsMade \subseteq 1..made /\ (sigsMade + 1)..made \subseteq 1..made
    BY <1>2, <1>5 DEF made
  <2>4. Range(pool) \cup Range(got) = Range(sigPool) \cup ((sigsMade + 1)..made)
    BY <1>5 DEF pool, got, made
  <2> QED
    BY <1>2, <2>2, <2>3, <2>4
<1>7. /\ signals \o got \in Seq(Nat)
      /\ Range(signals \o got) = Range(signals) \cup Range(got)
      /\ IsInjective(signals \o got)
  <2>1. got \in Seq(Nat) /\ IsInjective(got)
    BY <1>5 DEF got
  <2>2. IsInjective(signals \o got)
    BY <1>2, <1>6, <2>1, InjectiveConcat
  <2> QED
    BY <1>2, <2>1, <2>2, ConcatenateLists
<1>8. /\ sigPool' = pool /\ sigsMade' = made /\ signals' = signals \o got
      /\ pool \in Seq(Nat) /\ made \in Nat /\ IsInjective(pool) /\ Range(pool) \cap Range(got) = {}
  BY <1>4, <1>5 DEF pool, made, got
<1>9. SignalInv'
  BY <1>6, <1>7, <1>8 DEF SignalInv, SignalsLentOnce
<1>10. HeapInv' /\ InfoInv' /\ TasksInv' /\ Up' = Up
  BY QuietHeap DEF IInv, regVars
<1>11. QueuesInOnePlace'
  BY QuietQueues DEF IInv
<1>12. TypeOK'
  BY <1>7, <1>8 DEF IInv, TypeOK, regVars, queueVars
<1>13. DownInv'
  BY <1>10 DEF DownInv
<1> QED
  BY <1>9, <1>10, <1>11, <1>12, <1>13 DEF IInv

(* The destructor: all queues are back, so all are destroyed.               *)
LEMMA DestroyResourceStep ==
  ASSUME IInv, DestroyResource
  PROVE  IInv'
<1>1. /\ \A e \in Execs : mQueues[e] = <<>>
      /\ sigPool' = <<>> /\ sigsMade' = sigsMade - Len(sigPool)
      /\ queuePool' = <<>> /\ queuesMade' = queuesMade - Len(queuePool)
      /\ mKernInfoByName' = <<>>
      /\ mHeapsForSz' = <<>> /\ given' = {}
      /\ hsaBlocks' \subseteq hsaBlocks
      /\ UNCHANGED <<tasks, mQueues, signals>>
  BY DEF DestroyResource, Signals!PoolDestroy, Queues!PoolDestroy, DestroyHeaps
<1>2. DOMAIN <<>> = {} /\ Range(<<>>) = {} /\ IsInjective(<<>>) /\ <<>> \in Seq(Nat)
  BY EmptyList
<1>3. ~Up'
  BY <1>1, <1>2 DEF Up
<1>4. /\ queuePool \in Seq(Nat) /\ queuesMade \in Nat /\ mQueues \in [Execs -> Seq(Nat)]
      /\ OnePlace(queuePool, queuesMade, mQueues)
  BY OnePlaceEverywhere DEF IInv, TypeOK
<1>5. queuesMade' = 0 /\ OnePlace(<<>>, 0, mQueues)
  <2> SUFFICES ASSUME NEW q, q = queuePool, NEW m, m = queuesMade, NEW mq, mq = mQueues
               PROVE  m - Len(q) = 0 /\ OnePlace(<<>>, 0, mq)
    BY <1>1
  <2>1. /\ q \in Seq(Nat) /\ m \in Nat /\ mq \in [Execs -> Seq(Nat)]
        /\ OnePlace(q, m, mq) /\ \A e \in Execs : mq[e] = <<>>
    BY <1>1, <1>4
  <2>2. Len(q) = m /\ OnePlace(<<>>, 0, mq)
    BY <2>1, AllQueuesBack
  <2> QED
    BY <2>1, <2>2
<1>6. QueuesInOnePlace'
  <2>1. QueuesInOnePlace' <=> OnePlace(queuePool, queuesMade, mQueues)'
    BY OnePlaceEverywhere, PTL
  <2>2. OnePlace(queuePool', queuesMade', mQueues')
    BY <1>1, <1>5
  <2> QED
    BY <2>1, <2>2 DEF OnePlace
<1>7. Holders' = {}
  BY <1>1 DEF Holders
<1>8. DownInv'
  BY <1>1, <1>2, <1>7 DEF DownInv
<1>9. HeapInv'
  <2>1. hsaBlocks' \subseteq BigBlocks
    BY <1>1 DEF IInv, HeapInv, HeapOK
  <2> QED
    BY <1>1, <1>2, <2>1 DEF HeapInv, HeapOK
<1>10. InfoInv'
  BY <1>1, <1>2 DEF InfoInv
<1>11. TasksInv'
  BY <1>1, <1>3 DEF IInv, TasksInv
<1>12. SignalInv'
  BY <1>1, <1>2, <1>3 DEF IInv, SignalInv, SignalsLentOnce
<1>13. TypeOK'
  <2>1. sigsMade - Len(sigPool) \in Nat
    <3>1. /\ sigPool \in Seq(Nat) /\ sigsMade \in Nat /\ IsInjective(sigPool)
          /\ Range(sigPool) \subseteq 1..sigsMade
      BY DEF IInv, TypeOK, SignalInv, DestroyResource
    <3> SUFFICES ASSUME NEW p, p = sigPool, NEW m, m = sigsMade
                 PROVE  m - Len(p) \in Nat
      OBVIOUS
    <3>2. p \in Seq(Nat) /\ m \in Nat /\ IsInjective(p) /\ Range(p) \subseteq 1..m
      BY <3>1
    <3>3. DOMAIN p = 1..Len(p) /\ Len(p) \in Nat
      BY <3>2
    <3>4. p \in Injection(1..Len(p), 1..m)
      <4>1. p \in [1..Len(p) -> 1..m]
        BY <3>2, <3>3 DEF Range
      <4> QED
        BY <3>2, <4>1 DEF Injection
    <3>5. IsFiniteSet(1..m) /\ \A k \in Nat : Cardinality(1..k) = k
      <4>1. \A k \in Nat : IsFiniteSet(1..k) /\ Cardinality(1..k) = IF 1 > k THEN 0 ELSE k - 1 + 1
        BY FS_Interval
      <4>2. \A k \in Nat : (IF 1 > k THEN 0 ELSE k - 1 + 1) = k
        OBVIOUS
      <4> QED
        BY <3>2, <4>1, <4>2
    <3>6. Cardinality(1..Len(p)) <= Cardinality(1..m)
      BY <3>4, <3>5, FS_Injection
    <3> QED
      BY <3>2, <3>3, <3>5, <3>6
  <2> QED
    BY <1>1, <1>2, <1>5, <2>1 DEF IInv, TypeOK
<1> QED
  BY <1>6, <1>8, <1>9, <1>10, <1>11, <1>12, <1>13 DEF IInv

-----------------------------------------------------------------------------
(* A step of the resource preserves the invariant.                          *)
LEMMA NextIInv ==
  ASSUME IInv, [Next]_gpuVars
  PROVE  IInv'
<1>1. CASE UNCHANGED gpuVars
  <2>1. UNCHANGED <<heapVars, mKernInfoByName, tasks, queueVars, sigVars>>
    BY <1>1 DEF gpuVars, regVars
  <2>2. HeapInv' /\ InfoInv' /\ TasksInv' /\ Up' = Up
    BY <2>1, QuietHeap DEF IInv
  <2>3. QueuesInOnePlace' /\ Holders' = Holders /\ SignalInv'
    BY <2>1, <2>2, QuietQueues, QuietSignals DEF IInv
  <2>4. TypeOK' /\ DownInv'
    BY <2>1, <2>2, <2>3 DEF IInv, TypeOK, DownInv, heapVars, queueVars, sigVars
  <2> QED
    BY <2>2, <2>3, <2>4 DEF IInv
<1>2. ASSUME NEW k \in Kernels, RegisterByName(k)
      PROVE  IInv'
  BY <1>2, RegisterStep DEF RegisterByName
<1>3. ASSUME NEW f \in Funcs, RegisterByPtr(f)
      PROVE  IInv'
  <2>1. Name[f] \in Kernels
    BY RequestAssumption
  <2> QED
    BY <1>3, <2>1, RegisterStep DEF RegisterByPtr
<1>4. ASSUME NEW k \in Kernels, MakeTask(k)
      PROVE  IInv'
  BY <1>4, MakeTaskStep
<1>14. ASSUME NEW n \in RequestSizes, MakeOwnTask(n)
       PROVE  IInv'
  BY <1>14, MakeOwnTaskStep
<1>5. ASSUME NEW n \in RequestSizes, TakeBlock(n)
      PROVE  IInv'
  BY <1>5, TakeBlockStep
<1>6. ASSUME NEW blk \in given, FreeBlock(blk)
      PROVE  IInv'
  BY <1>6, FreeBlockStep
<1>7. ASSUME NEW e \in Execs, NEW n \in 1 .. MAX_ACTIVE_QUEUES + 1, NewExecutor(e, n)
      PROVE  IInv'
  BY <1>7, NewExecutorStep
<1>8. ASSUME NEW e \in Execs, DestroyExecutor(e)
      PROVE  IInv'
  BY <1>8, DestroyExecutorStep
<1>9. ASSUME NEW e \in Execs, mQueues[e] # <<>>
      PROVE  Up /\ Len(mQueues[e]) + 1 \in Nat
  <2>1. e \in Holders
    BY <1>9 DEF Holders
  <2>2. mQueues[e] \in Seq(Nat)
    BY DEF IInv, TypeOK
  <2> QED
    BY <2>1, <2>2 DEF IInv, DownInv
<1>10. ASSUME NEW e \in Execs, LaunchTask(e)
       PROVE  IInv'
  BY <1>9, <1>10, BorrowStep DEF LaunchTask
<1>11. ASSUME NEW e \in Execs, StartBatch(e)
       PROVE  IInv'
  <2>1. mQueues[e] # <<>>
    BY <1>11 DEF StartBatch
  <2>2. Up /\ Len(mQueues[e]) + 1 \in Nat
    BY <1>9, <2>1
  <2> SUFFICES ASSUME NEW n, n = Len(mQueues[e]) + 1
               PROVE  IInv'
    OBVIOUS
  <2> QED
    BY <1>11, <2>2, BorrowStep DEF StartBatch
<1>12. ASSUME NEW s \in Range(signals), WaitOnTask(s)
       PROVE  IInv'
  BY <1>1, <1>12 DEF WaitOnTask
<1>13. ASSUME DestroyResource
       PROVE  IInv'
  BY <1>13, DestroyResourceStep
<1> QED
  BY <1>1, <1>2, <1>3, <1>4, <1>5, <1>6, <1>7, <1>8, <1>10, <1>11, <1>12, <1>13, <1>14 DEF Next

(* The invariant holds whatever the program asks of the resource.           *)
THEOREM Invariance == Spec => []IInv
<1>1. Init => IInv
  BY InitIInv
<1>2. IInv /\ [Next]_gpuVars => IInv'
  BY NextIInv
<1> QED
  BY <1>1, <1>2, PTL DEF Spec

(* A queue is in one place, in the pool or with one executor, and none is   *)
(* lost: the executors of a GPU never write packets to the same queue, and  *)
(* every queue is destroyed in the end.                                     *)
THEOREM EveryQueueInOnePlace == Spec => []QueuesInOnePlace
<1>1. IInv => QueuesInOnePlace
  BY DEF IInv
<1> QED
  BY <1>1, Invariance, PTL

(* No signal stands for two tasks, however often handles are waited on.     *)
THEOREM NoSignalLentTwice == Spec => []SignalsLentOnce
<1>1. IInv => SignalsLentOnce
  BY DEF IInv, SignalInv
<1> QED
  BY <1>1, Invariance, PTL

(* No byte of argument memory belongs to two blocks, of whatever sizes and  *)
(* whether they are held or free.                                           *)
THEOREM NoBlocksOverlap == Spec => []BlocksApart
<1>1. ASSUME HeapInv
      PROVE  BlocksApart
  <2> DEFINE slotSet == (DOMAIN mHeapsForSz) \X (1 .. MAX_ALLOC_SIZE)
             slots == {s \in slotSet : s[2] <= Len(mHeapsForSz[s[1]].mFreeBlocks)}
             blk(s) == mHeapsForSz[s[1]].mFreeBlocks[s[2]]
  <2>1. ASSUME NEW s \in slots
        PROVE  /\ s[1] \in DOMAIN mHeapsForSz /\ s[2] \in 1..Len(mHeapsForSz[s[1]].mFreeBlocks)
               /\ blk(s) \in Blocks
               /\ s = <<s[1], s[2]>>
    <3>1. PICK b \in DOMAIN mHeapsForSz, i \in 1..MAX_ALLOC_SIZE :
             s = <<b, i>> /\ i <= Len(mHeapsForSz[b].mFreeBlocks)
      OBVIOUS
    <3>2. mHeapsForSz[b].mFreeBlocks \in Seq(Blocks)
      BY <1>1 DEF HeapInv, HeapOK, Heaps
    <3>3. i \in 1..Len(mHeapsForSz[b].mFreeBlocks)
      BY <3>1, <3>2
    <3>4. Piece(mHeapsForSz[b].mFreeBlocks[i], b, hsaBlocks)
      BY <1>1, <3>3 DEF HeapInv, HeapOK
    <3> QED
      BY <3>1, <3>3, <3>4 DEF Piece
  <2>2. given \subseteq Blocks
    BY <1>1 DEF HeapInv, HeapOK, Piece
  <2>3. ASSUME NEW s \in slots, NEW t \in slots, s # t
        PROVE  Bytes(blk(s)) \cap Bytes(blk(t)) = {}
    <3>1. s[1] # t[1] \/ s[2] # t[2]
      BY <2>1, <2>3
    <3>2. Apart(blk(s), blk(t))
      BY <1>1, <2>1, <3>1 DEF HeapInv, HeapOK
    <3> QED
      BY <2>1, <3>2, ApartBytes
  <2>4. ASSUME NEW g \in given, NEW h \in given, g # h
        PROVE  Bytes(g) \cap Bytes(h) = {}
    BY <1>1, <2>2, <2>4, ApartBytes DEF HeapInv, HeapOK
  <2>5. ASSUME NEW g \in given, NEW s \in slots
        PROVE  Bytes(g) \cap Bytes(blk(s)) = {}
    <3>1. Apart(g, blk(s))
      BY <1>1, <2>1 DEF HeapInv, HeapOK
    <3> QED
      BY <2>1, <2>2, <3>1, ApartBytes
  <2>6. ASSUME NEW x \in given \cup FreeBlocks
        PROVE  x.big \in hsaBlocks /\ x.end <= MAX_ALLOC_SIZE /\ x.beg % MIN_ALLOC_SIZE = 0
    <3>1. \E b \in 1..NUM_BUCKETS : Piece(x, b, hsaBlocks)
      <4>1. CASE x \in given
        BY <1>1, <4>1 DEF HeapInv, HeapOK
      <4>2. CASE x \in FreeBlocks
        <5>1. PICK b \in DOMAIN mHeapsForSz : x \in Range(mHeapsForSz[b].mFreeBlocks)
          BY <4>2 DEF FreeBlocks
        <5>2. mHeapsForSz[b].mFreeBlocks \in Seq(Blocks)
          BY <1>1 DEF HeapInv, HeapOK, Heaps
        <5>3. PICK i \in 1..Len(mHeapsForSz[b].mFreeBlocks) : x = mHeapsForSz[b].mFreeBlocks[i]
          BY <5>1, <5>2 DEF Range
        <5>4. Piece(x, b, hsaBlocks)
          BY <1>1, <5>3 DEF HeapInv, HeapOK
        <5> QED
          BY <5>4 DEF Piece
      <4> QED
        BY <4>1, <4>2
    <3>2. MAX_ALLOC_SIZE \in Nat
      BY HeapAssumption
    <3> QED
      BY <3>1, <3>2 DEF Piece, Blocks
  <2>7. \A s, t \in slots : s # t => Bytes(blk(s)) \cap Bytes(blk(t)) = {}
    BY <2>3
  <2>8. \A g, h \in given : g # h => Bytes(g) \cap Bytes(h) = {}
    BY <2>4
  <2>9. \A g \in given, s \in slots : Bytes(g) \cap Bytes(blk(s)) = {}
    BY <2>5
  <2>10. \A x \in given \cup FreeBlocks :
            /\ x.big \in hsaBlocks
            /\ x.end <= MAX_ALLOC_SIZE
            /\ x.beg % MIN_ALLOC_SIZE = 0
    BY <2>6
  <2> QED
    BY <2>7, <2>8, <2>9, <2>10, Zenon DEF BlocksApart
<1>2. IInv => BlocksApart
  BY <1>1 DEF IInv
<1> QED
  BY <1>2, Invariance, PTL

(* The block of a task is as large as its kernel's information says, begins *)
(* aligned and shares no byte with another task's, whatever was asked of    *)
(* the heap and given back to it before (executor.h:55).                    *)
THEOREM TasksAlwaysHaveRoom == Spec => []TasksHaveRoom
<1>1. ASSUME IInv
      PROVE  TasksHaveRoom
  <2>1. ASSUME NEW i \in DOMAIN tasks,
               NEW n, n = tasks[i].mKernArgBufSz, NEW blk, blk = tasks[i].mKernArgBuf
        PROVE  SizeOf(blk) >= n /\ blk.beg % MIN_ALLOC_SIZE = 0
    <3>1. n \in 0..MAX_ALLOC_SIZE
      <4> DEFINE T == [mKernArgBufSz: 0 .. MAX_ALLOC_SIZE, mKernArgBuf: Blocks \cup {NullBlock}]
      <4>1. tasks \in Seq(T)
        BY <1>1 DEF IInv, TypeOK
      <4> HIDE DEF T
      <4>2. tasks[i] \in T
        BY <4>1
      <4> QED
        BY <2>1, <4>2 DEF T
    <3>2. RoomFor(n, blk)
      BY <1>1, <2>1 DEF IInv, TasksInv
    <3>3. MIN_ALLOC_SIZE \in Nat \ {0} /\ MAX_ALLOC_SIZE \in Nat
      BY HeapAssumption
    <3>4. CASE n = 0
      <4>1. blk.beg = 0 /\ blk.end = 0
        BY <3>2, <3>4 DEF RoomFor, NullBlock
      <4>2. SizeOf(blk) = 0 /\ 0 % MIN_ALLOC_SIZE = 0
        BY <3>3, <4>1 DEF SizeOf
      <4> QED
        BY <3>4, <4>1, <4>2
    <3>5. CASE n # 0
      <4>1. blk \in Blocks /\ blk.beg % MIN_ALLOC_SIZE = 0 /\ blk.end = blk.beg + RoundUp(n)
        BY <3>2, <3>5 DEF RoomFor
      <4>2. RoundUp(n) \in 0..MAX_ALLOC_SIZE /\ n <= RoundUp(n)
        BY <3>1, Buckets
      <4>3. blk.beg \in Nat
        BY <3>3, <4>1 DEF Blocks
      <4>4. SizeOf(blk) = RoundUp(n)
        BY <3>3, <4>1, <4>2, <4>3 DEF SizeOf
      <4> QED
        BY <3>1, <3>3, <4>1, <4>2, <4>4
    <3> QED
      BY <3>4, <3>5
  <2>2. \A i, j \in DOMAIN tasks :
          i # j => Bytes(tasks[i].mKernArgBuf) \cap Bytes(tasks[j].mKernArgBuf) = {}
    BY <1>1 DEF IInv, TasksInv
  <2> QED
    BY <2>1, <2>2 DEF TasksHaveRoom
<1>2. IInv => TasksHaveRoom
  BY <1>1
<1> QED
  BY <1>2, Invariance, PTL

-----------------------------------------------------------------------------
(* Sums.  The sum of f over S is the number of cells of as many columns as  *)
(* S has elements, the column of x being f[x] high.                         *)
Cells(f, S) == {c \in S \X Nat : c[2] < f[c[1]]}

(* A column more adds its height.                                           *)
LEMMA CellsOfOneMore ==
  ASSUME NEW S, NEW x \in S, NEW f \in [S -> Nat],
         IsFiniteSet(Cells(f, S \ {x}))
  PROVE  /\ IsFiniteSet(Cells(f, S))
         /\ Cardinality(Cells(f, S)) = f[x] + Cardinality(Cells(f, S \ {x}))
<1> DEFINE column == {c \in {x} \X Nat : c[2] < f[x]}
           rest == Cells(f, S \ {x})
<1>1. IsFiniteSet(column) /\ Cardinality(column) = f[x]
  <2> DEFINE heights == 0..(f[x] - 1)
             g == [i \in heights |-> <<x, i>>]
  <2>1. f[x] \in Nat
    OBVIOUS
  <2>2. IsFiniteSet(heights) /\ Cardinality(heights) = f[x]
    <3>1. ASSUME NEW k \in Nat
          PROVE  IsFiniteSet(0..(k - 1)) /\ Cardinality(0..(k - 1)) = k
      <4>1. 0 \in Int /\ k - 1 \in Int
        OBVIOUS
      <4>2. /\ IsFiniteSet(0..(k - 1))
            /\ Cardinality(0..(k - 1)) = IF 0 > k - 1 THEN 0 ELSE k - 1 - 0 + 1
        BY <4>1, FS_Interval
      <4> QED
        BY <4>2
    <3> QED
      BY <2>1, <3>1
  <2>3. g \in Bijection(heights, column)
    <3>1. g \in [heights -> column]
      BY <2>1
    <3>2. \A i, j \in heights : g[i] = g[j] => i = j
      OBVIOUS
    <3>3. \A c \in column : \E i \in heights : g[i] = c
      <4> SUFFICES ASSUME NEW c \in column
                   PROVE  c[2] \in heights /\ g[c[2]] = c
        OBVIOUS
      <4>1. c = <<x, c[2]>> /\ c[2] \in Nat /\ c[2] < f[x]
        OBVIOUS
      <4> QED
        BY <2>1, <4>1
    <3> HIDE DEF g, heights, column
    <3> QED
      BY <3>1, <3>2, <3>3 DEF Bijection, Injection, Surjection, IsInjective
  <2> HIDE DEF g, heights, column
  <2> QED
    BY <2>2, <2>3, FS_Bijection DEF ExistsBijection
<1>2. Cells(f, S) = rest \cup column
  BY DEF Cells
<1>3. rest \cap column = {}
  BY DEF Cells
<1> HIDE DEF rest, column
<1>4. Cardinality({}) = 0
  BY FS_EmptySet
<1>5. /\ IsFiniteSet(rest \cup column)
      /\ Cardinality(rest \cup column) = Cardinality(rest) + Cardinality(column) - Cardinality(rest \cap column)
  BY <1>1, FS_Union DEF rest
<1>6. Cardinality(rest) \in Nat /\ f[x] \in Nat
  BY FS_CardinalityType DEF rest
<1>7. Cardinality(rest \cap column) = 0
  BY <1>3, <1>4
<1>8. /\ IsFiniteSet(Cells(f, S))
      /\ Cardinality(Cells(f, S)) = f[x] + Cardinality(rest)
  <2>1. Cardinality(rest \cup column) = f[x] + Cardinality(rest)
    BY <1>1, <1>5, <1>6, <1>7
  <2> QED
    BY <1>2, <1>5, <2>1
<1> QED
  BY <1>8 DEF rest

(* Finitely many columns have finitely many cells.                          *)
LEMMA CellsFinite ==
  ASSUME NEW S, IsFiniteSet(S), NEW f \in [S -> Nat]
  PROVE  IsFiniteSet(Cells(f, S)) /\ Cardinality(Cells(f, S)) \in Nat
<1> DEFINE Good(n) == \A T \in SUBSET S : Cardinality(T) = n => IsFiniteSet(Cells(f, T))
           N == {n \in Nat : Good(n)}
<1>1. 0 \in N
  <2> SUFFICES ASSUME NEW T \in SUBSET S, Cardinality(T) = 0
               PROVE  IsFiniteSet(Cells(f, T))
    OBVIOUS
  <2>1. T = {}
    BY FS_Subset, FS_EmptySet
  <2>2. Cells(f, T) = {}
    BY <2>1 DEF Cells
  <2> QED
    BY <2>2, FS_EmptySet
<1>2. ASSUME NEW n \in N
      PROVE  n + 1 \in N
  <2>0. n \in Nat /\ n + 1 - 1 = n
    OBVIOUS
  <2> SUFFICES ASSUME NEW T \in SUBSET S, Cardinality(T) = n + 1
               PROVE  IsFiniteSet(Cells(f, T))
    OBVIOUS
  <2>1. IsFiniteSet(T)
    BY FS_Subset
  <2>2. PICK x \in T : TRUE
    BY <2>1, FS_EmptySet
  <2> DEFINE g == [t \in T |-> f[t]]
  <2>3. Cardinality(T \ {x}) = n /\ T \ {x} \in SUBSET S
    <3>1. Cardinality(T \ {x}) = Cardinality(T) - 1
      BY <2>1, <2>2, FS_RemoveElement
    <3> QED
      BY <2>0, <3>1
  <2>4. IsFiniteSet(Cells(f, T \ {x}))
    BY <2>3
  <2>5. g \in [T -> Nat] /\ Cells(g, T \ {x}) = Cells(f, T \ {x}) /\ Cells(g, T) = Cells(f, T)
    BY DEF Cells
  <2> HIDE DEF g
  <2> QED
    BY <2>2, <2>4, <2>5, CellsOfOneMore
<1>3. N \in SUBSET Nat
  OBVIOUS
<1> HIDE DEF N
<1>4. N = Nat
  BY <1>1, <1>2, <1>3, NatSetInduction
<1>5. Cardinality(S) \in Nat
  BY FS_CardinalityType
<1>6. IsFiniteSet(Cells(f, S))
  BY <1>4, <1>5 DEF N
<1> QED
  BY <1>6, FS_CardinalityType

(* g is computed along S by taking away the element that c chooses, and     *)
(* adding what f has for it.                                                *)
GoesDown(S, f, c, g) ==
  /\ g[{}] = 0
  /\ \A T \in SUBSET S : T # {} => g[T] = f[c[T]] + g[T \ {c[T]}]

(* Two such functions agree on a finite set.                                *)
LEMMA SameRecursion ==
  ASSUME NEW S, IsFiniteSet(S), NEW f, NEW c, NEW g, NEW h,
         \A T \in SUBSET S : T # {} => c[T] \in T,
         GoesDown(S, f, c, g), GoesDown(S, f, c, h)
  PROVE  g[S] = h[S]
<1> DEFINE N == {n \in Nat : \A T \in SUBSET S : Cardinality(T) = n => g[T] = h[T]}
<1>1. 0 \in N
  <2> SUFFICES ASSUME NEW T \in SUBSET S, Cardinality(T) = 0
               PROVE  g[T] = h[T]
    OBVIOUS
  <2>1. T = {}
    BY FS_Subset, FS_EmptySet
  <2> QED
    BY <2>1 DEF GoesDown
<1> HIDE DEF N
<1>2. ASSUME NEW n \in N
      PROVE  n + 1 \in N
  <2>1. n \in Nat /\ n + 1 - 1 = n /\ n + 1 \in Nat \ {0}
    BY DEF N
  <2> SUFFICES ASSUME NEW T \in SUBSET S, Cardinality(T) = n + 1
               PROVE  g[T] = h[T]
    BY <2>1 DEF N
  <2>2. IsFiniteSet(T) /\ T # {}
    BY <2>1, FS_Subset, FS_EmptySet
  <2>3. PICK x \in T : /\ g[T] = f[x] + g[T \ {x}]
                       /\ h[T] = f[x] + h[T \ {x}]
    BY <2>2 DEF GoesDown
  <2>4. Cardinality(T \ {x}) = n
    <3>1. Cardinality(T \ {x}) = Cardinality(T) - 1
      BY <2>2, <2>3, FS_RemoveElement
    <3> QED
      BY <2>1, <3>1
  <2>5. g[T \ {x}] = h[T \ {x}]
    BY <2>4 DEF N
  <2> QED
    BY <2>3, <2>5
<1>3. N \in SUBSET Nat
  BY DEF N
<1>4. N = Nat
  BY <1>1, <1>2, <1>3, NatSetInduction
<1>5. Cardinality(S) \in Nat
  BY FS_CardinalityType
<1> QED
  BY <1>4, <1>5 DEF N

(* The cells are counted so.                                                *)
LEMMA CellsGoDown ==
  ASSUME NEW S, IsFiniteSet(S), NEW f \in [S -> Nat], NEW c,
         \A T \in SUBSET S : T # {} => c[T] \in T,
         NEW h, h = [T \in SUBSET S |-> Cardinality(Cells(f, T))]
  PROVE  GoesDown(S, f, c, h)
<1>1. h[{}] = 0
  <2>1. Cells(f, {}) = {}
    BY DEF Cells
  <2> QED
    BY <2>1, FS_EmptySet
<1>2. ASSUME NEW T \in SUBSET S, T # {}
      PROVE  h[T] = f[c[T]] + h[T \ {c[T]}]
  <2>1. PICK x \in T : x = c[T]
    BY <1>2
  <2> DEFINE g == [t \in T |-> f[t]]
             R == T \ {x}
             gR == [t \in R |-> f[t]]
  <2>2. /\ g \in [T -> Nat] /\ g[x] = f[x]
        /\ Cells(g, R) = Cells(f, R) /\ Cells(g, T) = Cells(f, T)
    BY DEF Cells
  <2>3. gR \in [R -> Nat] /\ Cells(gR, R) = Cells(f, R)
    BY DEF Cells
  <2>4. IsFiniteSet(R)
    BY FS_Subset, FS_RemoveElement
  <2> HIDE DEF g, gR
  <2>5. IsFiniteSet(Cells(g, R))
    <3> HIDE DEF R
    <3> QED
      BY <2>2, <2>3, <2>4, CellsFinite
  <2>6. Cardinality(Cells(g, T)) = g[x] + Cardinality(Cells(g, R))
    BY <2>1, <2>2, <2>5, CellsOfOneMore
  <2>7. h[T] = Cardinality(Cells(f, T)) /\ h[R] = Cardinality(Cells(f, R))
    OBVIOUS
  <2> QED
    BY <2>1, <2>2, <2>6, <2>7
<1> QED
  BY <1>1, <1>2 DEF GoesDown

(* What the folds of the community modules compute for the sum of f over S. *)
SumStep(f, T, it) ==
  IF T = {} THEN 0 ELSE LET x == CHOOSE y \in T : TRUE IN f[x] + it[T \ {x}]

SumsUp(S, f, g)  == g = [T \in SUBSET S |-> SumStep(f, T, g)]
ChoosesAny(S, c) == \A T \in SUBSET S : T # {} => c[T] = CHOOSE y \in T : TRUE

LEMMA SumsGoDown ==
  ASSUME NEW S, NEW f, NEW c, ChoosesAny(S, c), NEW g
  PROVE  /\ SumsUp(S, f, g) => GoesDown(S, f, c, g)
         /\ GoesDown(S, f, c, g) /\ g = [T \in SUBSET S |-> g[T]] => SumsUp(S, f, g)
<1>1. SumStep(f, {}, g) = 0 /\ {} \in SUBSET S
  BY DEF SumStep
<1>2. ASSUME NEW T \in SUBSET S, T # {}
      PROVE  SumStep(f, T, g) = f[c[T]] + g[T \ {c[T]}]
  <2>1. c[T] = CHOOSE y \in T : TRUE
    BY <1>2 DEF ChoosesAny
  <2> QED
    BY <1>2, <2>1, Zenon DEF SumStep
<1>3. ASSUME SumsUp(S, f, g)
      PROVE  GoesDown(S, f, c, g)
  <2>1. \A T \in SUBSET S : g[T] = SumStep(f, T, g)
    BY <1>3, Zenon DEF SumsUp
  <2> QED
    BY <1>1, <1>2, <2>1, Zenon DEF GoesDown
<1>4. ASSUME GoesDown(S, f, c, g), g = [T \in SUBSET S |-> g[T]]
      PROVE  SumsUp(S, f, g)
  <2>1. ASSUME NEW T \in SUBSET S
        PROVE  g[T] = SumStep(f, T, g)
    <3>1. CASE T = {}
      BY <1>1, <1>4, <3>1 DEF GoesDown
    <3>2. CASE T # {}
      BY <1>2, <1>4, <3>2, Zenon DEF GoesDown
    <3> QED
      BY <3>1, <3>2
  <2> QED
    BY <1>4, <2>1, Zenon DEF SumsUp
<1> QED
  BY <1>3, <1>4, Zenon

(* There is such a function, and what it has for S is the number of cells.  *)
LEMMA SumIsCells ==
  ASSUME NEW S, IsFiniteSet(S), NEW f \in [S -> Nat]
  PROVE  /\ \E g : SumsUp(S, f, g)
         /\ \A g : SumsUp(S, f, g) => g[S] = Cardinality(Cells(f, S))
<1> DEFINE c == [T \in SUBSET S |-> CHOOSE y \in T : TRUE]
           h == [T \in SUBSET S |-> Cardinality(Cells(f, T))]
<1>1. ChoosesAny(S, c)
  BY Zenon DEF ChoosesAny
<1>2. h[S] = Cardinality(Cells(f, S)) /\ h = [T \in SUBSET S |-> h[T]]
  BY Zenon
<1>3. \A T \in SUBSET S : T # {} => c[T] \in T
  <2> SUFFICES ASSUME NEW T \in SUBSET S, T # {}
               PROVE  c[T] \in T
    OBVIOUS
  <2>1. c[T] = CHOOSE y \in T : TRUE
    BY Zenon
  <2>2. (CHOOSE y \in T : TRUE) \in T
    BY Zenon
  <2> QED
    BY <2>1, <2>2, Zenon
<1>4. GoesDown(S, f, c, h)
  BY <1>3, CellsGoDown, Zenon
<1> HIDE DEF c, h
<1>5. SumsUp(S, f, h)
  BY <1>1, <1>2, <1>4, SumsGoDown, Zenon
<1>6. ASSUME NEW g, SumsUp(S, f, g)
      PROVE  g[S] = Cardinality(Cells(f, S))
  <2>1. GoesDown(S, f, c, g)
    BY <1>1, <1>6, SumsGoDown, Zenon
  <2>2. g[S] = h[S]
    BY <1>3, <1>4, <2>1, SameRecursion, Zenon
  <2> QED
    BY <1>2, <2>2, Zenon
<1> QED
  BY <1>5, <1>6, Zenon

-----------------------------------------------------------------------------
(* The buffers, which share nothing with the resources above.              *)
(* The bytes of some blocks.                                                *)
LEMMA SumOnSet ==
  ASSUME NEW S, IsFiniteSet(S), NEW f \in [S -> Nat]
  PROVE  totalBytes(f) = Cardinality(Cells(f, S))
<1>1. PICK it : it = CHOOSE g : SumsUp(S, f, g)
  OBVIOUS
<1>5. SumsUp(S, f, it)
  BY <1>1, SumIsCells, Zenon
<1>2. DOMAIN f = S
  OBVIOUS
<1>3. SumFunctionOnSet(f, S) = it[S]
  BY <1>1, Zenon
     DEF SumsUp, SumStep, SumFunctionOnSet, FoldFunctionOnSet, MapThenFoldSet
<1>4. it[S] = Cardinality(Cells(f, S))
  BY <1>5, SumIsCells, Zenon
<1> QED
  BY <1>2, <1>3, <1>4, Zenon DEF totalBytes

(* The same of the blocks with some names.                                  *)
LEMMA BytesOfSome ==
  ASSUME NEW D, IsFiniteSet(D), NEW blocks \in [D -> Nat], NEW T \in SUBSET D
  PROVE  /\ IsFiniteSet(T)
         /\ IsFiniteSet(Cells(blocks, T))
         /\ Cardinality(Cells(blocks, T)) \in Nat
         /\ totalBytes(Restrict(blocks, T)) = Cardinality(Cells(blocks, T))
<1>1. IsFiniteSet(T)
  BY FS_Subset
<1> DEFINE f == Restrict(blocks, T)
<1>2. f \in [T -> Nat] /\ Cells(f, T) = Cells(blocks, T)
  BY DEF Restrict, Cells
<1> HIDE DEF f
<1>3. IsFiniteSet(Cells(f, T)) /\ Cardinality(Cells(f, T)) \in Nat
  BY <1>1, <1>2, CellsFinite
<1>4. totalBytes(f) = Cardinality(Cells(f, T))
  BY <1>1, <1>2, SumOnSet
<1> QED
  BY <1>1, <1>2, <1>3, <1>4 DEF f

(* Where the blocks of a PartDeviceData begin: each behind those before it. *)
Before(order, k) == {order[j] : j \in 1..k}

LEMMA BlocksInARow ==
  ASSUME NEW D, IsFiniteSet(D), NEW blocks \in [D -> Nat],
         NEW n \in Nat, NEW order \in [1..n -> D], IsInjective(order), NEW i \in 1..n
  PROVE  /\ BlkBegin(blocks, order, i) \in Nat
         /\ \A j \in 1..n : i < j =>
              BlkBegin(blocks, order, i) + blocks[order[i]] <= BlkBegin(blocks, order, j)
         /\ BlkBegin(blocks, order, i) + blocks[order[i]]
              <= Cardinality(Cells(blocks, Range(order)))
<1> DEFINE height(k) == Cardinality(Cells(blocks, Before(order, k)))
<1>1. ASSUME NEW k \in 0..n
      PROVE  Before(order, k) \in SUBSET D /\ Before(order, k) \subseteq Range(order)
  BY DEF Before, Range
<1>2. ASSUME NEW k \in 1..n
      PROVE  BlkBegin(blocks, order, k) = height(k - 1) /\ height(k - 1) \in Nat
  <2>1. Before(order, k - 1) \in SUBSET D
    BY <1>1
  <2>2. /\ Cardinality(Cells(blocks, Before(order, k - 1))) \in Nat
        /\ totalBytes(Restrict(blocks, Before(order, k - 1)))
             = Cardinality(Cells(blocks, Before(order, k - 1)))
    BY <2>1, BytesOfSome
  <2> QED
    BY <2>2 DEF BlkBegin, Before
<1>3. ASSUME NEW T \in SUBSET D, Before(order, i) \subseteq T
      PROVE  height(i) <= Cardinality(Cells(blocks, T))
  <2>1. IsFiniteSet(Cells(blocks, T))
    BY BytesOfSome
  <2>2. Cells(blocks, Before(order, i)) \subseteq Cells(blocks, T)
    BY <1>3 DEF Cells
  <2> QED
    BY <2>1, <2>2, FS_Subset
<1>4. height(i) = blocks[order[i]] + height(i - 1)
  <2> DEFINE T == Before(order, i)
             x == order[i]
             f == Restrict(blocks, T)
  <2>1. x \in T /\ T \ {x} = Before(order, i - 1)
    <3>1. \A j \in 1..i : j \in 1..n /\ (j # i => j \in 1..(i - 1) /\ order[j] # x)
      BY DEF IsInjective
    <3>2. \A j \in 1..(i - 1) : j \in 1..i /\ j # i
      OBVIOUS
    <3> QED
      BY <3>1, <3>2 DEF Before
  <2>2. T \in SUBSET D /\ f \in [T -> Nat] /\ f[x] = blocks[x]
    BY <1>1, <2>1 DEF Restrict
  <2>3. Cells(f, T) = Cells(blocks, T) /\ Cells(f, T \ {x}) = Cells(blocks, T \ {x})
    BY DEF Cells, Restrict
  <2>4. IsFiniteSet(Cells(blocks, T \ {x})) 
    BY <2>2, BytesOfSome
  <2> HIDE DEF f, T, x
  <2>5. Cardinality(Cells(f, T)) = f[x] + Cardinality(Cells(f, T \ {x}))
    BY <2>1, <2>2, <2>3, <2>4, CellsOfOneMore
  <2> QED
    BY <2>1, <2>2, <2>3, <2>5 DEF T, x
<1>5. ASSUME NEW j \in 1..n, i < j
      PROVE  height(i) <= height(j - 1)
  <2>1. Before(order, i) \subseteq Before(order, j - 1)
    <3>1. \A k \in 1..i : k \in 1..(j - 1)
      BY <1>5
    <3> QED
      BY <3>1 DEF Before
  <2>2. Before(order, j - 1) \in SUBSET D
    BY <1>1
  <2> QED
    BY <1>3, <2>1, <2>2
<1>6. height(i) <= Cardinality(Cells(blocks, Range(order)))
  <2>1. Range(order) \in SUBSET D
    BY DEF Range
  <2> QED
    BY <1>1, <1>3, <2>1
<1>7. blocks[order[i]] \in Nat
  OBVIOUS
<1> HIDE DEF height
<1> QED
  BY <1>2, <1>4, <1>5, <1>6, <1>7

-----------------------------------------------------------------------------
(* The invariant of the managers.                                           *)
HeldBlocks(i) == {c \in SlotBlocks : c[1] = i}
HeldSizes(i)  == [c \in HeldBlocks(i) |-> Blk(c).size]

SlotsLaid ==
  /\ \A b, c \in SlotBlocks :
       b # c => BlkBytes(Blk(b)) \cap BlkBytes(Blk(c)) = {}
  /\ \A b \in SlotBlocks :
       /\ IsFiniteSet(HeldBlocks(b[1]))
       /\ HeldSizes(b[1]) \in [HeldBlocks(b[1]) -> Nat]
       /\ Blk(b).ptr[2] + Blk(b).size
            <= Cardinality(Cells(HeldSizes(b[1]), HeldBlocks(b[1])))
       /\ Blk(b).size > 0 => Blk(b).ptr[1] \in partBufs
  /\ \A s \in Range(mDeviceDataSlots) : s.mDeviceDataPtr = NullPtr

(* A list is of addresses in use from one allocator, each once.             *)
OwnedIn(mem, s, by) ==
  /\ s \in Seq(Address) /\ IsInjective(s)
  /\ \A b \in Range(s) : b \in DOMAIN mem /\ mem[b] = by

(* The managers' lists and the constructor's memory are all there is, each   *)
(* address from the allocator that goes with it.                            *)
Accounted(mem, atmi, dev, hst, part) ==
  /\ OwnedIn(mem, atmi, "atmi") /\ OwnedIn(mem, dev, "hipMalloc")
  /\ OwnedIn(mem, hst, "hipHostMalloc")
  /\ \A a \in part : mem[a] = "hipMalloc"
  /\ Range(dev) \cap part = {}
  /\ DOMAIN mem = Range(atmi) \cup Range(dev) \cup Range(hst) \cup part
  /\ DOMAIN mem \subseteq Address

AccountedNow == Accounted(live, mBufs, mDevBufs, mHostBufs, partBufs)

BlocksTyped ==
  /\ IsFiniteSet(DOMAIN mDataBlocks) /\ DOMAIN mDataBlocks \subseteq VarName
  /\ mDataBlocks \in [DOMAIN mDataBlocks -> Nat]

BufInv == AccountedNow /\ BlocksTyped /\ SlotsLaid

(* The sum that SlotsApart speaks of.                                       *)
LEMMA SumOfHeld ==
  ASSUME NEW i, IsFiniteSet(HeldBlocks(i)), HeldSizes(i) \in [HeldBlocks(i) -> Nat]
  PROVE  MapThenSumSet(LAMBDA c : Blk(c).size, HeldBlocks(i))
           = Cardinality(Cells(HeldSizes(i), HeldBlocks(i)))
<1> DEFINE P == HeldBlocks(i)
           f == HeldSizes(i)
           Step(T, g) == IF T = {} THEN 0
                         ELSE LET x == CHOOSE y \in T : TRUE IN Blk(x).size + g[T \ {x}]
           Same(g) == g = [T \in SUBSET P |-> Step(T, g)]
<1>1. PICK it : it = CHOOSE g : Same(g)
  OBVIOUS
<1>2. MapThenSumSet(LAMBDA c : Blk(c).size, P) = it[P]
  BY <1>1, Zenon DEF MapThenSumSet, MapThenFoldSet
<1>3. ASSUME NEW g, NEW T \in SUBSET P
      PROVE  Step(T, g) = SumStep(f, T, g)
  <2>1. CASE T = {}
    BY <2>1 DEF SumStep
  <2>2. CASE T # {}
    <3>1. PICK x : x = CHOOSE y \in T : TRUE
      OBVIOUS
    <3>2. x \in T
      BY <2>2, <3>1, Zenon
    <3>3. f[x] = Blk(x).size
      BY <3>2 DEF HeldSizes
    <3> QED
      BY <2>2, <3>1, <3>3, Zenon DEF SumStep
  <2> QED
    BY <2>1, <2>2
<1> HIDE DEF Step
<1>4. \A g : Same(g) <=> SumsUp(P, f, g)
  BY <1>3, Zenon DEF SumsUp
<1> HIDE DEF Same
<1>5. SumsUp(P, f, it)
  BY <1>1, <1>4, SumIsCells, Zenon
<1>6. it[P] = Cardinality(Cells(f, P))
  BY <1>5, SumIsCells, Zenon
<1> QED
  BY <1>2, <1>6

(* The invariant is enough.                                                 *)
LEMMA BufInvImplies ==
  ASSUME BufInv
  PROVE  BuffersAccounted
<1>1. AllocationsOwned /\ SlotsLaid /\ partBufs \subseteq DOMAIN live
  BY DEF BufInv, AccountedNow, Accounted, OwnedIn, AllocationsOwned, Owned
<1>2. ASSUME NEW b \in SlotBlocks, Blk(b).size > 0
      PROVE  /\ Blk(b).ptr[1] \in DOMAIN live
             /\ Blk(b).ptr[2] + Blk(b).size
                  <= MapThenSumSet(LAMBDA c : Blk(c).size,
                                       {c \in SlotBlocks : c[1] = b[1]})
  <2>1. /\ IsFiniteSet(HeldBlocks(b[1]))
        /\ HeldSizes(b[1]) \in [HeldBlocks(b[1]) -> Nat]
        /\ Blk(b).ptr[2] + Blk(b).size
             <= Cardinality(Cells(HeldSizes(b[1]), HeldBlocks(b[1])))
        /\ Blk(b).ptr[1] \in partBufs
    BY <1>1, <1>2 DEF SlotsLaid
  <2>2. MapThenSumSet(LAMBDA c : Blk(c).size, HeldBlocks(b[1]))
          = Cardinality(Cells(HeldSizes(b[1]), HeldBlocks(b[1])))
    BY <2>1, SumOfHeld, Zenon
  <2>3. PICK total : total = MapThenSumSet(LAMBDA c : Blk(c).size, HeldBlocks(b[1]))
    OBVIOUS
  <2>4. Blk(b).ptr[2] + Blk(b).size <= total
    BY <2>1, <2>2, <2>3
  <2> QED
    BY <1>1, <2>1, <2>3, <2>4, Zenon DEF HeldBlocks
<1>3. \A b, c \in SlotBlocks :
        b # c => BlkBytes(Blk(b)) \cap BlkBytes(Blk(c)) = {}
  BY <1>1 DEF SlotsLaid
<1>4. SlotsApart
  BY <1>2, <1>3, Zenon DEF SlotsApart
<1> QED
  BY <1>1, <1>4 DEF BuffersAccounted

(* A program starts without buffers.                                        *)
LEMMA BufInvStarts ==
  ASSUME BufInit
  PROVE  BufInv
<1>1. /\ live = <<>> /\ mBufs = <<>> /\ mDevBufs = <<>> /\ mHostBufs = <<>>
      /\ mDataBlocks = <<>> /\ mDeviceDataSlots = <<>> /\ partBufs = {}
  BY DEF BufInit
<1>2. DOMAIN live = {} /\ DOMAIN mDataBlocks = {} /\ DOMAIN mDeviceDataSlots = {}
  BY <1>1
<1>3. BlocksTyped
  BY <1>1, <1>2, FS_EmptySet DEF BlocksTyped
<1>4. Range(<<>>) = {} /\ IsInjective(<<>>)
  BY DEF Range, IsInjective
<1>5. AccountedNow
  BY <1>1, <1>2, <1>4 DEF AccountedNow, Accounted, OwnedIn
<1>6. SlotsLaid
  BY <1>1, <1>2, <1>4 DEF SlotsLaid, SlotBlocks
<1> QED
  BY <1>1, <1>3, <1>5, <1>6 DEF BufInv

(* The slots are as they were.                                              *)
LEMMA SlotsKept ==
  ASSUME SlotsLaid, mDeviceDataSlots' = mDeviceDataSlots, partBufs' = partBufs
  PROVE  SlotsLaid'
<1>1. SlotBlocks' = SlotBlocks /\ \A b : Blk(b)' = Blk(b)
  BY DEF SlotBlocks, Blk
<1>2. \A i : HeldBlocks(i)' = HeldBlocks(i)
  BY <1>1 DEF HeldBlocks
<1>3. \A i : HeldSizes(i)' = HeldSizes(i)
  BY <1>1, <1>2 DEF HeldSizes
<1> QED
  BY <1>1, <1>2, <1>3 DEF SlotsLaid, BlkBytes

(* An address not in use joins a list.                                      *)
LEMMA TakesFresh ==
  ASSUME NEW mem, NEW s, NEW by, OwnedIn(mem, s, by),
         NEW a \in Address, a \notin DOMAIN mem
  PROVE  /\ OwnedIn(Allocated(mem, a, by), Append(s, a), by)
         /\ Range(Append(s, a)) = Range(s) \cup {a}
<1>1. s \in Seq(Address) /\ IsInjective(s) /\ a \notin Range(s)
  BY DEF OwnedIn
<1>2. Append(s, a) \in Seq(Address) /\ Range(Append(s, a)) = Range(s) \cup {a}
  BY <1>1, AppendLastRange
<1>3. IsInjective(Append(s, a))
  BY <1>1, InjectiveAppend
<1> QED
  BY <1>2, <1>3 DEF Allocated, OwnedIn

(* What is not freed stays as it is, on whatever list it is.                *)
LEMMA MemoryFreed ==
  ASSUME NEW mem, NEW as
  PROVE  /\ DOMAIN Freed(mem, as) = DOMAIN mem \ as
         /\ \A b \in DOMAIN mem \ as : Freed(mem, as)[b] = mem[b]
BY DEF Freed

LEMMA StaysOwned ==
  ASSUME NEW mem, NEW s, NEW by, OwnedIn(mem, s, by), NEW new,
         \A b \in Range(s) : b \in DOMAIN new /\ new[b] = mem[b]
  PROVE  OwnedIn(new, s, by)
BY DEF OwnedIn

(* The lists of different managers have no address in common.               *)
LEMMA ListsApart ==
  ASSUME NEW mem, NEW atmi, NEW dev, NEW hst, NEW part, Accounted(mem, atmi, dev, hst, part)
  PROVE  /\ Range(atmi) \cap (Range(dev) \cup Range(hst) \cup part) = {}
         /\ Range(hst) \cap (Range(dev) \cup part) = {}
         /\ Range(dev) \cap part = {}
BY DEF Accounted, OwnedIn

(* makeDeviceCopy and makeSharedCopy.                                       *)
LEMMA Takes ==
  ASSUME NEW mem, NEW atmi, NEW dev, NEW hst, NEW part, Accounted(mem, atmi, dev, hst, part),
         NEW a \in Fresh(mem)
  PROVE  /\ Accounted(Allocated(mem, a, "atmi"), Append(atmi, a), dev, hst, part)
         /\ Accounted(Allocated(mem, a, "hipMalloc"), atmi, Append(dev, a), hst, part)
         /\ Accounted(Allocated(mem, a, "hipHostMalloc"), atmi, dev, Append(hst, a), part)
<1>1. a \in Address /\ a \notin DOMAIN mem
  BY DEF Fresh
<1>2. /\ OwnedIn(mem, atmi, "atmi") /\ OwnedIn(mem, dev, "hipMalloc")
      /\ OwnedIn(mem, hst, "hipHostMalloc")
      /\ \A b \in part : b \in DOMAIN mem /\ mem[b] = "hipMalloc"
      /\ Range(dev) \cap part = {}
      /\ DOMAIN mem = Range(atmi) \cup Range(dev) \cup Range(hst) \cup part
      /\ DOMAIN mem \subseteq Address
  BY DEF Accounted
<1>3. ASSUME NEW by
      PROVE  LET new == Allocated(mem, a, by) IN
             /\ \A s, al : OwnedIn(mem, s, al) => OwnedIn(new, s, al)
             /\ \A s : OwnedIn(mem, s, by) => /\ OwnedIn(new, Append(s, a), by)
                                              /\ Range(Append(s, a)) = Range(s) \cup {a}
             /\ DOMAIN new = DOMAIN mem \cup {a}
             /\ \A b \in part : new[b] = "hipMalloc"
  <2> DEFINE new == Allocated(mem, a, by)
  <2>1. DOMAIN new = DOMAIN mem \cup {a} /\ \A b \in DOMAIN mem : new[b] = mem[b]
    BY <1>1 DEF Allocated
  <2>2. ASSUME NEW s, OwnedIn(mem, s, by)
        PROVE  OwnedIn(new, Append(s, a), by) /\ Range(Append(s, a)) = Range(s) \cup {a}
    BY <1>1, <2>2, TakesFresh
  <2> HIDE DEF new
  <2>3. ASSUME NEW s, NEW al, OwnedIn(mem, s, al)
        PROVE  OwnedIn(new, s, al)
    BY <2>1, <2>3 DEF OwnedIn
  <2>4. \A b \in part : new[b] = "hipMalloc"
    BY <1>2, <2>1
  <2> QED
    BY <2>1, <2>2, <2>3, <2>4 DEF new
<1>4. Accounted(Allocated(mem, a, "atmi"), Append(atmi, a), dev, hst, part)
  BY <1>1, <1>2, <1>3 DEF Accounted
<1>5. a \notin part
  BY <1>1, <1>2
<1>6. Accounted(Allocated(mem, a, "hipMalloc"), atmi, Append(dev, a), hst, part)
  BY <1>1, <1>2, <1>3, <1>5 DEF Accounted
<1>7. Accounted(Allocated(mem, a, "hipHostMalloc"), atmi, dev, Append(hst, a), part)
  BY <1>1, <1>2, <1>3 DEF Accounted
<1> QED
  BY <1>4, <1>6, <1>7

(* The destructors of the managers.                                         *)
LEMMA Frees ==
  ASSUME NEW mem, NEW atmi, NEW dev, NEW hst, NEW part, Accounted(mem, atmi, dev, hst, part)
  PROVE  /\ Accounted(Freed(mem, Range(atmi)), <<>>, dev, hst, part)
         /\ Accounted(Freed(mem, Range(dev) \cup Range(hst)), atmi, <<>>, <<>>, part)
<1>1. /\ OwnedIn(mem, atmi, "atmi") /\ OwnedIn(mem, dev, "hipMalloc")
      /\ OwnedIn(mem, hst, "hipHostMalloc")
      /\ \A b \in part : b \in DOMAIN mem /\ mem[b] = "hipMalloc"
      /\ DOMAIN mem = Range(atmi) \cup Range(dev) \cup Range(hst) \cup part
      /\ DOMAIN mem \subseteq Address
  BY DEF Accounted
<1>2. Range(<<>>) = {} /\ \A new, by : OwnedIn(new, <<>>, by)
  BY DEF OwnedIn, Range, IsInjective
<1>3. Accounted(Freed(mem, Range(atmi)), <<>>, dev, hst, part)
  <2> DEFINE new == Freed(mem, Range(atmi))
  <2>1. /\ DOMAIN new = DOMAIN mem \ Range(atmi)
        /\ \A b \in DOMAIN mem \ Range(atmi) : new[b] = mem[b]
    BY MemoryFreed
  <2> HIDE DEF new
  <2>2. /\ \A b \in Range(dev) \cup Range(hst) \cup part :
             b \in DOMAIN mem \ Range(atmi)
        /\ DOMAIN new = Range(dev) \cup Range(hst) \cup part
    BY <1>1, <2>1, ListsApart
  <2>3. OwnedIn(new, dev, "hipMalloc") /\ OwnedIn(new, hst, "hipHostMalloc")
    BY <1>1, <2>1, <2>2, StaysOwned
  <2>4. Range(dev) \cap part = {}
    BY ListsApart
  <2>5. \A b \in part : new[b] = "hipMalloc"
    BY <1>1, <2>1, <2>2
  <2>6. Accounted(new, <<>>, dev, hst, part)
    BY <1>1, <1>2, <2>1, <2>2, <2>3, <2>4, <2>5 DEF Accounted
  <2> QED
    BY <2>6 DEF new
<1>4. Accounted(Freed(mem, Range(dev) \cup Range(hst)), atmi, <<>>, <<>>, part)
  <2> DEFINE gone == Range(dev) \cup Range(hst)
             new == Freed(mem, gone)
  <2>1. DOMAIN new = DOMAIN mem \ gone /\ \A b \in DOMAIN mem \ gone : new[b] = mem[b]
    BY MemoryFreed
  <2>2. /\ \A b \in Range(atmi) \cup part : b \in DOMAIN mem \ gone
        /\ DOMAIN mem \ gone = Range(atmi) \cup part
    BY <1>1, ListsApart
  <2> HIDE DEF new, gone
  <2>3. OwnedIn(new, atmi, "atmi")
    BY <1>1, <2>1, <2>2, StaysOwned
  <2>4. \A b \in part : new[b] = "hipMalloc"
    BY <1>1, <2>1, <2>2
  <2>5. Accounted(new, atmi, <<>>, <<>>, part)
    BY <1>1, <1>2, <2>1, <2>2, <2>3, <2>4 DEF Accounted
  <2> QED
    BY <2>5 DEF new, gone
<1> QED
  BY <1>3, <1>4

(* A slot holds at least what its blocks take.                              *)
SizedAs(f, i, R, blocks) == \A x \in R : f[<<i, x>>] = blocks[x]

LEMMA HeldInSlot ==
  ASSUME NEW R, IsFiniteSet(R), NEW D, R \in SUBSET D, NEW blocks \in [D -> Nat],
         NEW i, NEW H, H = {i} \X R, NEW f \in [H -> Nat],
         SizedAs(f, i, R, blocks)
  PROVE  /\ IsFiniteSet(H)
         /\ Cardinality(Cells(blocks, R)) <= Cardinality(Cells(f, H))
<1>1. IsFiniteSet(H)
  <2> DEFINE g == [x \in R |-> <<i, x>>]
  <2>1. g \in Surjection(R, H)
    BY DEF Surjection
  <2> QED
    BY <2>1, FS_Surjection
<1>2. IsFiniteSet(Cells(f, H))
  BY <1>1, CellsFinite
<1>3. Cardinality(Cells(blocks, R)) <= Cardinality(Cells(f, H))
  <2> DEFINE from == Cells(blocks, R)
             to == Cells(f, H)
             g == [c \in from |-> <<<<i, c[1]>>, c[2]>>]
  <2>1. g \in [from -> to]
    BY DEF Cells, SizedAs
  <2>2. \A b, c \in from : g[b] = g[c] => b = c
    BY DEF Cells
  <2> HIDE DEF from, to, g
  <2>3. g \in Injection(from, to)
    BY <2>1, <2>2 DEF Injection, IsInjective
  <2>4. Cardinality(from) <= Cardinality(to)
    BY <1>2, <2>3, FS_Injection DEF to
  <2> QED
    BY <2>4 DEF from, to
<1> QED
  BY <1>1, <1>3

(* makeDeviceDataBuffers: the blocks of a slot lie in a row, and the slots  *)
(* have addresses of their own unless there is nothing to lay out.          *)
LEMMA NewSlotsLaid ==
  ASSUME BlocksTyped,
         NEW num \in Nat, NEW order \in SetToSeqs(DOMAIN mDataBlocks), NEW at,
         \/ totalBytes(mDataBlocks) = 0 /\ at = [i \in 1..num |-> NullPtr]
         \/ at \in [1..num -> Address] /\ IsInjective(at),
         mDeviceDataSlots' = [i \in 1..num |-> PartDeviceData(at[i], order)],
         partBufs' = partBufs \cup (Range(at) \ {NullPtr})
  PROVE  SlotsLaid'
<1> SUFFICES ASSUME NEW blocks, blocks = mDataBlocks, NEW D, D = DOMAIN blocks,
                    NEW m, m = Cardinality(D), NEW R, R = Range(order)
             PROVE  SlotsLaid'
  OBVIOUS
<1>1. /\ IsFiniteSet(D) /\ D \subseteq VarName /\ blocks \in [D -> Nat] /\ m \in Nat
  BY FS_CardinalityType DEF BlocksTyped
<1>2. order \in [1..m -> D] /\ IsInjective(order)
  BY DEF SetToSeqs, IsInjective
<1>3. R \in SUBSET D /\ R = {order[j] : j \in 1..m}
  BY <1>2 DEF Range
<1> DEFINE place(x) == CHOOSE j \in 1..m : order[j] = x
           begin(x) == BlkBegin(blocks, order, place(x))
           all == Cardinality(Cells(blocks, R))
<1>4. ASSUME NEW x \in R
      PROVE  place(x) \in 1..m /\ order[place(x)] = x
  BY <1>3
<1>5. ASSUME NEW x \in R
      PROVE  begin(x) \in Nat /\ blocks[x] \in Nat /\ begin(x) + blocks[x] <= all
  <2>1. PICK i \in 1..m : i = place(x) /\ order[i] = x
    BY <1>4
  <2> HIDE DEF place
  <2>2. /\ BlkBegin(blocks, order, i) \in Nat
        /\ BlkBegin(blocks, order, i) + blocks[order[i]] <= Cardinality(Cells(blocks, Range(order)))
    BY <1>1, <1>2, BlocksInARow
  <2>3. blocks[x] \in Nat
    BY <1>1, <1>3
  <2> QED
    BY <2>1, <2>2, <2>3
<1>6. ASSUME NEW x \in R, NEW y \in R, x # y
      PROVE  begin(x) + blocks[x] <= begin(y) \/ begin(y) + blocks[y] <= begin(x)
  <2>1. PICK i \in 1..m : i = place(x) /\ order[i] = x
    BY <1>4
  <2>2. PICK j \in 1..m : j = place(y) /\ order[j] = y
    BY <1>4
  <2> HIDE DEF place
  <2>3. i < j \/ j < i
    BY <1>6, <2>1, <2>2
  <2>4. i < j => BlkBegin(blocks, order, i) + blocks[order[i]] <= BlkBegin(blocks, order, j)
    BY <1>1, <1>2, BlocksInARow
  <2>5. j < i => BlkBegin(blocks, order, j) + blocks[order[j]] <= BlkBegin(blocks, order, i)
    BY <1>1, <1>2, BlocksInARow
  <2> QED
    BY <2>1, <2>2, <2>3, <2>4, <2>5
<1>7. all \in Nat /\ IsFiniteSet(Cells(blocks, R)) /\ IsFiniteSet(R)
  BY <1>1, <1>3, BytesOfSome
<1>8. ASSUME NEW i \in 1..num
      PROVE  /\ mDeviceDataSlots'[i].mDeviceDataPtr = NullPtr
             /\ DOMAIN mDeviceDataSlots'[i].blocks = R
             /\ \A x \in R : mDeviceDataSlots'[i].blocks[x]
                              = [ptr |-> <<at[i], begin(x)>>, size |-> blocks[x]]
  <2>1. mDeviceDataSlots'[i] = PartDeviceData(at[i], order)
    OBVIOUS
  <2>2. DOMAIN order = 1..m /\ Range(order) = R
    BY <1>2
  <2> QED
    BY <2>1, <2>2 DEF PartDeviceData
<1> HIDE DEF begin, place, all
<1>9. DOMAIN mDeviceDataSlots' = 1..num
  OBVIOUS
<1>10. SlotBlocks' = (1..num) \X R
  <2>1. R \subseteq VarName
    BY <1>1, <1>3
  <2> QED
    BY <1>8, <1>9, <2>1 DEF SlotBlocks
<1>11. ASSUME NEW b \in (1..num) \X R
       PROVE  Blk(b)' = [ptr |-> <<at[b[1]], begin(b[2])>>, size |-> blocks[b[2]]]
  BY <1>8 DEF Blk
<1>12. ASSUME NEW b \in (1..num) \X R, blocks[b[2]] > 0
       PROVE  at \in [1..num -> Address] /\ IsInjective(at)
  <2>1. totalBytes(blocks) = Cardinality(Cells(blocks, D))
    BY <1>1, SumOnSet
  <2>2. all <= Cardinality(Cells(blocks, D))
    <3>1. Cells(blocks, R) \subseteq Cells(blocks, D)
      BY <1>3 DEF Cells
    <3>2. IsFiniteSet(Cells(blocks, D))
      BY <1>1, CellsFinite
    <3> QED
      BY <3>1, <3>2, FS_Subset DEF all
  <2>3. Cardinality(Cells(blocks, D)) \in Nat
    BY <1>1, CellsFinite
  <2>4. b[2] \in R
    OBVIOUS
  <2>5. begin(b[2]) \in Nat /\ blocks[b[2]] \in Nat /\ begin(b[2]) + blocks[b[2]] <= all
    BY <1>5, <2>4
  <2>6. totalBytes(blocks) # 0
    BY <1>7, <1>12, <2>1, <2>2, <2>3, <2>5
  <2> QED
    BY <2>6
<1>13. ASSUME NEW b \in (1..num) \X R, NEW c \in (1..num) \X R, b # c
       PROVE  BlkBytes(Blk(b)') \cap BlkBytes(Blk(c)') = {}
  <2> SUFFICES ASSUME NEW z \in BlkBytes(Blk(b)') \cap BlkBytes(Blk(c)')
               PROVE  FALSE
    OBVIOUS
  <2>1. PICK i \in 0..(blocks[b[2]] - 1) : z = <<at[b[1]], begin(b[2]) + i>>
    BY <1>11 DEF BlkBytes
  <2>2. PICK j \in 0..(blocks[c[2]] - 1) : z = <<at[c[1]], begin(c[2]) + j>>
    BY <1>11 DEF BlkBytes
  <2>3. b[2] \in R /\ c[2] \in R /\ b[1] \in 1..num /\ c[1] \in 1..num
    OBVIOUS
  <2>4. /\ blocks[b[2]] \in Nat /\ blocks[c[2]] \in Nat
        /\ begin(b[2]) \in Nat /\ begin(c[2]) \in Nat
    BY <1>5, <2>3
  <2>5. at \in [1..num -> Address] /\ IsInjective(at)
    BY <1>12, <2>1, <2>4
  <2>6. b[1] = c[1]
    BY <2>1, <2>2, <2>3, <2>5 DEF IsInjective
  <2>7. b[2] # c[2]
    <3>1. b = <<b[1], b[2]>> /\ c = <<c[1], c[2]>>
      OBVIOUS
    <3> QED
      BY <1>13, <2>6, <3>1
  <2>8. \/ begin(b[2]) + blocks[b[2]] <= begin(c[2])
        \/ begin(c[2]) + blocks[c[2]] <= begin(b[2])
    BY <1>6, <2>3, <2>7
  <2>9. begin(b[2]) + i = begin(c[2]) + j
    BY <2>1, <2>2
  <2>10. ASSUME NEW p \in Nat, NEW q \in Nat, NEW k \in Nat, NEW l \in Nat,
                p + k <= q \/ q + l <= p, i < k, j < l
         PROVE  p + i # q + j
    BY <2>10
  <2>11. i < blocks[b[2]] /\ j < blocks[c[2]]
    BY <2>4
  <2> QED
    BY <2>4, <2>8, <2>9, <2>10, <2>11
<1>14. ASSUME NEW b \in (1..num) \X R
       PROVE  /\ IsFiniteSet(HeldBlocks(b[1])')
              /\ HeldSizes(b[1])' \in [HeldBlocks(b[1])' -> Nat]
              /\ Blk(b)'.ptr[2] + Blk(b)'.size
                   <= Cardinality(Cells(HeldSizes(b[1])', HeldBlocks(b[1])'))
              /\ Blk(b)'.size > 0 => Blk(b)'.ptr[1] \in partBufs'
  <2> SUFFICES ASSUME NEW i \in 1..num, i = b[1], NEW H, H = HeldBlocks(i)',
                      NEW f, f = HeldSizes(i)'
               PROVE  /\ IsFiniteSet(H) /\ f \in [H -> Nat]
                      /\ Blk(b)'.ptr[2] + Blk(b)'.size <= Cardinality(Cells(f, H))
                      /\ Blk(b)'.size > 0 => Blk(b)'.ptr[1] \in partBufs'
    OBVIOUS
  <2>1. H = {i} \X R
    BY <1>10 DEF HeldBlocks
  <2>2. f = [c \in H |-> Blk(c)'.size]
    BY DEF HeldSizes
  <2>3. \A x \in R : <<i, x>> \in H /\ f[<<i, x>>] = blocks[x]
    BY <1>11, <2>1, <2>2
  <2>4. f \in [H -> Nat]
    BY <1>5, <1>11, <2>1, <2>2
  <2>5. IsFiniteSet(H) /\ Cardinality(Cells(blocks, R)) <= Cardinality(Cells(f, H))
    <3>1. /\ IsFiniteSet(R) /\ R \in SUBSET D /\ blocks \in [D -> Nat]
          /\ SizedAs(f, i, R, blocks)
      BY <1>1, <1>3, <1>7, <2>3 DEF SizedAs
    <3> QED
      BY <2>1, <2>4, <3>1, HeldInSlot, Zenon
  <2>6. Cardinality(Cells(f, H)) \in Nat
    BY <2>4, <2>5, CellsFinite
  <2>7. b[2] \in R
    OBVIOUS
  <2>8. begin(b[2]) \in Nat /\ blocks[b[2]] \in Nat /\ begin(b[2]) + blocks[b[2]] <= all
    BY <1>5, <2>7
  <2>9. Blk(b)'.ptr[2] = begin(b[2]) /\ Blk(b)'.size = blocks[b[2]] /\ Blk(b)'.ptr[1] = at[i]
    BY <1>11
  <2>10. begin(b[2]) + blocks[b[2]] <= Cardinality(Cells(f, H))
    BY <1>7, <2>5, <2>6, <2>8 DEF all
  <2>11. ASSUME blocks[b[2]] > 0
         PROVE  at[i] \in partBufs'
    <3>1. at \in [1..num -> Address]
      BY <1>12, <2>11
    <3> QED
      BY <3>1, BufferAssumption DEF Range
  <2> QED
    BY <2>4, <2>5, <2>9, <2>10, <2>11
<1>15. \A s \in Range(mDeviceDataSlots') : s.mDeviceDataPtr = NullPtr
  BY <1>8, <1>9 DEF Range
<1> QED
  BY <1>10, <1>13, <1>14, <1>15 DEF SlotsLaid

(* Nothing but who holds the memory changes.                                *)
LEMMA OnlyAccounts ==
  ASSUME BufInv, AccountedNow', UNCHANGED <<mDataBlocks, mDeviceDataSlots, partBufs>>
  PROVE  BufInv'
<1>1. BlocksTyped'
  BY DEF BufInv, BlocksTyped
<1>2. SlotsLaid'
  BY SlotsKept DEF BufInv
<1> QED
  BY <1>1, <1>2 DEF BufInv

(* Each action keeps the invariant: the copies, which take memory,          *)
LEMMA CopyKeeps ==
  ASSUME BufInv, AtmiCopy \/ MakeDeviceCopy \/ MakeSharedCopy
  PROVE  BufInv'
<1>1. Accounted(live, mBufs, mDevBufs, mHostBufs, partBufs)
  BY DEF BufInv, AccountedNow
<1>2. CASE AtmiCopy
  <2>1. PICK a \in Fresh(live) :
           /\ live' = Allocated(live, a, "atmi") /\ mBufs' = Append(mBufs, a)
           /\ UNCHANGED <<mDevBufs, mHostBufs, mDataBlocks, mDeviceDataSlots, partBufs>>
    BY <1>2, Zenon DEF AtmiCopy, partVars
  <2>2. AccountedNow'
    BY <1>1, <2>1, Takes, Zenon DEF AccountedNow
  <2> QED
    BY <2>1, <2>2, OnlyAccounts
<1>3. CASE MakeDeviceCopy
  <2>1. PICK a \in Fresh(live) :
           /\ live' = Allocated(live, a, "hipMalloc") /\ mDevBufs' = Append(mDevBufs, a)
           /\ UNCHANGED <<mBufs, mHostBufs, mDataBlocks, mDeviceDataSlots, partBufs>>
    BY <1>3, Zenon DEF MakeDeviceCopy, partVars
  <2>2. AccountedNow'
    BY <1>1, <2>1, Takes, Zenon DEF AccountedNow
  <2> QED
    BY <2>1, <2>2, OnlyAccounts
<1>4. CASE MakeSharedCopy
  <2>1. PICK a \in Fresh(live) :
           /\ live' = Allocated(live, a, "hipHostMalloc") /\ mHostBufs' = Append(mHostBufs, a)
           /\ UNCHANGED <<mBufs, mDevBufs, mDataBlocks, mDeviceDataSlots, partBufs>>
    BY <1>4, Zenon DEF MakeSharedCopy, partVars
  <2>2. AccountedNow'
    BY <1>1, <2>1, Takes, Zenon DEF AccountedNow
  <2> QED
    BY <2>1, <2>2, OnlyAccounts
<1> QED
  BY <1>2, <1>3, <1>4

(* the destructors of the managers,                                         *)
LEMMA DestroyKeeps ==
  ASSUME BufInv, DestroyAtmiManager \/ DestroyHipManager
  PROVE  BufInv'
<1>1. Accounted(live, mBufs, mDevBufs, mHostBufs, partBufs)
  BY DEF BufInv, AccountedNow
<1>2. CASE DestroyAtmiManager
  <2>1. /\ live' = Freed(live, Range(mBufs)) /\ mBufs' = <<>>
        /\ UNCHANGED <<mDevBufs, mHostBufs, mDataBlocks, mDeviceDataSlots, partBufs>>
    BY <1>2, Zenon DEF DestroyAtmiManager, partVars
  <2>2. AccountedNow'
    BY <1>1, <2>1, Frees, Zenon DEF AccountedNow
  <2> QED
    BY <2>1, <2>2, OnlyAccounts
<1>3. CASE DestroyHipManager
  <2>1. /\ live' = Freed(live, Range(mDevBufs) \cup Range(mHostBufs))
        /\ mDevBufs' = <<>> /\ mHostBufs' = <<>>
        /\ UNCHANGED <<mBufs, mDataBlocks, mDeviceDataSlots, partBufs>>
    BY <1>3, Zenon DEF DestroyHipManager, HipBuffers, partVars
  <2>2. AccountedNow'
    BY <1>1, <2>1, Frees, Zenon DEF AccountedNow
  <2> QED
    BY <2>1, <2>2, OnlyAccounts
<1> QED
  BY <1>2, <1>3

(* PartHostData's blocks.                                                   *)
LEMMA BlockAdded ==
  ASSUME BufInv, NEW n \in VarName, NEW size \in Nat,
         mDataBlocks' = WithBlock(mDataBlocks, n, size),
         UNCHANGED <<live, mBufs, mDevBufs, mHostBufs, mDeviceDataSlots, partBufs>>
  PROVE  BufInv'
<1>1. AccountedNow'
  BY DEF BufInv, AccountedNow
<1>2. SlotsLaid'
  BY SlotsKept DEF BufInv
<1>3. /\ IsFiniteSet(DOMAIN mDataBlocks) /\ DOMAIN mDataBlocks \subseteq VarName
      /\ mDataBlocks \in [DOMAIN mDataBlocks -> Nat]
  BY DEF BufInv, BlocksTyped
<1>4. /\ DOMAIN mDataBlocks' = DOMAIN mDataBlocks \cup {n}
      /\ mDataBlocks' \in [DOMAIN mDataBlocks \cup {n} -> Nat]
  BY <1>3 DEF WithBlock
<1>5. IsFiniteSet(DOMAIN mDataBlocks \cup {n})
  BY <1>3, FS_AddElement
<1>6. BlocksTyped'
  BY <1>3, <1>4, <1>5 DEF BlocksTyped
<1> QED
  BY <1>1, <1>2, <1>6 DEF BufInv

(* The destructors of the slots are passed the null member, so they free    *)
(* nothing.                                                                 *)
LEMMA NothingFreed ==
  ASSUME BufInv
  PROVE  /\ DOMAIN SlotsFreed = DOMAIN live
         /\ \A a \in DOMAIN live : SlotsFreed[a] = live[a]
         /\ DOMAIN live \subseteq Address
<1> DEFINE freed == {s.mDeviceDataPtr : s \in Range(mDeviceDataSlots)}
<1>1. DOMAIN live \subseteq Address
  BY DEF BufInv, AccountedNow, Accounted
<1>2. freed \subseteq {NullPtr}
  BY DEF BufInv, SlotsLaid
<1>3. DOMAIN live \ freed = DOMAIN live
  BY <1>1, <1>2, BufferAssumption
<1> HIDE DEF freed
<1>4. /\ DOMAIN Freed(live, freed) = DOMAIN live
      /\ \A a \in DOMAIN live : Freed(live, freed)[a] = live[a]
  BY <1>3, MemoryFreed
<1> QED
  BY <1>1, <1>4 DEF freed, SlotsFreed

(* which is all freeDeviceData does,                                        *)
LEMMA SlotsDropped ==
  ASSUME BufInv, FreeDeviceData
  PROVE  BufInv'
<1>1. /\ live' = SlotsFreed /\ mDeviceDataSlots' = <<>>
      /\ UNCHANGED <<mBufs, mDevBufs, mHostBufs, mDataBlocks, partBufs>>
  BY DEF FreeDeviceData, managerVars
<1>2. BlocksTyped'
  BY <1>1 DEF BufInv, BlocksTyped
<1>3. DOMAIN mDeviceDataSlots' = {} /\ Range(mDeviceDataSlots') = {}
  BY <1>1 DEF Range
<1>4. SlotsLaid'
  BY <1>3 DEF SlotsLaid, SlotBlocks
<1>5. PICK new : new = SlotsFreed
  OBVIOUS
<1>6. DOMAIN new = DOMAIN live /\ \A a \in DOMAIN live : new[a] = live[a]
  BY <1>5, NothingFreed
<1>7. Accounted(live, mBufs, mDevBufs, mHostBufs, partBufs)
  BY DEF BufInv, AccountedNow
<1>8. Accounted(new, mBufs, mDevBufs, mHostBufs, partBufs)
  BY <1>6, <1>7 DEF Accounted, OwnedIn
<1>9. AccountedNow'
  BY <1>1, <1>5, <1>8 DEF AccountedNow
<1> QED
  BY <1>2, <1>4, <1>9 DEF BufInv

(* The memory of new slots is nobody else's.                                *)
LEMMA SlotsAccounted ==
  ASSUME NEW mem, NEW atmi, NEW dev, NEW hst, NEW part, Accounted(mem, atmi, dev, hst, part),
         NEW as \in SUBSET Address, as \cap DOMAIN mem = {},
         NEW new, DOMAIN new = DOMAIN mem \cup as,
         \A a \in as : new[a] = "hipMalloc", \A a \in DOMAIN mem : new[a] = mem[a]
  PROVE  Accounted(new, atmi, dev, hst, part \cup as)
<1>1. /\ OwnedIn(mem, atmi, "atmi") /\ OwnedIn(mem, dev, "hipMalloc")
      /\ OwnedIn(mem, hst, "hipHostMalloc")
      /\ \A b \in part : b \in DOMAIN mem /\ mem[b] = "hipMalloc"
      /\ Range(dev) \cap part = {}
      /\ DOMAIN mem = Range(atmi) \cup Range(dev) \cup Range(hst) \cup part
      /\ DOMAIN mem \subseteq Address
  BY DEF Accounted
<1>2. ASSUME NEW s, NEW by, OwnedIn(mem, s, by)
      PROVE  OwnedIn(new, s, by)
  BY <1>2 DEF OwnedIn
<1> QED
  BY <1>1, <1>2 DEF Accounted

(* and makeDeviceDataBuffers does before it makes slots.                    *)
LEMMA SlotsMade ==
  ASSUME BufInv, NEW num \in Nat, MakeDeviceDataBuffers(num)
  PROVE  BufInv'
<1>1. PICK mem : mem = SlotsFreed
  OBVIOUS
<1>2. /\ DOMAIN mem = DOMAIN live /\ DOMAIN live \subseteq Address
      /\ \A a \in DOMAIN live : mem[a] = live[a]
  BY <1>1, NothingFreed
<1>3. PICK order \in SetToSeqs(DOMAIN mDataBlocks) :
        \E at \in IF totalBytes(mDataBlocks) = 0 THEN {[i \in 1..num |-> NullPtr]}
                  ELSE {s \in [1..num -> Fresh(mem)] : IsInjective(s)} :
          /\ mDeviceDataSlots' = [i \in 1..num |-> PartDeviceData(at[i], order)]
          /\ partBufs' = partBufs \cup (Range(at) \ {NullPtr})
          /\ live' = [a \in DOMAIN mem \cup (Range(at) \ {NullPtr}) |->
                        IF a \in Range(at) THEN "hipMalloc" ELSE mem[a]]
          /\ UNCHANGED <<mBufs, mDevBufs, mHostBufs, mDataBlocks>>
  BY <1>1, Zenon DEF MakeDeviceDataBuffers, managerVars
<1>4. PICK at \in IF totalBytes(mDataBlocks) = 0 THEN {[i \in 1..num |-> NullPtr]}
                  ELSE {s \in [1..num -> Fresh(mem)] : IsInjective(s)} :
        /\ mDeviceDataSlots' = [i \in 1..num |-> PartDeviceData(at[i], order)]
        /\ partBufs' = partBufs \cup (Range(at) \ {NullPtr})
        /\ live' = [a \in DOMAIN mem \cup (Range(at) \ {NullPtr}) |->
                      IF a \in Range(at) THEN "hipMalloc" ELSE mem[a]]
        /\ UNCHANGED <<mBufs, mDevBufs, mHostBufs, mDataBlocks>>
  BY <1>3, Zenon
<1>5. \/ totalBytes(mDataBlocks) = 0 /\ at = [i \in 1..num |-> NullPtr]
      \/ at \in [1..num -> Fresh(mem)] /\ IsInjective(at)
  BY <1>4, Zenon
<1>6. Fresh(mem) \subseteq Address /\ Fresh(mem) \cap DOMAIN mem = {}
  BY DEF Fresh
<1>7. \/ totalBytes(mDataBlocks) = 0 /\ at = [i \in 1..num |-> NullPtr]
      \/ at \in [1..num -> Address] /\ IsInjective(at)
  BY <1>5, <1>6
<1>8. SlotsLaid'
  BY <1>4, <1>7, NewSlotsLaid, Zenon DEF BufInv
<1> DEFINE as == Range(at) \ {NullPtr}
<1>9. Range(at) \subseteq Fresh(mem) \cup {NullPtr}
  BY <1>5 DEF Range
<1>10. as \in SUBSET Address /\ as \cap DOMAIN mem = {} /\ Range(at) \cap DOMAIN mem = {}
  BY <1>2, <1>6, <1>9, BufferAssumption
<1>11. live' = [a \in DOMAIN mem \cup as |-> IF a \in Range(at) THEN "hipMalloc" ELSE mem[a]]
  BY <1>4
<1>12. as \subseteq Range(at)
  OBVIOUS
<1> HIDE DEF as
<1>13. DOMAIN live' = DOMAIN live \cup as /\ as \cap DOMAIN live = {}
  BY <1>2, <1>10, <1>11
<1>14. \A a \in as : live'[a] = "hipMalloc"
  BY <1>11, <1>12
<1>15. \A a \in DOMAIN live : live'[a] = live[a]
  BY <1>2, <1>10, <1>11
<1>16. Accounted(live, mBufs, mDevBufs, mHostBufs, partBufs)
  BY DEF BufInv, AccountedNow
<1>17. Accounted(live', mBufs, mDevBufs, mHostBufs, partBufs \cup as)
  BY <1>10, <1>13, <1>14, <1>15, <1>16, SlotsAccounted
<1>18. AccountedNow'
  BY <1>4, <1>17 DEF AccountedNow, as
<1>19. BlocksTyped'
  BY <1>4 DEF BufInv, BlocksTyped
<1> QED
  BY <1>8, <1>18, <1>19 DEF BufInv

(* Buffers of AllocManagerAtmi, DeviceBufferManager and PartDeviceData:      *)
(* each allocation in use is held once by the object that made it, whose    *)
(* allocator it is from, nothing freed is on a list, and the blocks of the  *)
(* slots are apart and inside the memory of their slot.                     *)
THEOREM BuffersStayAccounted ==
  BufSpec => []BuffersAccounted
<1>1. BufInit => BufInv
  BY BufInvStarts
<1>2. BufInv /\ [BufNext]_bufVars => BufInv'
  <2> SUFFICES ASSUME BufInv, [BufNext]_bufVars
               PROVE  BufInv'
    OBVIOUS
  <2>1. CASE AtmiCopy \/ MakeDeviceCopy \/ MakeSharedCopy
    BY <2>1, CopyKeeps
  <2>2. CASE DestroyAtmiManager \/ DestroyHipManager
    BY <2>2, DestroyKeeps
  <2>3. ASSUME NEW n \in VarName, BlkPtr(n)
        PROVE  BufInv'
    BY <2>3, BlockAdded DEF BlkPtr, managerVars
  <2>4. ASSUME NEW n \in VarName, NEW size \in BlockSize, AddDataBlock(n, size)
        PROVE  BufInv'
    <3>1. size \in Nat
      BY BufferAssumption
    <3> QED
      BY <2>4, <3>1, BlockAdded DEF AddDataBlock, managerVars
  <2>5. ASSUME NEW n \in 0..MaxSlots, MakeDeviceDataBuffers(n)
        PROVE  BufInv'
    <3>1. n \in Nat
      OBVIOUS
    <3> QED
      BY <2>5, <3>1, SlotsMade
  <2>6. CASE FreeDeviceData
    BY <2>6, SlotsDropped
  <2>7. CASE UNCHANGED bufVars
    <3>1. UNCHANGED <<live, mBufs, mDevBufs, mHostBufs, mDataBlocks, mDeviceDataSlots, partBufs>>
      BY <2>7 DEF bufVars, managerVars, partVars
    <3>2. AccountedNow'
      BY <3>1 DEF BufInv, AccountedNow
    <3> QED
      BY <3>1, <3>2, OnlyAccounts
  <2> QED
    BY <2>1, <2>2, <2>3, <2>4, <2>5, <2>6, <2>7, Zenon DEF BufNext
<1>3. BufInv => BuffersAccounted
  BY BufInvImplies
<1> QED
  BY <1>1, <1>2, <1>3, PTL DEF BufSpec
=============================================================================
