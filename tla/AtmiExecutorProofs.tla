------------------------- MODULE AtmiExecutorProofs -------------------------
(***************************************************************************)
(* Proofs about AtmiExecutor, for any functions, types, arguments, copies  *)
(* and addresses, and every bound.  First what packing does to arguments,  *)
(* with no variables; then the invariant.                                  *)
(***************************************************************************)
EXTENDS AtmiExecutor, FiniteSetTheorems, ListLemmas, TLAPS

-----------------------------------------------------------------------------
(* The layout of arguments: the ends of the passes that begin with an empty *)
(* buffer.                                                                  *)
(* The running total of the pack expansion is what its recursion says.      *)
EndsTo(sig, k, f) ==
    f = [i \in 0 .. k |-> IF i = 0 THEN 0 ELSE EndAfter(f[i - 1], sig[i])]

LEMMA EndsExist ==
  ASSUME NEW sig, NEW k \in Nat
  PROVE  \E f : EndsTo(sig, k, f)
<1> DEFINE S == {n \in Nat : \E f : EndsTo(sig, n, f)}
<1>1. 0 \in S
  <2> DEFINE g == [i \in 0..0 |-> 0]
  <2>1. EndsTo(sig, 0, g)
    BY DEF EndsTo
  <2> QED
    BY <2>1
<1>2. ASSUME NEW n \in S
      PROVE  n + 1 \in S
  <2>1. PICK f : EndsTo(sig, n, f)
    OBVIOUS
  <2> DEFINE g == [i \in 0..(n + 1) |-> IF i = n + 1 THEN EndAfter(f[n], sig[n + 1]) ELSE f[i]]
  <2>2. \A i \in 0..n : f[i] = IF i = 0 THEN 0 ELSE EndAfter(f[i - 1], sig[i])
    BY <2>1 DEF EndsTo
  <2>3. \A i \in 0..(n + 1) : g[i] = IF i = 0 THEN 0 ELSE EndAfter(g[i - 1], sig[i])
    BY <2>2
  <2>4. g = [i \in 0..(n + 1) |-> g[i]]
    OBVIOUS
  <2> HIDE DEF g
  <2>5. EndsTo(sig, n + 1, g)
    BY <2>3, <2>4 DEF EndsTo
  <2> QED
    BY <2>5
<1>3. S = Nat
  <2>1. S \in SUBSET Nat
    OBVIOUS
  <2> HIDE DEF S
  <2> QED
    BY <1>1, <1>2, <2>1, NatSetInduction
<1> QED
  BY <1>3

LEMMA ArgEndsStep ==
  ASSUME NEW sig \in Seq(ArgTypes)
  PROVE  /\ ArgEnds(sig, 0)[0] = 0
         /\ \A i \in 1..Len(sig) : ArgEnds(sig, 0)[i] = EndAfter(ArgEnds(sig, 0)[i - 1], sig[i])
<1>1. Len(sig) \in Nat
  OBVIOUS
<1>2. PICK f : EndsTo(sig, Len(sig), f)
  BY <1>1, EndsExist
<1>3. EndsTo(sig, Len(sig), ArgEnds(sig, 0))
  BY <1>2 DEF EndsTo, ArgEnds
<1>4. \A i \in 0..Len(sig) : ArgEnds(sig, 0)[i] = IF i = 0 THEN 0 ELSE EndAfter(ArgEnds(sig, 0)[i - 1], sig[i])
  BY <1>3 DEF EndsTo
<1> QED
  BY <1>1, <1>4

(* Every argument begins aligned, after the one before, and ends with the   *)
(* running total.                                                           *)
LEMMA ArgPlaces ==
  ASSUME NEW sig \in Seq(ArgTypes)
  PROVE  /\ \A i \in 0..Len(sig) : ArgEnds(sig, 0)[i] \in Nat
         /\ \A i \in 1..Len(sig) :
               LET beg == AlignUp(ArgEnds(sig, 0)[i - 1], sig[i].align)
               IN  /\ beg \in Nat
                   /\ ArgEnds(sig, 0)[i - 1] <= beg
                   /\ beg % sig[i].align = 0
                   /\ ArgEnds(sig, 0)[i] = beg + sig[i].size
                   /\ beg < ArgEnds(sig, 0)[i]
<1> DEFINE E == ArgEnds(sig, 0)
           S == {n \in Nat : n <= Len(sig) => E[n] \in Nat}
<1>1. ASSUME NEW i \in 1..Len(sig), E[i - 1] \in Nat
      PROVE  LET beg == AlignUp(E[i - 1], sig[i].align)
             IN  /\ beg \in Nat
                 /\ E[i - 1] <= beg
                 /\ beg % sig[i].align = 0
                 /\ E[i] = beg + sig[i].size
                 /\ beg < E[i]
                 /\ E[i] \in Nat
  <2> DEFINE n == E[i - 1]
             d == sig[i].align
             r == ((n + d - 1) \div d) * d
  <2>1. sig[i] \in ArgTypes
    OBVIOUS
  <2>2. d \in Nat \ {0} /\ sig[i].size \in Nat \ {0}
    BY <2>1 DEF ArgTypes
  <2>3. n \in Nat
    BY <1>1
  <2>4. E[i] = AlignUp(n, d) + sig[i].size
    BY ArgEndsStep DEF EndAfter
  <2>5. AlignUp(n, d) = r
    BY DEF AlignUp
  <2> HIDE DEF E, n, d
  <2>6. r \in Nat /\ n <= r /\ r % d = 0
    BY <2>2, <2>3, UpToMultiple
  <2> HIDE DEF r
  <2>7. /\ AlignUp(n, d) \in Nat
        /\ n <= AlignUp(n, d)
        /\ AlignUp(n, d) % d = 0
        /\ E[i] = AlignUp(n, d) + sig[i].size
        /\ AlignUp(n, d) < E[i]
        /\ E[i] \in Nat
    BY <2>2, <2>4, <2>5, <2>6
  <2> QED
    BY <2>7 DEF n, d
<1>2. 0 \in S
  BY ArgEndsStep
<1>3. ASSUME NEW n \in S
      PROVE  n + 1 \in S
  <2> SUFFICES ASSUME n + 1 <= Len(sig)
               PROVE  E[n + 1] \in Nat
    OBVIOUS
  <2>1. n \in Nat /\ n + 1 \in 1..Len(sig) /\ n + 1 - 1 = n
    OBVIOUS
  <2>2. E[n] \in Nat
    OBVIOUS
  <2> HIDE DEF E, S
  <2> QED
    BY <1>1, <2>1, <2>2 DEF E
<1>4. S = Nat
  <2>1. S \in SUBSET Nat
    OBVIOUS
  <2> HIDE DEF S
  <2> QED
    BY <1>2, <1>3, <2>1, NatSetInduction
<1>5. \A i \in 0..Len(sig) : E[i] \in Nat
  BY <1>4
<1>6. \A i \in 1..Len(sig) : E[i - 1] \in Nat
  BY <1>5
<1> HIDE DEF E, S
<1> QED
  BY <1>1, <1>5, <1>6 DEF E

LEMMA ArgEndsOrdered ==
  ASSUME NEW sig \in Seq(ArgTypes)
  PROVE  \A i, j \in 0..Len(sig) : i <= j => ArgEnds(sig, 0)[i] <= ArgEnds(sig, 0)[j]
<1> DEFINE E == ArgEnds(sig, 0)
           S == {n \in Nat : n <= Len(sig) => \A i \in 0..n : E[i] <= E[n]}
<1>1. \A i \in 0..Len(sig) : E[i] \in Nat
  BY ArgPlaces
<1>2. \A i \in 1..Len(sig) : E[i - 1] <= E[i]
  <2> SUFFICES ASSUME NEW i \in 1..Len(sig)
               PROVE  E[i - 1] <= E[i]
    OBVIOUS
  <2>1. i - 1 \in 0..Len(sig) /\ i \in 0..Len(sig)
    OBVIOUS
  <2>2. E[i - 1] \in Nat /\ E[i] \in Nat
    BY <1>1, <2>1
  <2>3. LET beg == AlignUp(E[i - 1], sig[i].align)
        IN  beg \in Nat /\ E[i - 1] <= beg /\ beg < E[i]
    BY ArgPlaces
  <2> DEFINE beg == AlignUp(E[i - 1], sig[i].align)
  <2>4. beg \in Nat /\ E[i - 1] <= beg /\ beg < E[i]
    BY <2>3
  <2> HIDE DEF E, beg
  <2> QED
    BY <2>2, <2>4
<1> HIDE DEF E
<1>3. 0 \in S
  BY <1>1
<1>4. ASSUME NEW n \in S
      PROVE  n + 1 \in S
  <2> SUFFICES ASSUME n + 1 <= Len(sig), NEW i \in 0..(n + 1)
               PROVE  E[i] <= E[n + 1]
    OBVIOUS
  <2>1. n + 1 \in 1..Len(sig) /\ n + 1 - 1 = n /\ n \in 0..Len(sig) /\ n + 1 \in 0..Len(sig)
    OBVIOUS
  <2>2. E[n] <= E[n + 1]
    BY <1>2, <2>1
  <2>3. i \in 0..Len(sig)
    OBVIOUS
  <2>4. CASE i = n + 1
    BY <2>4, <2>3, <1>1
  <2>5. CASE i \in 0..n
    <3>1. E[i] <= E[n]
      BY <2>5
    <3>2. E[i] \in Nat /\ E[n] \in Nat /\ E[n + 1] \in Nat
      BY <1>1, <2>1, <2>3
    <3> QED
      BY <3>1, <3>2, <2>2
  <2> QED
    BY <2>4, <2>5
<1>5. S = Nat
  <2>1. S \in SUBSET Nat
    OBVIOUS
  <2> HIDE DEF S
  <2> QED
    BY <1>3, <1>4, <2>1, NatSetInduction
<1> QED
  BY <1>5 DEF E

(* Where the second pass puts an argument is the offset the first pass      *)
(* recorded; it is aligned, and no other argument is in its bytes.          *)
LEMMA PlacesApart ==
  ASSUME NEW sig \in Seq(ArgTypes)
  PROVE  /\ Places(sig) = ArgOffsets(sig) /\ PackedSize(sig) \in Nat
         /\ \A i \in DOMAIN sig :
              /\ sig[i].size \in Nat \ {0} /\ sig[i].align \in Nat \ {0}
              /\ Places(sig)[i] \in Nat
              /\ Places(sig)[i] % sig[i].align = 0
              /\ Places(sig)[i] + sig[i].size <= PackedSize(sig)
              /\ \A j \in DOMAIN sig : i < j => Places(sig)[i] + sig[i].size <= Places(sig)[j]
<1> DEFINE E == ArgEnds(sig, 0)
           P == Places(sig)
           n == Len(sig)
<1>1. DOMAIN sig = 1..n /\ n \in Nat
  OBVIOUS
<1>2. PackedSize(sig) = E[n] /\ P = ArgOffsets(sig) /\ \A i \in 1..n : P[i] = E[i] - sig[i].size
  BY <1>1 DEF PackedSize, Places, ArgOffsets
<1>3. \A i \in 0..n : E[i] \in Nat
  BY ArgPlaces
<1>4. ASSUME NEW i \in 1..n
      PROVE  /\ sig[i].size \in Nat \ {0} /\ sig[i].align \in Nat \ {0}
             /\ P[i] \in Nat /\ P[i] % sig[i].align = 0
             /\ P[i] + sig[i].size = E[i]
             /\ E[i - 1] <= P[i]
  <2> DEFINE beg == AlignUp(E[i - 1], sig[i].align)
  <2>1. sig[i] \in ArgTypes
    OBVIOUS
  <2>2. sig[i].size \in Nat \ {0} /\ sig[i].align \in Nat \ {0}
    BY <2>1 DEF ArgTypes
  <2>3. /\ beg \in Nat /\ E[i - 1] <= beg /\ beg % sig[i].align = 0
        /\ E[i] = beg + sig[i].size
    BY ArgPlaces
  <2>4. P[i] = E[i] - sig[i].size
    BY <1>2
  <2> HIDE DEF beg, E, P
  <2>5. P[i] = beg /\ P[i] + sig[i].size = E[i]
    BY <2>2, <2>3, <2>4
  <2> QED
    BY <2>2, <2>3, <2>5
<1>5. \A i, j \in 0..n : i <= j => E[i] <= E[j]
  BY ArgEndsOrdered
<1> HIDE DEF E, P, n
<1>6. ASSUME NEW i \in 1..n
      PROVE  P[i] + sig[i].size <= E[n]
  <2>1. i \in 0..n /\ n \in 0..n /\ i <= n
    BY <1>1
  <2> QED
    BY <1>4, <1>5, <2>1
<1>7. ASSUME NEW i \in 1..n, NEW j \in 1..n, i < j
      PROVE  P[i] + sig[i].size <= P[j]
  <2>1. i \in 0..n /\ j - 1 \in 0..n /\ i <= j - 1
    BY <1>1, <1>7
  <2>2. E[i] <= E[j - 1] /\ E[j - 1] <= P[j] /\ P[i] + sig[i].size = E[i]
    BY <1>4, <1>5, <2>1
  <2>3. E[i] \in Nat /\ E[j - 1] \in Nat /\ P[j] \in Nat
    BY <1>3, <1>4, <2>1
  <2> QED
    BY <2>2, <2>3
<1>8. E[n] \in Nat
  BY <1>1, <1>3
<1> QED
  BY <1>1, <1>2, <1>4, <1>6, <1>7, <1>8 DEF P

(* So a byte of an argument is covered by that argument only.               *)
LEMMA CoveredOnce ==
  ASSUME NEW sig \in Seq(ArgTypes), NEW i \in DOMAIN sig, NEW k \in 0..(sig[i].size - 1)
  PROVE  /\ Places(sig)[i] + k \in 0..(PackedSize(sig) - 1)
         /\ Covering(sig, Places(sig)[i] + k) = {i}
<1> DEFINE P == Places(sig)
           o == P[i] + k
<1>1. /\ PackedSize(sig) \in Nat /\ DOMAIN sig = 1..Len(sig) /\ Len(sig) \in Nat
      /\ \A j \in DOMAIN sig :
           /\ sig[j].size \in Nat \ {0} /\ P[j] \in Nat
           /\ P[j] + sig[j].size <= PackedSize(sig)
           /\ \A l \in DOMAIN sig : j < l => P[j] + sig[j].size <= P[l]
  BY PlacesApart
<1>a. ASSUME NEW p \in Nat, NEW m \in Nat, NEW s \in Nat \ {0}, NEW d \in 0..(s - 1),
             p + s <= m
      PROVE  p + d \in p .. p + s - 1 /\ p + d \in 0..(m - 1)
  BY <1>a
<1>b. ASSUME NEW p \in Nat, NEW s \in Nat \ {0}, NEW d \in 0..(s - 1),
             NEW q \in Nat, NEW t \in Nat \ {0}, p + s <= q \/ q + t <= p
      PROVE  p + d \notin q .. q + t - 1
  BY <1>b
<1> HIDE DEF P
<1>2. o \in P[i] .. P[i] + sig[i].size - 1 /\ o \in 0..(PackedSize(sig) - 1)
  BY <1>1, <1>a
<1>3. ASSUME NEW j \in DOMAIN sig, j # i
      PROVE  o \notin P[j] .. P[j] + sig[j].size - 1
  <2>1. i < j \/ j < i
    BY <1>1, <1>3
  <2>2. P[i] + sig[i].size <= P[j] \/ P[j] + sig[j].size <= P[i]
    BY <1>1, <2>1
  <2>3. /\ P[i] \in Nat /\ P[j] \in Nat
        /\ sig[i].size \in Nat \ {0} /\ sig[j].size \in Nat \ {0}
    BY <1>1
  <2> QED
    BY <1>b, <2>2, <2>3
<1>4. Covering(sig, o) = {j \in DOMAIN sig : o \in P[j] .. P[j] + sig[j].size - 1}
  BY DEF Covering, P
<1> HIDE DEF o
<1>5. Covering(sig, o) = {i}
  BY <1>2, <1>3, <1>4
<1> QED
  BY <1>2, <1>5 DEF o, P

LEMMA LastOfOne ==
  ASSUME NEW i \in Nat
  PROVE  LastOf({i}) = i
BY DEF LastOf

(* What is packed is read back whole, whatever the types are.               *)
LEMMA PackedIsReadBack ==
  ASSUME NEW sig \in Seq(ArgTypes), NEW V, NEW a \in [DOMAIN sig -> V]
  PROVE  Unpacked(Packed(sig, a), ArgOffsets(sig), sig) = a
<1> DEFINE P == Places(sig)
           buf == Packed(sig, a)
<1>1. ArgOffsets(sig) = P /\ DOMAIN sig \subseteq Nat
  BY PlacesApart
<1>2. ASSUME NEW i \in DOMAIN sig, NEW k \in 0..(sig[i].size - 1)
      PROVE  P[i] + k \in DOMAIN buf /\ buf[P[i] + k] = <<a[i], k>>
  <2> DEFINE o == P[i] + k
  <2>1. o \in 0..(PackedSize(sig) - 1) /\ Covering(sig, o) = {i}
    BY CoveredOnce
  <2>2. P[i] \in Nat /\ k \in Nat /\ o - P[i] = k
    BY PlacesApart
  <2>3. LastOf(Covering(sig, o)) = i /\ Covering(sig, o) # {}
    BY <1>1, <2>1, LastOfOne
  <2> HIDE DEF o, P
  <2>4. o \in DOMAIN buf
    BY <2>1 DEF Packed
  <2>5. buf[o] = <<a[LastOf(Covering(sig, o))], o - P[LastOf(Covering(sig, o))]>>
    BY <2>1, <2>3 DEF Packed, P
  <2> QED
    BY <2>2, <2>3, <2>4, <2>5 DEF o
<1>3. ASSUME NEW i \in DOMAIN sig
      PROVE  ValueAt(buf, P[i], sig[i]) = a[i]
  <2>1. P[i] \in Nat /\ sig[i].size \in Nat \ {0} /\ P[i] % sig[i].align = 0
    BY PlacesApart
  <2>2. buf[P[i]] = <<a[i], 0>>
    <3>1. 0 \in 0..(sig[i].size - 1) /\ P[i] + 0 = P[i]
      BY <2>1
    <3> QED
      BY <1>2, <3>1
  <2>3. buf[P[i]][1] = a[i]
    BY <2>2
  <2> HIDE DEF P, buf
  <2> QED
    BY <1>2, <2>1, <2>3 DEF ValueAt
<1> HIDE DEF P, buf
<1>4. Unpacked(buf, P, sig) = [i \in DOMAIN sig |-> a[i]]
  BY <1>3 DEF Unpacked
<1> QED
  BY <1>1, <1>4 DEF buf

-----------------------------------------------------------------------------
(* Functions, kernels and nodes.                                           *)

(* The index in a MultiTypePtr and the type it stands for.                 *)
LEMMA TypeIds ==
  \A k \in {"gpu", "cpu", "copy"} :
    /\ TypeId(k) \in 0..2
    /\ TypeId(k) + 1 \in DOMAIN Kind /\ Kind[TypeId(k) + 1] = k
<1> SUFFICES ASSUME NEW k \in {"gpu", "cpu", "copy"}
             PROVE  /\ TypeId(k) \in 0..2
                    /\ TypeId(k) + 1 \in DOMAIN Kind /\ Kind[TypeId(k) + 1] = k
  OBVIOUS
<1> DEFINE i == CHOOSE j \in 1..3 : Kind[j] = k
<1>1. Kind[1] = "gpu" /\ Kind[2] = "cpu" /\ Kind[3] = "copy" /\ DOMAIN Kind = 1..3
  BY DEF Kind
<1>2. \E j \in 1..3 : Kind[j] = k
  BY <1>1
<1>3. i \in 1..3 /\ Kind[i] = k
  <2> HIDE DEF Kind
  <2> QED
    BY <1>2
<1>4. TypeId(k) = i - 1
  BY DEF TypeId
<1> HIDE DEF i
<1>5. i - 1 \in 0..2 /\ (i - 1) + 1 = i
  BY <1>3
<1> QED
  BY <1>1, <1>3, <1>4, <1>5

(* The kinds of functions and the keys of their kernels.                   *)
LEMMA Keys ==
  \A f \in Func : /\ KindOf(f) \in {"gpu", "cpu"}
                  /\ Key(f) \in Func \cup Range(Wrapper)
                  /\ KindOf(f) = "gpu" => Key(f) = f
                  /\ KindOf(f) = "cpu" => f \in CpuFunc /\ Key(f) = Wrapper[f]
BY WrapperAssumption DEF Func, KindOf, Key, Range

(* Functions that share a kernel have parameters of the same types.        *)
LEMMA SameKey ==
  \A f, g \in Func : KindOf(f) = KindOf(g) /\ Key(f) = Key(g) => Signature[f] = Signature[g]
BY Keys, SignatureAssumption DEF Func, KindOf

LEMMA NodeData ==
  ASSUME TypeOK
  PROVE  /\ DOMAIN dags = 1..Len(dags) /\ Len(dags) \in Nat
         /\ \A d \in LiveDags : /\ d \in DOMAIN dags
                                /\ dags[d] \in SUBSET ((0..2) \X Slot)
                                /\ \A p \in dags[d] : p = <<p[1], p[2]>> /\ p[2] \in Owned
<1>1. DOMAIN dags = 1..Len(dags) /\ Len(dags) \in Nat
  BY DEF TypeOK
<1>2. ASSUME NEW d \in LiveDags
      PROVE  dags[d] \in SUBSET ((0..2) \X Slot)
  <2> DEFINE T == (SUBSET ((0..2) \X Slot)) \cup {Destroyed}
  <2>1. dags \in Seq(T)
    BY DEF TypeOK
  <2>2. d \in DOMAIN dags /\ dags[d] # Destroyed
    BY DEF LiveDags
  <2> HIDE DEF T
  <2>3. dags[d] \in T
    BY <2>1, <2>2
  <2>4. dags[d] \in SUBSET ((0..2) \X Slot) \/ dags[d] = Destroyed
    BY <2>3 DEF T
  <2> QED
    BY <2>2, <2>4
<1>3. ASSUME NEW d \in LiveDags, NEW p \in dags[d]
      PROVE  p = <<p[1], p[2]>> /\ p[2] \in Owned
  BY <1>2 DEF Owned, InNode
<1> QED
  BY <1>1, <1>2, <1>3 DEF LiveDags

(* What is in the slots that are owned.                                    *)
LEMMA OwnedInstances ==
  ASSUME InstInv, NEW s \in Owned
  PROVE  inst[s] # Free /\ inst[s].type \in {"gpu", "cpu", "copy"}
<1>1. CASE KernelInstance(inst[s])
  BY <1>1, Keys DEF KernelInstance, KernelInstanceOf, Free
<1>2. CASE \E c \in Copy : inst[s] = CopyInstance(c)
  BY <1>2 DEF CopyInstance, Free
<1> QED
  BY <1>1, <1>2 DEF InstInv

-----------------------------------------------------------------------------
(* What a step that leaves a part alone keeps.                             *)

LEMMA TablesKept ==
  ASSUME UNCHANGED <<mKernels, kernels>>
  PROVE  /\ KernelInv /\ alive \subseteq alive' => KernelInv'
         /\ InfoInv /\ infos' = infos => InfoInv'
         /\ \A i : KernelInstance(i) <=> KernelInstance(i)'
<1>1. \A k, x, i : Holds(k, x, i)' <=> Holds(k, x, i)
  BY DEF Holds
<1>2. \A i : KernelInstance(i) <=> KernelInstance(i)'
  BY <1>1 DEF KernelInstance
<1>3. KernelInv /\ alive \subseteq alive' => KernelInv'
  BY <1>1 DEF KernelInv
<1>4. InfoInv /\ infos' = infos => InfoInv'
  BY <1>1 DEF InfoInv
<1> QED
  BY <1>2, <1>3, <1>4

LEMMA InstancesKept ==
  ASSUME InstInv,
         \A i : KernelInstance(i) => KernelInstance(i)',
         \A s \in Owned' : \/ s \in Owned /\ inst'[s] = inst[s]
                           \/ KernelInstance(inst'[s])
                           \/ \E c \in Copy : inst'[s] = CopyInstance(c)
  PROVE  InstInv'
BY DEF InstInv, CopyInstance

LEMMA NodesStill ==
  ASSUME NodeDataOwnedOnce,
         \A d \in LiveDags' : \A p \in dags'[d] :
           /\ d \in LiveDags /\ dags'[d] = dags[d]
           /\ inst'[p[2]] = inst[p[2]] /\ p[2] \notin temps'
  PROVE  NodeDataOwnedOnce'
<1>1. ASSUME NEW d \in LiveDags', NEW p \in dags'[d]
      PROVE  /\ inst'[p[2]] # Free
             /\ TypeId(inst'[p[2]].type) = p[1]
             /\ p[1] \in 0..2
             /\ p[2] \notin temps'
             /\ \A q \in dags'[d] \ {p} : p[2] # q[2]
  <2>1. d \in LiveDags /\ dags'[d] = dags[d] /\ p \in dags[d] /\ inst'[p[2]] = inst[p[2]]
    BY <1>1
  <2> QED
    BY <2>1, <1>1 DEF NodeDataOwnedOnce
<1>2. ASSUME NEW c \in LiveDags', NEW d \in LiveDags', c # d,
             NEW p \in dags'[c], NEW q \in dags'[d]
      PROVE  p[2] # q[2]
  <2>1. c \in LiveDags /\ d \in LiveDags /\ p \in dags[c] /\ q \in dags[d]
    BY <1>2
  <2> QED
    BY <1>2, <2>1 DEF NodeDataOwnedOnce
<1>3. \A c, d \in LiveDags' : c # d =>
        {p[2] : p \in dags'[c]} \cap {p[2] : p \in dags'[d]} = {}
  BY <1>2
<1> QED
  BY <1>1, <1>3 DEF NodeDataOwnedOnce

LEMMA NodesKept ==
  ASSUME NodeDataOwnedOnce, dags' = dags,
         \A s \in Slot : InNode(s) => inst'[s] = inst[s] /\ s \notin temps',
         TypeOK
  PROVE  NodeDataOwnedOnce' /\ \A s : InNode(s)' <=> InNode(s)
<1>1. LiveDags' = LiveDags
  BY DEF LiveDags
<1>2. \A d \in LiveDags : \A p \in dags[d] : inst'[p[2]] = inst[p[2]] /\ p[2] \notin temps'
  BY NodeData DEF InNode
<1>3. \A s : InNode(s)' <=> InNode(s)
  BY <1>1 DEF InNode
<1> QED
  BY <1>1, <1>2, <1>3 DEF NodeDataOwnedOnce

LEMMA Owners ==
  ASSUME TypeOK, NodeDataOwnedOnce
  PROVE  /\ \A s \in temps : s \in Owned /\ ~InNode(s)
         /\ \A s \in Owned : s \in temps \/ InNode(s)
         /\ \A s : InNode(s) => s \in Owned
<1>1. \A s : InNode(s) => s \in Owned
  BY NodeData DEF InNode
<1>2. \A s \in temps : s \in Owned /\ ~InNode(s)
  BY DEF TypeOK, Owned, InNode, NodeDataOwnedOnce
<1> QED
  BY <1>1, <1>2 DEF Owned

-----------------------------------------------------------------------------
(* The executors and their kernels.                                        *)

LEMMA InitInv == Init => IInv
<1> SUFFICES ASSUME Init PROVE IInv
  OBVIOUS
<1>1. TypeOK
  BY DEF Init, TypeOK
<1>2. LiveDags = {} /\ Owned = {}
  BY DEF Init, LiveDags, Owned, InNode
<1>3. KernelInv /\ InfoInv
  BY DEF Init, KernelInv, InfoInv
<1> QED
  BY <1>1, <1>2, <1>3 DEF Init, IInv, InstInv, NodeDataOwnedOnce, RunsWhatWasAsked

LEMMA NewExecutorInv ==
  ASSUME IInv, NEW k, NewExecutor(k)
  PROVE  IInv'
<1>1. /\ UNCHANGED <<mKernels, kernels, infos, inst, temps, dags, tasks>>
      /\ alive' = alive \cup {k} /\ k \in {"gpu", "cpu"}
  BY DEF NewExecutor
<1>2. TypeOK /\ KernelInv /\ InfoInv /\ InstInv /\ NodeDataOwnedOnce /\ RunsWhatWasAsked
  BY DEF IInv
<1>3. TypeOK'
  BY <1>1, <1>2 DEF TypeOK
<1>4. KernelInv' /\ InfoInv' /\ \A i : KernelInstance(i) => KernelInstance(i)'
  BY <1>1, <1>2, TablesKept
<1>5. NodeDataOwnedOnce' /\ \A s : InNode(s)' <=> InNode(s)
  BY <1>1, <1>2, Owners, NodesKept
<1>6. InstInv'
  BY <1>1, <1>2, <1>4, <1>5, InstancesKept DEF Owned
<1>7. RunsWhatWasAsked'
  BY <1>1, <1>2 DEF RunsWhatWasAsked
<1> QED
  BY <1>3, <1>4, <1>5, <1>6, <1>7 DEF IInv

LEMMA DestroyExecutorInv ==
  ASSUME IInv, NEW k \in {"gpu", "cpu"}, DestroyExecutor(k)
  PROVE  IInv'
<1>1. TypeOK /\ KernelInv /\ InfoInv /\ InstInv /\ NodeDataOwnedOnce /\ RunsWhatWasAsked
  BY DEF IInv
<1>2. /\ UNCHANGED <<inst, temps, dags, tasks>>
      /\ alive' = alive \ {k}
      /\ kernels' = [i \in DOMAIN kernels |->
                       IF i \in Range(mKernels[k])
                       THEN [kernels[i] EXCEPT !.released = @ + 1] ELSE kernels[i]]
      /\ mKernels' = [mKernels EXCEPT ![k] = <<>>]
      /\ infos' = [f \in Func |-> IF KindOf(f) = k THEN NoInfo ELSE infos[f]]
  BY DEF DestroyExecutor
<1>3. /\ DOMAIN mKernels' = {"gpu", "cpu"} /\ DOMAIN mKernels'[k] = {}
      /\ \A l \in {"gpu", "cpu"} : l # k => mKernels'[l] = mKernels[l]
  BY <1>1, <1>2 DEF TypeOK
<1>4. \A l \in {"gpu", "cpu"} : \A x, i : Holds(l, x, i)' <=> l # k /\ Holds(l, x, i)
  BY <1>3 DEF Holds
<1>5. ASSUME NEW i \in DOMAIN kernels
      PROVE  /\ kernels[i] \in [code : Func \cup Range(Wrapper), params : Seq(ArgTypes), released : Nat]
             /\ i \in Range(mKernels[k]) => /\ kernels[i].released = 0
                                            /\ kernels'[i].released = 1
                                            /\ kernels'[i].code = kernels[i].code
                                            /\ kernels'[i].params = kernels[i].params
                                            /\ kernels'[i] \in [code : Func \cup Range(Wrapper), params : Seq(ArgTypes), released : Nat]
             /\ i \notin Range(mKernels[k]) => kernels'[i] = kernels[i]
  <2> DEFINE R == [code : Func \cup Range(Wrapper), params : Seq(ArgTypes), released : Nat]
  <2>1. kernels \in Seq(R)
    BY <1>1 DEF TypeOK
  <2> HIDE DEF R
  <2>2. kernels[i] \in R
    BY <2>1
  <2>3. i \in Range(mKernels[k]) => kernels[i].released = 0
    <3> SUFFICES ASSUME i \in Range(mKernels[k])
                 PROVE  kernels[i].released = 0
      OBVIOUS
    <3>1. PICK x \in DOMAIN mKernels[k] : mKernels[k][x] = i
      BY DEF Range
    <3> QED
      BY <1>1, <3>1 DEF KernelInv
  <2> QED
    BY <1>2, <2>2, <2>3 DEF R
<1>6. TypeOK'
  <2>1. DOMAIN kernels' = DOMAIN kernels /\ DOMAIN kernels = 1..Len(kernels) /\ Len(kernels) \in Nat
    BY <1>1, <1>2 DEF TypeOK
  <2> DEFINE R == [code : Func \cup Range(Wrapper), params : Seq(ArgTypes), released : Nat]
  <2>2. \A i \in 1..Len(kernels) : kernels'[i] \in R
    BY <1>5, <2>1
  <2>3. kernels' = [i \in 1..Len(kernels) |-> kernels'[i]]
    BY <1>2, <2>1
  <2>4. kernels' \in Seq(R)
    <3> HIDE DEF R
    <3> QED
      BY <2>1, <2>2, <2>3
  <2> QED
    BY <1>1, <1>2, <1>3, <2>4 DEF TypeOK
<1>7. \A l \in {"gpu", "cpu"} : l # k =>
        \A x \in DOMAIN mKernels[l] : mKernels[l][x] \notin Range(mKernels[k])
  BY <1>1 DEF KernelInv, Range
<1>8. KernelInv'
  <2>1. ASSUME NEW l \in {"gpu", "cpu"}, NEW x \in DOMAIN mKernels'[l]
        PROVE  /\ l \in alive'
               /\ x \in Func \cup Range(Wrapper)
               /\ mKernels'[l][x] \in DOMAIN kernels'
               /\ kernels'[mKernels'[l][x]].code = x
               /\ kernels'[mKernels'[l][x]].released = 0
               /\ \A f \in Func : KindOf(f) = l /\ Key(f) = x =>
                    kernels'[mKernels'[l][x]].params = Signature[f]
    <3>1. l # k /\ mKernels'[l] = mKernels[l]
      BY <1>3, <2>1
    <3> QED
      BY <1>1, <1>2, <1>5, <1>7, <3>1 DEF KernelInv
  <2>2. ASSUME NEW l \in {"gpu", "cpu"}, NEW m \in {"gpu", "cpu"},
               NEW x \in DOMAIN mKernels'[l], NEW y \in DOMAIN mKernels'[m],
               mKernels'[l][x] = mKernels'[m][y]
        PROVE  l = m
    <3>1. l # k /\ m # k
      BY <1>3
    <3> QED
      BY <3>1
  <2>3. ASSUME NEW i \in DOMAIN kernels', kernels'[i].released # 1
        PROVE  \E l \in {"gpu", "cpu"} :
                 kernels'[i].code \in DOMAIN mKernels'[l] /\ mKernels'[l][kernels'[i].code] = i
    <3>1. i \in DOMAIN kernels
      BY <1>2
    <3>2. i \notin Range(mKernels[k]) /\ kernels'[i] = kernels[i]
      BY <1>5, <2>3, <3>1
    <3>3. PICK l \in {"gpu", "cpu"} : Holds(l, kernels[i].code, i)
      BY <1>1, <2>3, <3>1, <3>2 DEF KernelInv
    <3>4. l # k
      BY <3>2, <3>3 DEF Holds, Range
    <3> QED
      BY <1>3, <3>2, <3>3, <3>4 DEF Holds
  <2> QED
    BY <2>1, <2>2, <2>3 DEF KernelInv, Holds
<1>9. InfoInv'
  <2> SUFFICES ASSUME NEW f \in Func, infos'[f] # NoInfo
               PROVE  \E i \in DOMAIN kernels' :
                        Holds(KindOf(f), Key(f), i)' /\ infos'[f] = Info(f, i)
    BY DEF InfoInv
  <2>1. KindOf(f) # k /\ infos'[f] = infos[f] /\ KindOf(f) \in {"gpu", "cpu"}
    BY <1>2, Keys
  <2>2. PICK i \in DOMAIN kernels : Holds(KindOf(f), Key(f), i) /\ infos[f] = Info(f, i)
    BY <1>1, <2>1 DEF InfoInv
  <2> QED
    BY <1>2, <1>4, <2>1, <2>2
<1>10. InstInv' /\ NodeDataOwnedOnce'
  <2>1. NodeDataOwnedOnce' /\ \A s : InNode(s)' <=> InNode(s)
    BY <1>1, <1>2, Owners, NodesKept
  <2>2. \A s \in Owned : inst[s].type # k
    BY <1>1, NodeData, Owners DEF DestroyExecutor, InNode
  <2> SUFFICES ASSUME NEW s \in Owned
               PROVE  KernelInstance(inst[s])' \/ \E c \in Copy : inst[s] = CopyInstance(c)
    BY <1>2, <2>1 DEF InstInv, Owned, CopyInstance
  <2>3. CASE KernelInstance(inst[s])
    <3>1. PICK f \in Func : \E a \in ArgLists[f], kern \in DOMAIN kernels :
            /\ Holds(KindOf(f), Key(f), kern)
            /\ inst[s] = KernelInstanceOf(f, a, Info(f, kern))
      BY <2>3 DEF KernelInstance
    <3>a. PICK a \in ArgLists[f], kern \in DOMAIN kernels :
            /\ Holds(KindOf(f), Key(f), kern)
            /\ inst[s] = KernelInstanceOf(f, a, Info(f, kern))
      BY <3>1
    <3>2. KindOf(f) # k /\ KindOf(f) \in {"gpu", "cpu"}
      BY <2>2, <3>a, Keys DEF KernelInstanceOf
    <3>3. Holds(KindOf(f), Key(f), kern)' /\ kern \in DOMAIN kernels'
      BY <1>2, <1>4, <3>a, <3>2
    <3> QED
      BY <1>2, <3>a, <3>3 DEF KernelInstance
  <2> QED
    BY <1>1, <2>3 DEF InstInv
<1>11. RunsWhatWasAsked'
  BY <1>1, <1>2 DEF RunsWhatWasAsked
<1> QED
  BY <1>6, <1>8, <1>9, <1>10, <1>11 DEF IInv

LEMMA RegisterKernelInv ==
  ASSUME IInv, NEW f \in Func, RegisterKernel(f)
  PROVE  IInv'
<1>1. TypeOK /\ KernelInv /\ InfoInv /\ InstInv /\ NodeDataOwnedOnce /\ RunsWhatWasAsked
  BY DEF IInv
<1> DEFINE K == KindOf(f)
           R == [code : Func \cup Range(Wrapper), params : Seq(ArgTypes), released : Nat]
<1>2. /\ K \in alive /\ K \in {"gpu", "cpu"} /\ Key(f) \in Func \cup Range(Wrapper)
      /\ UNCHANGED <<alive, inst, temps, dags, tasks>>
  BY Keys DEF RegisterKernel
<1>3. /\ DOMAIN kernels = 1..Len(kernels) /\ Len(kernels) \in Nat /\ kernels \in Seq(R)
      /\ DOMAIN infos = Func
  BY <1>1 DEF TypeOK
<1>4. NodeDataOwnedOnce' /\ \A s : InNode(s)' <=> InNode(s)
  BY <1>1, <1>2, Owners, NodesKept
<1>5. RunsWhatWasAsked'
  BY <1>1, <1>2 DEF RunsWhatWasAsked
<1>6. CASE Key(f) \in DOMAIN mKernels[K]
  <2>1. /\ UNCHANGED <<kernels, mKernels>>
        /\ infos' = [infos EXCEPT ![f] = Info(f, mKernels[K][Key(f)])]
    BY <1>6 DEF RegisterKernel
  <2>2. KernelInv' /\ \A i : KernelInstance(i) => KernelInstance(i)'
    BY <1>1, <1>2, <2>1, TablesKept
  <2>3. TypeOK'
    BY <1>1, <1>2, <2>1 DEF TypeOK
  <2>4. InfoInv'
    <3>1. Holds(K, Key(f), mKernels[K][Key(f)]) /\ mKernels[K][Key(f)] \in DOMAIN kernels
      BY <1>1, <1>2, <1>6 DEF Holds, KernelInv
    <3>2. \A k, x, i : Holds(k, x, i)' <=> Holds(k, x, i)
      BY <2>1 DEF Holds
    <3>3. \A g \in Func : infos'[g] = IF g = f THEN Info(f, mKernels[K][Key(f)]) ELSE infos[g]
      BY <1>3, <2>1
    <3> QED
      BY <1>1, <2>1, <3>1, <3>2, <3>3 DEF InfoInv
  <2>5. InstInv'
    BY <1>1, <1>2, <1>4, <2>2, InstancesKept DEF Owned
  <2> QED
    BY <1>4, <1>5, <2>2, <2>3, <2>4, <2>5 DEF IInv
<1>7. CASE Key(f) \notin DOMAIN mKernels[K]
  <2> SUFFICES ASSUME NEW n, n = Len(kernels) + 1
               PROVE  IInv'
    OBVIOUS
  <2>1. /\ infos' = [infos EXCEPT ![f] = Info(f, n)]
        /\ kernels' = Append(kernels, NewKernel(f))
        /\ mKernels' = [mKernels EXCEPT ![K] = Insert(mKernels[K], Key(f), n)]
    BY <1>7 DEF RegisterKernel
  <2>2. /\ DOMAIN mKernels' = {"gpu", "cpu"}
        /\ DOMAIN mKernels'[K] = DOMAIN mKernels[K] \cup {Key(f)}
        /\ mKernels'[K][Key(f)] = n
        /\ \A x \in DOMAIN mKernels[K] : mKernels'[K][x] = mKernels[K][x]
        /\ \A k \in {"gpu", "cpu"} : k # K => mKernels'[k] = mKernels[k]
    BY <1>1, <1>2, <1>7, <2>1 DEF TypeOK, Insert
  <2>3. /\ kernels' \in Seq(R) /\ DOMAIN kernels' = DOMAIN kernels \cup {n}
        /\ n \notin DOMAIN kernels
        /\ kernels'[n] = [code |-> Key(f), params |-> Signature[f], released |-> 0]
        /\ \A i \in DOMAIN kernels : kernels'[i] = kernels[i]
    <3> DEFINE new == [code |-> Key(f), params |-> Signature[f], released |-> 0]
    <3>1. new \in R /\ NewKernel(f) = new
      BY <1>2, SignatureAssumption DEF Func, NewKernel, Code
    <3> HIDE DEF new, R
    <3>2. /\ kernels' \in Seq(R) /\ DOMAIN kernels' = 1..n
          /\ kernels'[n] = new /\ \A i \in 1..Len(kernels) : kernels'[i] = kernels[i]
      BY <1>3, <2>1, <3>1 DEF new
    <3>3. 1..n = (1..Len(kernels)) \cup {n} /\ n \notin 1..Len(kernels)
      BY <1>3
    <3> QED
      BY <1>3, <3>2, <3>3 DEF new
  <2> HIDE DEF K, R
  <2>4. \A k \in {"gpu", "cpu"} : \A x \in DOMAIN mKernels'[k] :
          \/ k = K /\ x = Key(f) /\ mKernels'[k][x] = n
          \/ x \in DOMAIN mKernels[k] /\ mKernels'[k][x] = mKernels[k][x]
    BY <2>2
  <2>5. \A k \in {"gpu", "cpu"} : \A x, i : Holds(k, x, i) => Holds(k, x, i)'
    BY <2>2 DEF Holds
  <2>6. Holds(K, Key(f), n)'
    BY <2>2 DEF Holds
  <2>7. \A k \in {"gpu", "cpu"} : \A x \in DOMAIN mKernels[k] : mKernels[k][x] \in DOMAIN kernels
    BY <1>1 DEF KernelInv
  <2>8. KernelInv'
    <3>1. ASSUME NEW k \in {"gpu", "cpu"}, NEW x \in DOMAIN mKernels'[k]
          PROVE  /\ k \in alive'
                 /\ x \in Func \cup Range(Wrapper)
                 /\ mKernels'[k][x] \in DOMAIN kernels'
                 /\ kernels'[mKernels'[k][x]].code = x
                 /\ kernels'[mKernels'[k][x]].released = 0
                 /\ \A g \in Func : KindOf(g) = k /\ Key(g) = x =>
                      kernels'[mKernels'[k][x]].params = Signature[g]
      <4>1. CASE k = K /\ x = Key(f) /\ mKernels'[k][x] = n
        <5>1. \A g \in Func : KindOf(g) = k /\ Key(g) = x => Signature[g] = Signature[f]
          BY <4>1, SameKey DEF K
        <5>2. /\ kernels'[n].code = Key(f) /\ kernels'[n].params = Signature[f]
              /\ kernels'[n].released = 0
          BY <2>3
        <5> QED
          BY <1>2, <2>3, <4>1, <5>1, <5>2
      <4>2. CASE x \in DOMAIN mKernels[k] /\ mKernels'[k][x] = mKernels[k][x]
        <5>1. mKernels[k][x] \in DOMAIN kernels
          BY <2>7, <4>2
        <5>2. kernels'[mKernels[k][x]] = kernels[mKernels[k][x]]
          BY <2>3, <5>1
        <5> QED
          BY <1>1, <1>2, <2>3, <4>2, <5>1, <5>2 DEF KernelInv
      <4> QED
        BY <2>4, <4>1, <4>2
    <3>2. ASSUME NEW k \in {"gpu", "cpu"}, NEW l \in {"gpu", "cpu"},
                 NEW x \in DOMAIN mKernels'[k], NEW y \in DOMAIN mKernels'[l],
                 mKernels'[k][x] = mKernels'[l][y]
          PROVE  k = l
      BY <1>1, <2>3, <2>4, <2>7, <3>2 DEF KernelInv
    <3>3. ASSUME NEW i \in DOMAIN kernels', kernels'[i].released # 1
          PROVE  \E k \in {"gpu", "cpu"} :
                   kernels'[i].code \in DOMAIN mKernels'[k] /\ mKernels'[k][kernels'[i].code] = i
      <4>1. CASE i = n
        BY <1>2, <2>2, <2>3, <4>1
      <4>2. CASE i \in DOMAIN kernels
        <5>1. kernels'[i] = kernels[i]
          BY <2>3, <4>2
        <5>2. PICK k \in {"gpu", "cpu"} : Holds(k, kernels[i].code, i)
          BY <1>1, <3>3, <4>2, <5>1 DEF KernelInv
        <5> QED
          BY <2>2, <5>1, <5>2 DEF Holds
      <4> QED
        BY <2>3, <4>1, <4>2
    <3> QED
      BY <3>1, <3>2, <3>3 DEF KernelInv, Holds
  <2>9. TypeOK'
    BY <1>1, <1>2, <2>1, <2>2, <2>3 DEF TypeOK, R
  <2>10. InfoInv'
    <3>1. \A g \in Func : infos'[g] = IF g = f THEN Info(f, n) ELSE infos[g]
      BY <1>3, <2>1
    <3> SUFFICES ASSUME NEW g \in Func, infos'[g] # NoInfo
                 PROVE  \E i \in DOMAIN kernels' :
                          Holds(KindOf(g), Key(g), i)' /\ infos'[g] = Info(g, i)
      BY DEF InfoInv
    <3>2. CASE g = f
      BY <2>3, <2>6, <3>1, <3>2 DEF K
    <3>3. CASE g # f
      BY <1>1, <2>3, <2>5, <3>1, <3>3, Keys DEF InfoInv
    <3> QED
      BY <3>2, <3>3
  <2>11. InstInv'
    <3>1. \A i : KernelInstance(i) => KernelInstance(i)'
      BY <2>3, <2>5, Keys DEF KernelInstance
    <3> QED
      BY <1>1, <1>2, <1>4, <3>1, InstancesKept DEF Owned
  <2> QED
    BY <1>4, <1>5, <2>8, <2>9, <2>10, <2>11 DEF IInv
<1> QED
  BY <1>6, <1>7

-----------------------------------------------------------------------------
(* Instances and the nodes they are copied into.                           *)

(* A new instance in a free slot, of the program's own.                    *)
LEMMA NewInstanceInv ==
  ASSUME IInv, NEW s \in Slot, NEW i,
         s \in FreeSlots,
         KernelInstance(i) \/ \E c \in Copy : i = CopyInstance(c),
         inst' = [inst EXCEPT ![s] = i],
         temps' = temps \cup {s},
         UNCHANGED <<alive, mKernels, kernels, infos, dags, tasks>>
  PROVE  IInv'
<1>1. TypeOK /\ KernelInv /\ InfoInv /\ InstInv /\ NodeDataOwnedOnce /\ RunsWhatWasAsked
  BY DEF IInv
<1>2. s \notin Owned
  BY <1>1, OwnedInstances DEF FreeSlots
<1>3. \A r \in Slot : inst'[r] = IF r = s THEN i ELSE inst[r]
  BY <1>1 DEF TypeOK
<1>4. TypeOK'
  BY <1>1 DEF TypeOK
<1>5. KernelInv' /\ InfoInv' /\ \A j : KernelInstance(j) => KernelInstance(j)'
  BY <1>1, TablesKept
<1>6. NodeDataOwnedOnce' /\ \A r : InNode(r)' <=> InNode(r)
  <2>1. \A r \in Slot : InNode(r) => inst'[r] = inst[r] /\ r \notin temps'
    BY <1>1, <1>2, <1>3, Owners
  <2> QED
    BY <1>1, <2>1, NodesKept
<1>7. InstInv'
  <2>1. \A r \in Owned' : r = s \/ (r \in Owned /\ r # s)
    BY <1>2, <1>6 DEF Owned
  <2>2. \A r \in Owned' : r \in Slot
    BY DEF Owned
  <2> QED
    BY <1>1, <1>3, <1>5, <2>1, <2>2, InstancesKept
<1>8. RunsWhatWasAsked'
  BY <1>1 DEF RunsWhatWasAsked
<1> QED
  BY <1>4, <1>5, <1>6, <1>7, <1>8 DEF IInv

LEMMA MakeTaskInv ==
  ASSUME IInv, NEW f \in Func, NEW a \in ArgLists[f], NEW s \in Slot, MakeTask(f, a, s)
  PROVE  IInv'
<1>1. PICK i \in DOMAIN kernels : Holds(KindOf(f), Key(f), i) /\ infos[f] = Info(f, i)
  BY DEF IInv, InfoInv, MakeTask
<1>2. KernelInstance(Instance(f, a))
  BY <1>1 DEF KernelInstance, Instance
<1>3. inst' = [inst EXCEPT ![s] = Instance(f, a)]
  BY DEF MakeTask
<1> QED
  BY <1>2, <1>3, NewInstanceInv DEF MakeTask, NewSlot

LEMMA MakeCopyTaskInv ==
  ASSUME IInv, NEW c \in Copy, NEW s \in Slot, MakeCopyTask(c, s)
  PROVE  IInv'
<1>1. inst' = [inst EXCEPT ![s] = CopyInstance(c)]
  BY DEF MakeCopyTask
<1> QED
  BY <1>1, NewInstanceInv DEF MakeCopyTask, NewSlot

LEMMA DestroyInstanceInv ==
  ASSUME IInv, NEW s \in Slot, DestroyInstance(s)
  PROVE  IInv'
<1>1. TypeOK /\ KernelInv /\ InfoInv /\ InstInv /\ NodeDataOwnedOnce /\ RunsWhatWasAsked
  BY DEF IInv
<1>2. /\ s \in temps /\ temps' = temps \ {s}
      /\ inst' = [inst EXCEPT ![s] = Free]
      /\ UNCHANGED <<alive, mKernels, kernels, infos, dags, tasks>>
  BY DEF DestroyInstance
<1>3. \A r \in Slot : r # s => inst'[r] = inst[r]
  BY <1>1, <1>2 DEF TypeOK
<1>4. TypeOK'
  BY <1>1, <1>2 DEF TypeOK
<1>5. KernelInv' /\ InfoInv' /\ \A j : KernelInstance(j) => KernelInstance(j)'
  BY <1>1, <1>2, TablesKept
<1>6. NodeDataOwnedOnce' /\ \A r : InNode(r)' <=> InNode(r)
  <2>1. \A r \in Slot : InNode(r) => inst'[r] = inst[r] /\ r \notin temps'
    BY <1>1, <1>2, <1>3, Owners
  <2> QED
    BY <1>1, <1>2, <2>1, NodesKept
<1>7. InstInv'
  <2>1. \A r \in Owned' : r \in Slot /\ r \in Owned /\ r # s
    BY <1>1, <1>2, <1>6, Owners DEF Owned
  <2> QED
    BY <1>1, <1>3, <1>5, <2>1, InstancesKept
<1>8. RunsWhatWasAsked'
  BY <1>1, <1>2 DEF RunsWhatWasAsked
<1> QED
  BY <1>4, <1>5, <1>6, <1>7, <1>8 DEF IInv

LEMMA MakeDAGInv ==
  ASSUME IInv, MakeDAG
  PROVE  IInv'
<1>1. TypeOK /\ KernelInv /\ InfoInv /\ InstInv /\ NodeDataOwnedOnce /\ RunsWhatWasAsked
  BY DEF IInv
<1>2. /\ dags' = Append(dags, {})
      /\ UNCHANGED <<alive, mKernels, kernels, infos, inst, temps, tasks>>
  BY DEF MakeDAG
<1> DEFINE U == (SUBSET ((0..2) \X Slot)) \cup {Destroyed}
           n == Len(dags) + 1
<1>3. dags \in Seq(U) /\ {} \in U /\ DOMAIN dags = 1..Len(dags) /\ Len(dags) \in Nat
  BY <1>1 DEF TypeOK
<1> HIDE DEF U
<1>4. /\ dags' \in Seq(U) /\ DOMAIN dags' = DOMAIN dags \cup {n} /\ n \notin DOMAIN dags
      /\ dags'[n] = {} /\ \A d \in DOMAIN dags : dags'[d] = dags[d]
  <2>1. 1..n = (1..Len(dags)) \cup {n} /\ n \notin 1..Len(dags)
    BY <1>3
  <2>2. DOMAIN dags' = 1..n
    BY <1>2, <1>3
  <2> QED
    BY <1>2, <1>3, <2>1, <2>2
<1> HIDE DEF n
<1>5. TypeOK'
  BY <1>1, <1>2, <1>4 DEF TypeOK, U
<1>6. LiveDags' = LiveDags \cup {n}
  BY <1>4 DEF LiveDags, Destroyed
<1>7. \A r : InNode(r)' <=> InNode(r)
  BY <1>4, <1>6 DEF InNode, LiveDags
<1>8. NodeDataOwnedOnce'
  <2>1. \A d \in LiveDags : d \in DOMAIN dags
    BY DEF LiveDags
  <2>2. \A d \in LiveDags' : d = n \/ d \in LiveDags
    BY <1>6
  <2>3. \A d \in LiveDags' : dags'[d] = {} \/ (d \in LiveDags /\ dags'[d] = dags[d])
    BY <1>4, <2>1, <2>2
  <2>4. \A d \in LiveDags : \A p \in dags[d] : p[2] \notin temps
    BY <1>1 DEF NodeDataOwnedOnce
  <2> QED
    BY <1>1, <1>2, <2>3, <2>4, NodesStill
<1>9. KernelInv' /\ InfoInv' /\ \A j : KernelInstance(j) => KernelInstance(j)'
  BY <1>1, <1>2, TablesKept
<1>10. InstInv'
  BY <1>1, <1>2, <1>7, <1>9, InstancesKept DEF Owned
<1>11. RunsWhatWasAsked'
  BY <1>1, <1>2 DEF RunsWhatWasAsked
<1> QED
  BY <1>5, <1>8, <1>9, <1>10, <1>11 DEF IInv

(* addNode: a free slot becomes the data of a node.                        *)
LEMMA AddNodeInv ==
  ASSUME IInv, NEW d \in DOMAIN dags, NEW t \in Slot, NEW s \in Slot, AddNode(d, t, s)
  PROVE  IInv'
<1>1. TypeOK /\ KernelInv /\ InfoInv /\ InstInv /\ NodeDataOwnedOnce /\ RunsWhatWasAsked
  BY DEF IInv
<1> DEFINE id == TypeId(inst[t].type)
<1>2. /\ d \in LiveDags /\ t \in temps /\ s \in FreeSlots
      /\ inst' = [inst EXCEPT ![s] = inst[t]]
      /\ dags' = [dags EXCEPT ![d] = dags[d] \cup {<<id, s>>}]
      /\ UNCHANGED <<alive, mKernels, kernels, infos, temps, tasks>>
  BY DEF AddNode, NewSlot, AllocateNodeData, MultiTypePtr
<1>3. s \notin Owned
  BY <1>1, <1>2, OwnedInstances DEF FreeSlots
<1>4. t \in Owned /\ t # s /\ inst[t] # Free /\ id \in 0..2
  BY <1>1, <1>2, <1>3, Owners, OwnedInstances, TypeIds
<1> HIDE DEF id
<1>5. \A r \in Slot : inst'[r] = IF r = s THEN inst[t] ELSE inst[r]
  BY <1>1, <1>2 DEF TypeOK
<1>6. /\ DOMAIN dags' = DOMAIN dags
      /\ dags'[d] = dags[d] \cup {<<id, s>>}
      /\ \A c \in DOMAIN dags : c # d => dags'[c] = dags[c]
  BY <1>2
<1>7. /\ dags[d] \subseteq (0..2) \X Slot
      /\ dags'[d] \subseteq (0..2) \X Slot
  <2>1. dags[d] \subseteq (0..2) \X Slot
    BY <1>1, <1>2, NodeData
  <2> QED
    BY <1>4, <1>6, <2>1
<1>8. /\ dags'[d] # Destroyed
      /\ LiveDags' = LiveDags
  <2>1. <<0, 0>> \notin (0..2) \X Slot
    BY SlotAssumption
  <2>2. dags'[d] # Destroyed
    BY <1>7, <2>1 DEF Destroyed
  <2> QED
    BY <1>2, <1>6, <2>2 DEF LiveDags
<1>9. TypeOK'
  <2> DEFINE T == (SUBSET ((0..2) \X Slot)) \cup {Destroyed}
  <2>1. dags \in Seq(T) /\ dags'[d] \in T
    BY <1>1, <1>7 DEF TypeOK
  <2> HIDE DEF T
  <2>2. dags' \in Seq(T)
    BY <1>2, <1>6, <2>1
  <2> QED
    BY <1>1, <1>2, <2>2 DEF TypeOK, T
<1>10. \A r : InNode(r)' <=> InNode(r) \/ r = s
  <2>1. \A r : InNode(r) <=> \E c \in LiveDags : \E p \in dags[c] : p[2] = r
    BY DEF InNode
  <2>2. \A r : InNode(r)' <=> \E c \in LiveDags : \E p \in dags'[c] : p[2] = r
    BY <1>8 DEF InNode
  <2>3. \A c \in LiveDags : c # d => dags'[c] = dags[c]
    BY <1>6 DEF LiveDags
  <2>4. \A p : p \in dags'[d] <=> p \in dags[d] \/ p = <<id, s>>
    BY <1>6
  <2> SUFFICES ASSUME NEW r
               PROVE  InNode(r)' <=> InNode(r) \/ r = s
    OBVIOUS
  <2>5. ASSUME InNode(r)'
        PROVE  InNode(r) \/ r = s
    <3>1. PICK c \in LiveDags : \E p \in dags'[c] : p[2] = r
      BY <2>2, <2>5
    <3>2. PICK p \in dags'[c] : p[2] = r
      BY <3>1
    <3> QED
      BY <2>1, <2>3, <2>4, <3>2
  <2>6. ASSUME InNode(r)
        PROVE  InNode(r)'
    BY <2>1, <2>2, <2>3, <2>4, <2>6
  <2>7. InNode(s)'
    <3>1. <<id, s>> \in dags'[d] /\ <<id, s>>[2] = s
      BY <2>4
    <3> QED
      BY <1>2, <2>2, <3>1
  <2> QED
    BY <2>5, <2>6, <2>7
<1>11. NodeDataOwnedOnce'
  <2>1. ASSUME NEW c \in LiveDags, NEW p \in dags'[c]
        PROVE  \/ c = d /\ p = <<id, s>>
               \/ p \in dags[c] /\ p[2] \in Slot /\ p[2] # s
    <3>1. \/ c = d /\ p = <<id, s>>
          \/ p \in dags[c]
      BY <1>6, <2>1 DEF LiveDags
    <3>2. p \in dags[c] => p[2] \in Owned /\ p[2] \in Slot
      BY <1>1, <2>1, NodeData DEF Owned
    <3> QED
      BY <1>3, <3>1, <3>2
  <2>2. ASSUME NEW c \in LiveDags, NEW p \in dags'[c]
        PROVE  /\ inst'[p[2]] # Free
               /\ TypeId(inst'[p[2]].type) = p[1]
               /\ p[1] \in 0..2
               /\ p[2] \notin temps
               /\ \A q \in dags'[c] \ {p} : p[2] # q[2]
    <3>1. CASE c = d /\ p = <<id, s>>
      <4>1. inst'[s] = inst[t] /\ p[1] = id /\ p[2] = s
        BY <1>5, <3>1
      <4>2. s \notin temps
        BY <1>1, <1>3, Owners
      <4>3. \A q \in dags'[c] \ {p} : q[2] # s
        BY <2>1, <3>1
      <4> QED
        BY <1>4, <4>1, <4>2, <4>3 DEF id
    <3>2. CASE p \in dags[c] /\ p[2] \in Slot /\ p[2] # s
      <4>1. inst'[p[2]] = inst[p[2]]
        BY <1>5, <3>2
      <4>2. \A q \in dags'[c] \ {p} : q[2] = s \/ q \in dags[c] \ {p}
        BY <2>1
      <4> QED
        BY <1>1, <3>2, <4>1, <4>2 DEF NodeDataOwnedOnce
    <3> QED
      BY <2>1, <3>1, <3>2
  <2>3. ASSUME NEW b \in LiveDags, NEW c \in LiveDags, b # c,
               NEW p \in dags'[b], NEW q \in dags'[c]
        PROVE  p[2] # q[2]
    <3>1. \/ b = d /\ p = <<id, s>>
          \/ p \in dags[b] /\ p[2] # s
      BY <2>1
    <3>2. \/ c = d /\ q = <<id, s>>
          \/ q \in dags[c] /\ q[2] # s
      BY <2>1
    <3>3. p \in dags[b] /\ q \in dags[c] => p[2] # q[2]
      BY <1>1, <2>3 DEF NodeDataOwnedOnce
    <3> QED
      BY <2>3, <3>1, <3>2, <3>3
  <2>4. \A b, c \in LiveDags : b # c =>
          {p[2] : p \in dags'[b]} \cap {p[2] : p \in dags'[c]} = {}
    BY <2>3
  <2> QED
    BY <1>2, <1>8, <2>2, <2>4 DEF NodeDataOwnedOnce
<1>12. KernelInv' /\ InfoInv' /\ \A j : KernelInstance(j) => KernelInstance(j)'
  BY <1>1, <1>2, TablesKept
<1>13. InstInv'
  <2>1. \A r \in Owned' : r \in Slot /\ (r = s \/ r \in Owned)
    BY <1>2, <1>10 DEF Owned
  <2>2. KernelInstance(inst[t]) \/ \E c \in Copy : inst[t] = CopyInstance(c)
    BY <1>1, <1>4 DEF InstInv
  <2> QED
    BY <1>1, <1>3, <1>5, <1>12, <2>1, <2>2, InstancesKept
<1>14. RunsWhatWasAsked'
  BY <1>1, <1>2 DEF RunsWhatWasAsked
<1> QED
  BY <1>9, <1>11, <1>12, <1>13, <1>14 DEF IInv

(* A DAG that is cleared or destroyed: its nodes' data belongs to nobody.  *)
LEMMA DropNodesInv ==
  ASSUME IInv, NEW d \in LiveDags, NEW data \in {{}, Destroyed},
         dags' = [dags EXCEPT ![d] = data],
         \A r \in Slot : inst'[r] = inst[r] \/ (\E p \in dags[d] : p[2] = r),
         DOMAIN inst' = Slot,
         UNCHANGED <<alive, mKernels, kernels, infos, temps, tasks>>
  PROVE  IInv'
<1>1. TypeOK /\ KernelInv /\ InfoInv /\ InstInv /\ NodeDataOwnedOnce /\ RunsWhatWasAsked
  BY DEF IInv
<1>2. /\ d \in DOMAIN dags /\ DOMAIN dags' = DOMAIN dags
      /\ dags'[d] = data
      /\ \A c \in DOMAIN dags : c # d => dags'[c] = dags[c]
  BY DEF LiveDags
<1>3. TypeOK'
  <2> DEFINE T == (SUBSET ((0..2) \X Slot)) \cup {Destroyed}
  <2>1. dags \in Seq(T) /\ data \in T
    BY <1>1 DEF TypeOK
  <2> HIDE DEF T
  <2>2. dags' \in Seq(T)
    BY <1>2, <2>1
  <2> QED
    BY <1>1, <2>2 DEF TypeOK, T
<1>4. ASSUME NEW c \in LiveDags'
      PROVE  c \in LiveDags /\ (dags'[c] = {} \/ (c # d /\ dags'[c] = dags[c]))
  <2>1. c \in DOMAIN dags /\ dags'[c] # Destroyed
    BY <1>2 DEF LiveDags
  <2> QED
    BY <1>2, <2>1 DEF LiveDags
<1>5. ASSUME NEW c \in LiveDags', NEW p \in dags'[c]
      PROVE  /\ c \in LiveDags /\ c # d /\ dags'[c] = dags[c] /\ p \in dags[c]
             /\ inst'[p[2]] = inst[p[2]]
             /\ InNode(p[2]) /\ p[2] \in Slot
  <2>1. c \in LiveDags /\ c # d /\ dags'[c] = dags[c] /\ p \in dags[c]
    BY <1>4, <1>5
  <2>2. p[2] \in Slot /\ InNode(p[2])
    BY <1>1, <2>1, NodeData DEF InNode, Owned
  <2>3. \A q \in dags[d] : q[2] # p[2]
    BY <1>1, <2>1 DEF NodeDataOwnedOnce
  <2> QED
    BY <2>1, <2>2, <2>3
<1>6. NodeDataOwnedOnce'
  <2>1. \A c \in LiveDags : \A p \in dags[c] : p[2] \notin temps
    BY <1>1 DEF NodeDataOwnedOnce
  <2> QED
    BY <1>1, <1>5, <2>1, NodesStill
<1>7. KernelInv' /\ InfoInv' /\ \A j : KernelInstance(j) => KernelInstance(j)'
  BY <1>1, TablesKept
<1>8. InstInv'
  <2> SUFFICES ASSUME NEW r \in Owned'
               PROVE  r \in Owned /\ inst'[r] = inst[r]
    BY <1>1, <1>7, InstancesKept
  <2>1. CASE r \in temps
    <3>1. r \in Owned /\ r \in Slot /\ ~InNode(r)
      BY <1>1, <2>1, Owners DEF Owned
    <3> QED
      BY <3>1 DEF InNode
  <2>2. CASE InNode(r)'
    <3>1. PICK c \in LiveDags' : \E p \in dags'[c] : p[2] = r
      BY <2>2 DEF InNode
    <3> QED
      BY <1>1, <1>5, <3>1, Owners
  <2> QED
    BY <2>1, <2>2 DEF Owned
<1>9. RunsWhatWasAsked'
  BY <1>1 DEF RunsWhatWasAsked
<1> QED
  BY <1>3, <1>6, <1>7, <1>8, <1>9 DEF IInv

LEMMA ClearDAGInv ==
  ASSUME IInv, NEW d \in DOMAIN dags, ClearDAG(d)
  PROVE  IInv'
<1>1. DOMAIN inst = Slot
  BY DEF IInv, TypeOK
<1>2. dags' = [dags EXCEPT ![d] = {}] /\ {} \in {{}, Destroyed}
  BY DEF ClearDAG
<1> QED
  BY <1>1, <1>2, DropNodesInv DEF ClearDAG

LEMMA DestroyDAGInv ==
  ASSUME IInv, NEW d \in DOMAIN dags, DestroyDAG(d)
  PROVE  IInv'
<1>1. /\ inst' = [s \in Slot |-> IF \E id \in 0..2 : <<id, s>> \in dags[d] THEN Free ELSE inst[s]]
      /\ dags' = [dags EXCEPT ![d] = Destroyed] /\ Destroyed \in {{}, Destroyed}
      /\ d \in LiveDags
      /\ UNCHANGED <<alive, mKernels, kernels, infos, temps, tasks>>
  BY DEF DestroyDAG, Deallocated
<1>2. ASSUME NEW r \in Slot
      PROVE  inst'[r] = inst[r] \/ \E p \in dags[d] : p[2] = r
  <2>1. CASE \E id \in 0..2 : <<id, r>> \in dags[d]
    <3>1. PICK id \in 0..2 : <<id, r>> \in dags[d]
      BY <2>1
    <3>2. <<id, r>>[2] = r
      OBVIOUS
    <3> QED
      BY <3>1, <3>2
  <2>2. CASE ~ \E id \in 0..2 : <<id, r>> \in dags[d]
    BY <1>1, <2>2
  <2> QED
    BY <2>1, <2>2
<1>3. DOMAIN inst' = Slot
  BY <1>1
<1> QED
  BY <1>1, <1>2, <1>3, DropNodesInv

-----------------------------------------------------------------------------
(* Launching.                                                              *)

(* What an instance that is owned makes ATMI run.                          *)
LEMMA OwnedRuns ==
  ASSUME IInv, NEW s \in Owned, NEW k, k = inst[s].type
  PROVE  <<Called(k, Read(k, s)), Given(k, Read(k, s))>> = inst[s].asked
<1>1. KernelInv /\ InstInv /\ Read(k, s) = inst[s] /\ inst[s] # Free
  BY OwnedInstances DEF IInv, Read
<1>2. CASE KernelInstance(inst[s])
  <2>a. PICK f \in Func : \E a \in ArgLists[f], kern \in DOMAIN kernels :
          /\ Holds(KindOf(f), Key(f), kern)
          /\ inst[s] = KernelInstanceOf(f, a, Info(f, kern))
    BY <1>2 DEF KernelInstance
  <2>1. PICK a \in ArgLists[f], kern \in DOMAIN kernels :
          /\ Holds(KindOf(f), Key(f), kern)
          /\ inst[s] = KernelInstanceOf(f, a, Info(f, kern))
    BY <2>a
  <2>2. k = KindOf(f) /\ k \in {"gpu", "cpu"} /\ inst[s].asked = <<f, a>>
    BY <2>1, Keys DEF KernelInstanceOf
  <2>3. /\ inst[s].kinfo.mKern = kern /\ inst[s].kinfo.mFuncPtr = f
        /\ inst[s].mKernArgs = Packed(Signature[f], a)
        /\ inst[s].mKernArgOffsets = ArgOffsets(Signature[f])
    BY <2>1 DEF Info, KernelInstanceOf
  <2>4. /\ kernels[kern].code = Key(f) /\ kernels[kern].released = 0
        /\ kernels[kern].params = Signature[f]
    BY <1>1, <2>1, <2>2 DEF KernelInv, Holds
  <2>5. Given(k, inst[s]) = a
    <3>1. Signature[f] \in Seq(ArgTypes) /\ a \in [DOMAIN Signature[f] -> Arg]
      BY SignatureAssumption DEF Func
    <3>2. Unpacked(Packed(Signature[f], a), ArgOffsets(Signature[f]), Signature[f]) = a
      BY <3>1, PackedIsReadBack
    <3>3. Given(k, inst[s]) = Unpacked(inst[s].mKernArgs, inst[s].mKernArgOffsets,
                                       kernels[inst[s].kinfo.mKern].params)
      BY <1>1, <2>2 DEF Given
    <3> QED
      BY <2>3, <2>4, <3>2, <3>3
  <2>6. Called(k, inst[s]) = f
    <3> SUFFICES ASSUME NEW i, i = inst[s]
                 PROVE  Called(k, i) = f
      OBVIOUS
    <3>1. i # Free /\ ~(kernels[i.kinfo.mKern].released > 0)
      BY <1>1, <2>3, <2>4
    <3>2. kernels[i.kinfo.mKern].code = Key(f) /\ i.kinfo.mFuncPtr = f
      BY <2>3, <2>4
    <3>3. CASE k = "gpu"
      <4>1. Key(f) = f
        BY <2>2, <3>3, Keys
      <4> QED
        BY <3>1, <3>2, <3>3, <4>1 DEF Called
    <3>4. CASE k = "cpu"
      <4>1. Key(f) = Wrapper[f]
        BY <2>2, <3>4, Keys
      <4> QED
        BY <3>1, <3>2, <3>4, <4>1 DEF Called
    <3> QED
      BY <2>2, <3>3, <3>4
  <2> QED
    BY <1>1, <2>2, <2>5, <2>6
<1>3. CASE \E c \in Copy : inst[s] = CopyInstance(c)
  <2>1. PICK c \in Copy : inst[s] = CopyInstance(c)
    BY <1>3
  <2>2. k = "copy" /\ inst[s].asked = <<c, c>>
    BY <2>1 DEF CopyInstance
  <2> QED
    BY <1>1, <2>2 DEF Called, Given
<1> QED
  BY <1>1, <1>2, <1>3 DEF InstInv

(* A step that changes only tasks.                                         *)
LEMMA TasksStep ==
  ASSUME IInv, UNCHANGED <<alive, mKernels, kernels, infos, inst, temps, dags>>,
         DOMAIN tasks' = 1..Len(tasks') /\ Len(tasks') \in Nat,
         RunsWhatWasAsked'
  PROVE  IInv'
<1>1. TypeOK /\ KernelInv /\ InfoInv /\ InstInv /\ NodeDataOwnedOnce
  BY DEF IInv
<1>2. TypeOK'
  BY <1>1 DEF TypeOK
<1>3. KernelInv' /\ InfoInv' /\ \A j : KernelInstance(j) => KernelInstance(j)'
  BY <1>1, TablesKept
<1>4. NodeDataOwnedOnce' /\ \A r : InNode(r)' <=> InNode(r)
  BY <1>1, Owners, NodesKept
<1>5. InstInv'
  BY <1>1, <1>3, <1>4, InstancesKept DEF Owned
<1> QED
  BY <1>2, <1>3, <1>4, <1>5 DEF IInv

LEMMA LaunchInv ==
  ASSUME IInv, NEW s \in Owned, NEW k, k = inst[s].type, LaunchInternalTask(k, s)
  PROVE  IInv'
<1> SUFFICES ASSUME NEW t, t = [exec |-> k, asked |-> inst[s].asked,
                                ran |-> <<Called(k, Read(k, s)), Given(k, Read(k, s))>>,
                                status |-> "launched"]
             PROVE  IInv'
  OBVIOUS
<1>1. /\ tasks' = Append(tasks, t)
      /\ UNCHANGED <<alive, mKernels, kernels, infos, inst, temps, dags>>
  BY DEF LaunchInternalTask
<1>2. t.ran = t.asked
  BY OwnedRuns
<1>3. /\ DOMAIN tasks = 1..Len(tasks) /\ Len(tasks) \in Nat
      /\ \A h \in DOMAIN tasks : tasks[h].ran = tasks[h].asked
  BY DEF IInv, TypeOK, RunsWhatWasAsked
<1>4. /\ DOMAIN tasks' = 1..(Len(tasks) + 1) /\ Len(tasks') = Len(tasks) + 1
      /\ tasks'[Len(tasks) + 1] = t
      /\ \A h \in 1..Len(tasks) : tasks'[h] = tasks[h]
  BY <1>1, <1>3 DEF Append
<1>5. RunsWhatWasAsked'
  <2> SUFFICES ASSUME NEW h \in DOMAIN tasks'
               PROVE  tasks'[h].ran = tasks'[h].asked
    BY DEF RunsWhatWasAsked
  <2>1. h \in 1..Len(tasks) \/ h = Len(tasks) + 1
    BY <1>3, <1>4
  <2> QED
    BY <1>2, <1>3, <1>4, <2>1
<1>6. Len(tasks') \in Nat
  BY <1>3, <1>4
<1> QED
  BY <1>1, <1>4, <1>5, <1>6, TasksStep

(* Waiting changes nothing but blockedOn; ATMI runs a task as it was given. *)
LEMMA RunTaskInv ==
  ASSUME IInv, NEW h \in DOMAIN tasks, RunTask(h)
  PROVE  IInv'
<1>1. /\ tasks' = [tasks EXCEPT ![h].status = "done"]
      /\ UNCHANGED <<alive, mKernels, kernels, infos, inst, temps, dags>>
  BY DEF RunTask
<1>2. /\ DOMAIN tasks = 1..Len(tasks) /\ Len(tasks) \in Nat
      /\ \A g \in DOMAIN tasks : tasks[g].ran = tasks[g].asked
  BY DEF IInv, TypeOK, RunsWhatWasAsked
<1>3. /\ DOMAIN tasks' = DOMAIN tasks
      /\ tasks'[h] = [tasks[h] EXCEPT !.status = "done"]
      /\ \A g \in DOMAIN tasks : g # h => tasks'[g] = tasks[g]
  BY <1>1
<1>4. tasks'[h].ran = tasks[h].ran /\ tasks'[h].asked = tasks[h].asked
  BY <1>3
<1>5. RunsWhatWasAsked'
  BY <1>2, <1>3, <1>4 DEF RunsWhatWasAsked
<1>6. Len(tasks') = Len(tasks)
  BY <1>2, <1>3
<1> QED
  BY <1>1, <1>2, <1>3, <1>5, <1>6, TasksStep

LEMMA WaitInv ==
  ASSUME IInv, UNCHANGED <<alive, mKernels, kernels, infos, inst, temps, dags, tasks>>
  PROVE  IInv'
<1>1. DOMAIN tasks = 1..Len(tasks) /\ Len(tasks) \in Nat
  BY DEF IInv, TypeOK
<1>2. RunsWhatWasAsked'
  BY DEF IInv, RunsWhatWasAsked
<1> QED
  BY <1>1, <1>2, TasksStep

LEMMA LaunchTaskInv ==
  ASSUME IInv, NEW s \in Slot, LaunchTask(s)
  PROVE  IInv'
<1>1. s \in Owned /\ LaunchInternalTask(inst[s].type, s)
  BY DEF LaunchTask, Owned
<1> SUFFICES ASSUME NEW k, k = inst[s].type
             PROVE  IInv'
  OBVIOUS
<1> QED
  BY <1>1, LaunchInv

(* The type whose index the pointer holds is that of the node's data.      *)
LEMMA LaunchNodeInv ==
  ASSUME IInv, NEW d \in DOMAIN dags, NEW p \in dags[d], LaunchNode(d, p)
  PROVE  IInv'
<1>1. d \in LiveDags
  BY DEF LaunchNode
<1>2. PICK k \in TypeAt(p) : LaunchInternalTask(k, p[2])
  BY DEF LaunchNode
<1>3. p[2] \in Owned /\ TypeId(inst[p[2]].type) = p[1]
  BY <1>1, NodeData DEF IInv, NodeDataOwnedOnce
<1>4. p[1] + 1 \in DOMAIN Kind /\ Kind[p[1] + 1] = inst[p[2]].type
  BY <1>3, OwnedInstances, TypeIds DEF IInv
<1>5. k = inst[p[2]].type
  <2>1. PICK i \in DOMAIN Kind : i - 1 = p[1] /\ k = Kind[i]
    BY <1>2 DEF TypeAt
  <2>2. i = p[1] + 1
    BY <2>1 DEF Kind
  <2> QED
    BY <1>4, <2>1, <2>2
<1> SUFFICES ASSUME NEW s \in Owned, s = p[2], k = inst[s].type
             PROVE  IInv'
  BY <1>3, <1>5
<1> QED
  BY <1>2, LaunchInv

-----------------------------------------------------------------------------
(* The theorems.                                                           *)

LEMMA NextInv ==
  ASSUME IInv, [Next]_vars
  PROVE  IInv'
<1>1. CASE \E k \in {"gpu", "cpu"} : NewExecutor(k) \/ DestroyExecutor(k)
  BY <1>1, NewExecutorInv, DestroyExecutorInv
<1>2. CASE \E f \in Func : RegisterKernel(f)
  BY <1>2, RegisterKernelInv
<1>3. CASE \E f \in Func : \E a \in ArgLists[f], s \in Slot : MakeTask(f, a, s)
  BY <1>3, MakeTaskInv
<1>4. CASE \E c \in Copy, s \in Slot : MakeCopyTask(c, s)
  BY <1>4, MakeCopyTaskInv
<1>5. CASE \E s \in Slot : DestroyInstance(s)
  BY <1>5, DestroyInstanceInv
<1>6. CASE MakeDAG
  BY <1>6, MakeDAGInv
<1>7. CASE \E d \in DOMAIN dags :
             \/ \E t, s \in Slot : AddNode(d, t, s)
             \/ ClearDAG(d)
             \/ DestroyDAG(d)
             \/ \E p \in dags[d] : LaunchNode(d, p)
  BY <1>7, AddNodeInv, ClearDAGInv, DestroyDAGInv, LaunchNodeInv
<1>8. CASE \E s \in Slot : LaunchTask(s)
  BY <1>8, LaunchTaskInv
<1>9. CASE (\E h \in DOMAIN tasks : WaitOnTask(h)) \/ WaitReturn \/ UNCHANGED vars
  <2>1. UNCHANGED <<alive, mKernels, kernels, infos, inst, temps, dags, tasks>>
    BY <1>9 DEF WaitOnTask, WaitReturn, vars
  <2> QED
    BY <2>1, WaitInv
<1>10. CASE \E h \in DOMAIN tasks : RunTask(h)
  BY <1>10, RunTaskInv
<1> QED
  BY <1>1, <1>2, <1>3, <1>4, <1>5, <1>6, <1>7, <1>8, <1>9, <1>10 DEF Next

(* Whatever the program registers, makes, copies, stores, destroys and     *)
(* launches, the tables, KernelInfos and instances agree as IInv says.     *)
THEOREM Invariance == Spec => []IInv
<1>1. Init => IInv
  BY InitInv
<1>2. IInv /\ [Next]_vars => IInv'
  BY NextInv
<1> QED
  BY <1>1, <1>2, PTL DEF Spec

(* Every task runs the function and the arguments its instance was made of, *)
(* by however many KernelInfos the kernel is shared, and for arguments of  *)
(* any sizes and alignments: each is read back whole from where the packed *)
(* buffer has it.                                                          *)
THEOREM TasksRunWhatWasAsked == Spec => []RunsWhatWasAsked
<1>1. IInv => RunsWhatWasAsked
  BY DEF IInv
<1> QED
  BY <1>1, Invariance, PTL

(* The data of a node belongs to it alone and is of the type its pointer    *)
(* says, so that each destructor frees what it made.                       *)
THEOREM NodesOwnTheirData == Spec => []NodeDataOwnedOnce
<1>1. IInv => NodeDataOwnedOnce
  BY DEF IInv
<1> QED
  BY <1>1, Invariance, PTL

(* A kernel is in one table, under one key, until it is released, once.    *)
THEOREM KernelsAreReleasedOnce == Spec => []KernelsReleasedOnce
<1>1. IInv => KernelsReleasedOnce
  <2> SUFFICES ASSUME IInv, NEW i \in DOMAIN kernels,
                      NEW held, held = {e \in {"gpu", "cpu"} \X (Func \cup Range(Wrapper)) :
                                          e[2] \in DOMAIN mKernels[e[1]]
                                          /\ mKernels[e[1]][e[2]] = i}
               PROVE  /\ kernels[i].released <= 1
                      /\ Cardinality(held) = 1 - kernels[i].released
    BY DEF KernelsReleasedOnce
  <2>1. KernelInv
    BY DEF IInv
  <2>2. ASSUME NEW e \in held
        PROVE  /\ e = <<e[1], e[2]>> /\ e[1] \in {"gpu", "cpu"}
               /\ Holds(e[1], e[2], i)
               /\ kernels[i].code = e[2] /\ kernels[i].released = 0
    <3>1. /\ e \in {"gpu", "cpu"} \X (Func \cup Range(Wrapper))
          /\ e[2] \in DOMAIN mKernels[e[1]] /\ mKernels[e[1]][e[2]] = i
      OBVIOUS
    <3>2. e = <<e[1], e[2]>> /\ e[1] \in {"gpu", "cpu"}
      BY <3>1
    <3>3. kernels[mKernels[e[1]][e[2]]].code = e[2] /\ kernels[mKernels[e[1]][e[2]]].released = 0
      BY <2>1, <3>1, <3>2 DEF KernelInv
    <3> QED
      BY <3>1, <3>2, <3>3 DEF Holds
  <2>3. CASE kernels[i].released = 1
    <3>1. held = {}
      BY <2>2, <2>3
    <3> QED
      BY <2>3, <3>1, FS_EmptySet
  <2>4. CASE kernels[i].released # 1
    <3>1. PICK k \in {"gpu", "cpu"} : Holds(k, kernels[i].code, i)
      BY <2>1, <2>4 DEF KernelInv
    <3> SUFFICES ASSUME NEW x, x = kernels[i].code
                 PROVE  /\ kernels[i].released <= 1
                        /\ Cardinality(held) = 1 - kernels[i].released
      OBVIOUS
    <3>2. x \in Func \cup Range(Wrapper) /\ kernels[i].released = 0
      <4>1. x \in DOMAIN mKernels[k] /\ mKernels[k][x] = i
        BY <3>1 DEF Holds
      <4>2. x \in Func \cup Range(Wrapper) /\ kernels[i].released = 0
        BY <2>1, <4>1 DEF KernelInv
      <4> QED
        BY <4>2
    <3>3. <<k, x>> \in held
      BY <3>1, <3>2 DEF Holds
    <3>4. ASSUME NEW e \in held
          PROVE  e = <<k, x>>
      <4>1. e[2] = x
        BY <2>2
      <4>2. e[1] = k
        BY <2>1, <2>2, <3>1 DEF KernelInv, Holds
      <4> QED
        BY <2>2, <4>1, <4>2
    <3>5. held = {<<k, x>>}
      BY <3>3, <3>4
    <3>6. Cardinality(held) = 1
      BY <3>5, FS_Singleton
    <3> QED
      BY <3>2, <3>6
  <2> QED
    BY <2>3, <2>4
<1> QED
  BY <1>1, Invariance, PTL
=============================================================================
