------------------------- MODULE DagrExecutorProofs -------------------------
(***************************************************************************)
(* Proofs about the executors that write packets to the queues themselves, *)
(* for every number and size of queues, every program and every            *)
(* interleaving of the calling thread with the device, as long as the      *)
(* client lets no more packets pile up than a queue has slots              *)
(* (MaxUnread <= QueueSize): the run dagr_queue_overwrite shows what       *)
(* happens when it does not.                                               *)
(***************************************************************************)
EXTENDS DagrExecutor, FiniteSetTheorems, ListLemmas, TLAPS

-----------------------------------------------------------------------------
(* Two indexes less than a queue apart are not in the same slot.            *)
LEMMA SlotsDiffer ==
  ASSUME NEW i \in Nat, NEW j \in Nat, i < j, j < i + QueueSize
  PROVE  Slot(i) # Slot(j)
<1> DEFINE d == QueueSize
           a == i \div d
           b == j \div d
<1>1. d \in Nat \ {0}
  BY SizeAssumption
<1> HIDE DEF d
<1>2. /\ a \in Nat /\ b \in Nat
      /\ i = d * a + (i % d) /\ j = d * b + (j % d)
      /\ i % d \in Nat /\ j % d \in Nat
  BY <1>1
<1> HIDE DEF a, b
<1>3. SUFFICES ASSUME i % d = j % d
               PROVE  FALSE
  BY DEF Slot, d
<1>4. d * a < d * b /\ d * b < d * a + d
  <2> DEFINE u == d * a
             v == d * b
             r == i % d
  <2>1. u \in Int /\ v \in Int /\ r \in Nat /\ i = u + r /\ j = v + r
    BY <1>1, <1>2, <1>3
  <2> HIDE DEF u, v, r
  <2>2. u < v /\ v < u + d
    BY <1>1, <2>1 DEF d
  <2> QED
    BY <2>2 DEF u, v
<1>5. b <= a => d * b <= d * a
  BY <1>1, <1>2
<1>6. a + 1 <= b => d * a + d <= d * b
  BY <1>1, <1>2
<1> QED
  BY <1>1, <1>2, <1>4, <1>5, <1>6

LEMMA SlotIsOne ==
  ASSUME NEW i \in Nat
  PROVE  Slot(i) \in 0..(QueueSize - 1)
BY SizeAssumption DEF Slot

LEMMA QueueFacts ==
  Queue \subseteq Nat /\ 0 \in Queue /\ NumQs \in Nat \ {0} /\ NullSignal = 0
BY QueuesAssumption DEF Queue, NullSignal

-----------------------------------------------------------------------------
(* Where the packets are.                                                   *)
InTodo(p) == \E i \in DOMAIN todo : todo[i].do = "put" /\ todo[i].packet = p
InRing(p) == p # NoPacket /\ \E q \in Queue, x \in 0..(QueueSize - 1) : ring[q][x] = p

PacketPlaces ==
  \A p : p \in PacketsOf <=> InTodo(p) \/ InRing(p) \/ \E q \in Queue : p \in running[q]

LEMMA Places == TypeOK => PacketPlaces
<1> SUFFICES ASSUME TypeOK
             PROVE  PacketPlaces
  OBVIOUS
<1>1. \A q \in Queue : DOMAIN ring[q] = 0..(QueueSize - 1)
  BY DEF TypeOK
<1>2. ASSUME NEW p
      PROVE  (\E q \in Queue : p \in Pending(q)) <=> InRing(p)
  BY <1>1 DEF Pending, InRing, Range
<1>3. ASSUME NEW p
      PROVE  (\E s \in Asked : s.packet = p) <=> InTodo(p)
  BY DEF Asked, InTodo, Range
<1> QED
  BY <1>2, <1>3 DEF PacketsOf, PacketPlaces

(* The packets of the model are well formed.                                *)
LEMMA PacketFields ==
  ASSUME NEW p \in Packet
  PROVE  /\ p # NoPacket
         /\ p.sig \in 0..Len(signal)
         /\ \/ /\ p.type = "kernel" /\ p.task \in 1..Len(task)
               /\ p.deps = {} /\ p.barrier \in BOOLEAN
            \/ /\ p.type = "barrier" /\ p.deps \subseteq 1..Len(signal)
               /\ p.barrier = TRUE
<1>1. CASE p \in [type : {"kernel"}, task : 1..Len(task), sig : 0..Len(signal),
                  deps : {{}}, barrier : BOOLEAN]
  <2>1. p.type = "kernel" /\ p.type # NoPacket.type
    BY <1>1 DEF NoPacket
  <2> QED
    BY <1>1, <2>1
<1>2. CASE p \in [type : {"barrier"}, sig : 0..Len(signal),
                  deps : SUBSET (1..Len(signal)), barrier : {TRUE}]
  <2>1. p.type = "barrier" /\ p.type # NoPacket.type
    BY <1>2 DEF NoPacket
  <2> QED
    BY <1>2, <2>1
<1> QED
  BY <1>1, <1>2 DEF Packet

LEMMA StepFields ==
  ASSUME NEW s \in Step
  PROVE  \/ s.do = "put" /\ s.q \in Queue /\ s.packet \in Packet
         \/ s.do = "ring" /\ s.q \in Queue
         \/ /\ s.do = "pick" /\ s.task \in DOMAIN task
            /\ s.use \in {"launch", "forget", "batch"}
            /\ s.batch \in 0..Len(batch)
         \/ s.do = "batch" /\ s.dep \in 0..Len(signal)
BY DEF Step

TodoTyped ==
  /\ Len(todo) \in Nat /\ DOMAIN todo = 1..Len(todo)
  /\ \A i \in DOMAIN todo : todo[i] \in Step

LEMMA TodoTypes == TodoInv => TodoTyped
<1> SUFFICES ASSUME TodoInv
             PROVE  TodoTyped
  OBVIOUS
<1>1. todo \in Seq(Step)
  BY DEF TodoInv
<1> QED
  BY <1>1 DEF TodoTyped

PacketsTyped == \A p \in PacketsOf : p \in Packet

LEMMA PacketTypes == TypeOK /\ TodoInv => PacketsTyped
<1> SUFFICES ASSUME TypeOK, TodoInv, NEW p \in PacketsOf
             PROVE  p \in Packet
  BY DEF PacketsTyped
<1>1. InTodo(p) \/ InRing(p) \/ \E q \in Queue : p \in running[q]
  BY Places DEF PacketPlaces
<1>2. CASE InTodo(p)
  <2>1. PICK i \in DOMAIN todo : todo[i].do = "put" /\ todo[i].packet = p
    BY <1>2 DEF InTodo
  <2>2. todo[i] \in Step
    BY TodoTypes DEF TodoTyped
  <2> QED
    BY <2>1, <2>2, StepFields
<1>3. CASE InRing(p)
  BY <1>3, ZenonT(60) DEF InRing, TypeOK
<1>4. CASE \E q \in Queue : p \in running[q]
  BY <1>4 DEF TypeOK
<1> QED
  BY <1>1, <1>2, <1>3, <1>4

(* What TypeOK says of a task, a batch and a signal.                        *)
ListsTyped ==
  /\ Len(task) \in Nat /\ DOMAIN task = 1..Len(task)
  /\ Len(batch) \in Nat /\ DOMAIN batch = 1..Len(batch)
  /\ Len(signal) \in Nat /\ DOMAIN signal = 1..Len(signal)
  /\ \A s \in DOMAIN signal : signal[s] \in Nat
  /\ \A t \in DOMAIN task : task[t].batch \in 0..Len(batch) /\ task[t].sig \in 0..Len(signal)
  /\ \A b \in DOMAIN batch :
       /\ batch[b].final \in DOMAIN signal
       /\ batch[b].dep \in 0..Len(signal)
       /\ batch[b].open \in BOOLEAN
       /\ batch[b].perQ \in Seq(DOMAIN signal)

LEMMA ListTypes == TypeOK => ListsTyped
<1> SUFFICES ASSUME TypeOK
             PROVE  ListsTyped
  OBVIOUS
<1> DEFINE T == [kernel : Kernel, batch : 0..Len(batch), sig : 0..Len(signal)]
           B == [perQ : Seq(DOMAIN signal), final : DOMAIN signal,
                 dep : 0..Len(signal), open : BOOLEAN]
<1>1. task \in Seq(T) /\ batch \in Seq(B) /\ signal \in Seq(Nat)
  BY DEF TypeOK
<1> HIDE DEF T, B
<1>2. /\ Len(task) \in Nat /\ DOMAIN task = 1..Len(task)
      /\ Len(batch) \in Nat /\ DOMAIN batch = 1..Len(batch)
      /\ Len(signal) \in Nat /\ DOMAIN signal = 1..Len(signal)
      /\ \A s \in DOMAIN signal : signal[s] \in Nat
      /\ \A t \in DOMAIN task : task[t] \in T
      /\ \A b \in DOMAIN batch : batch[b] \in B
  BY <1>1
<1> QED
  BY <1>2 DEF ListsTyped, T, B

(* A packet stays well formed when tasks and signals are added.             *)
LEMMA PacketsGrow ==
  ASSUME Len(task) \in Nat, Len(signal) \in Nat,
         Len(task)' \in Nat, Len(signal)' \in Nat,
         Len(task) <= Len(task)', Len(signal) <= Len(signal)'
  PROVE  Packet \subseteq Packet'
<1> SUFFICES ASSUME NEW p \in Packet
             PROVE  p \in Packet'
  OBVIOUS
<1>1. /\ 1..Len(task) \subseteq 1..Len(task)'
      /\ 0..Len(signal) \subseteq 0..Len(signal)'
      /\ 1..Len(signal) \subseteq 1..Len(signal)'
  OBVIOUS
<1>2. CASE p \in [type : {"kernel"}, task : 1..Len(task), sig : 0..Len(signal),
                  deps : {{}}, barrier : BOOLEAN]
  BY <1>1, <1>2 DEF Packet
<1>3. CASE p \in [type : {"barrier"}, sig : 0..Len(signal),
                  deps : SUBSET (1..Len(signal)), barrier : {TRUE}]
  BY <1>1, <1>3 DEF Packet
<1> QED
  BY <1>2, <1>3 DEF Packet

LEMMA StepsGrow ==
  ASSUME Len(task) \in Nat, Len(signal) \in Nat, Len(batch) \in Nat,
         Len(task)' \in Nat, Len(signal)' \in Nat, Len(batch)' \in Nat,
         DOMAIN task \subseteq DOMAIN task',
         Len(task) <= Len(task)', Len(signal) <= Len(signal)', Len(batch) <= Len(batch)'
  PROVE  Step \subseteq Step'
<1>1. Packet \subseteq Packet'
  BY PacketsGrow
<1>2. /\ 0..Len(signal) \subseteq 0..Len(signal)'
      /\ 0..Len(batch) \subseteq 0..Len(batch)'
  OBVIOUS
<1> SUFFICES ASSUME NEW s \in Step
             PROVE  s \in Step'
  OBVIOUS
<1>3. CASE s \in [do : {"put"}, q : Queue, packet : Packet]
  BY <1>1, <1>3 DEF Step, Queue
<1>4. CASE s \in [do : {"ring"}, q : Queue]
  BY <1>4 DEF Step, Queue
<1>5. CASE s \in [do : {"pick"}, task : DOMAIN task, use : {"launch", "forget", "batch"},
                  batch : 0..Len(batch)]
  BY <1>2, <1>5 DEF Step
<1>6. CASE s \in [do : {"batch"}, dep : 0..Len(signal)]
  BY <1>2, <1>6 DEF Step
<1> QED
  BY <1>3, <1>4, <1>5, <1>6 DEF Step


-----------------------------------------------------------------------------
(* Counting.  The value of a signal is the number of packets P that will    *)
(* lower it and of open batches B whose final signal it is.                 *)
OpenWith(B, s) == {b \in DOMAIN B : B[b].open /\ B[b].final = s}

Exact(sig, P, B) ==
  \A s \in DOMAIN sig :
    /\ IsFiniteSet({p \in P : p.sig = s})
    /\ sig[s] = Cardinality({p \in P : p.sig = s}) + Cardinality(OpenWith(B, s))

LEMMA SignalInvIsExact == SignalInv <=> Exact(signal, PacketsOf, batch)
BY DEF SignalInv, SignalsExact, Owing, Exact, OpenWith

LEMMA OpenFinite ==
  ASSUME NEW B, IsFiniteSet(DOMAIN B), NEW s
  PROVE  /\ IsFiniteSet(OpenWith(B, s))
         /\ Cardinality(OpenWith(B, s)) \in Nat
<1>2. OpenWith(B, s) \subseteq DOMAIN B
  BY DEF OpenWith
<1>3. IsFiniteSet(OpenWith(B, s))
  BY <1>2, FS_Subset
<1> QED
  BY <1>3, FS_CardinalityType

(* A packet is added and its signal raised, ...                             *)
LEMMA ExactAdd ==
  ASSUME NEW sig \in Seq(Nat), NEW P, NEW B, NEW n,
         n \notin P, n.sig \in DOMAIN sig, Exact(sig, P, B),
         IsFiniteSet(DOMAIN B)
  PROVE  Exact([sig EXCEPT ![n.sig] = @ + 1], P \cup {n}, B)
<1> DEFINE new == [sig EXCEPT ![n.sig] = @ + 1]
<1> SUFFICES ASSUME NEW s \in DOMAIN new
             PROVE  /\ IsFiniteSet({p \in P \cup {n} : p.sig = s})
                    /\ new[s] = Cardinality({p \in P \cup {n} : p.sig = s})
                                  + Cardinality(OpenWith(B, s))
  BY DEF Exact
<1> DEFINE O == {p \in P : p.sig = s}
           N == {p \in P \cup {n} : p.sig = s}
<1>1. s \in DOMAIN sig /\ sig[s] \in Nat
  OBVIOUS
<1>2. IsFiniteSet(O) /\ sig[s] = Cardinality(O) + Cardinality(OpenWith(B, s))
  BY <1>1 DEF Exact
<1>3. Cardinality(O) \in Nat /\ Cardinality(OpenWith(B, s)) \in Nat
  BY <1>2, FS_CardinalityType, OpenFinite
<1>4. CASE s = n.sig
  <2>1. N = O \cup {n} /\ n \notin O
    BY <1>4
  <2>2. new[s] = sig[s] + 1
    BY <1>1, <1>4
  <2> HIDE DEF N, O, new
  <2>3. IsFiniteSet(N) /\ Cardinality(N) = Cardinality(O) + 1
    BY <1>2, <2>1, FS_AddElement
  <2>4. new[s] = Cardinality(N) + Cardinality(OpenWith(B, s))
    BY <1>2, <1>3, <2>2, <2>3
  <2> QED
    BY <2>3, <2>4 DEF N
<1>5. CASE s # n.sig
  <2>1. N = O /\ new[s] = sig[s]
    BY <1>1, <1>5
  <2> QED
    BY <1>2, <2>1
<1> QED
  BY <1>4, <1>5

(* ... or it has a signal of its own, which starts at one, ...              *)
LEMMA ExactFresh ==
  ASSUME NEW sig \in Seq(Nat), NEW P, NEW B, NEW n,
         n.sig = Len(sig) + 1, Exact(sig, P, B),
         \A p \in P : p.sig \in 0..Len(sig),
         \A b \in DOMAIN B : B[b].final \in DOMAIN sig
  PROVE  Exact(Append(sig, 1), P \cup {n}, B)
<1> DEFINE new == Append(sig, 1)
<1> SUFFICES ASSUME NEW s \in DOMAIN new
             PROVE  /\ IsFiniteSet({p \in P \cup {n} : p.sig = s})
                    /\ new[s] = Cardinality({p \in P \cup {n} : p.sig = s})
                                  + Cardinality(OpenWith(B, s))
  BY DEF Exact
<1> DEFINE N == {p \in P \cup {n} : p.sig = s}
<1>1. s \in 1..(Len(sig) + 1) /\ Len(sig) \in Nat /\ DOMAIN sig = 1..Len(sig)
  OBVIOUS
<1>2. CASE s = Len(sig) + 1
  <2>1. N = {n}
    BY <1>1, <1>2
  <2>2. OpenWith(B, s) = {}
    BY <1>1, <1>2 DEF OpenWith
  <2>3. new[s] = 1
    BY <1>2
  <2>4. /\ IsFiniteSet({n}) /\ Cardinality({n}) = 1
        /\ Cardinality({}) = 0
    BY FS_Singleton, FS_EmptySet
  <2> HIDE DEF N, new
  <2>5. IsFiniteSet(N) /\ new[s] = Cardinality(N) + Cardinality(OpenWith(B, s))
    BY <2>1, <2>2, <2>3, <2>4
  <2> QED
    BY <2>5 DEF N
<1>3. CASE s # Len(sig) + 1
  <2>1. s \in DOMAIN sig
    BY <1>1, <1>3
  <2>2. N = {p \in P : p.sig = s} /\ new[s] = sig[s]
    BY <1>3, <2>1
  <2> QED
    BY <2>1, <2>2 DEF Exact
<1> QED
  BY <1>2, <1>3

(* ... or none.                                                             *)
LEMMA ExactNull ==
  ASSUME NEW sig \in Seq(Nat), NEW P, NEW Q, NEW B, Exact(sig, P, B),
         \A p : p.sig # 0 => (p \in P <=> p \in Q)
  PROVE  Exact(sig, Q, B)
<1> SUFFICES ASSUME NEW s \in DOMAIN sig
             PROVE  {p \in P : p.sig = s} = {p \in Q : p.sig = s}
  BY DEF Exact
<1>1. s # 0
  OBVIOUS
<1> QED
  BY <1>1

(* A batch is closed and its final signal owed by a packet instead.         *)
LEMMA ExactClose ==
  ASSUME NEW sig \in Seq(Nat), NEW P, NEW B, NEW C, NEW n,
         n \notin P, Exact(sig, P, B), IsFiniteSet(DOMAIN B), DOMAIN C = DOMAIN B,
         \E b \in DOMAIN B :
           /\ B[b].open /\ n.sig = B[b].final /\ ~C[b].open
           /\ \A c \in DOMAIN B :
                C[c].final = B[c].final /\ (c # b => C[c].open = B[c].open)
  PROVE  Exact(sig, P \cup {n}, C)
<1>0. PICK b \in DOMAIN B :
         /\ B[b].open /\ n.sig = B[b].final /\ ~C[b].open
         /\ \A c \in DOMAIN B :
              C[c].final = B[c].final /\ (c # b => C[c].open = B[c].open)
  OBVIOUS
<1> SUFFICES ASSUME NEW s \in DOMAIN sig
             PROVE  /\ IsFiniteSet({p \in P \cup {n} : p.sig = s})
                    /\ sig[s] = Cardinality({p \in P \cup {n} : p.sig = s})
                                  + Cardinality(OpenWith(C, s))
  BY DEF Exact
<1> DEFINE O == {p \in P : p.sig = s}
           N == {p \in P \cup {n} : p.sig = s}
           X == OpenWith(B, s)
           Y == OpenWith(C, s)
<1>1. IsFiniteSet(O) /\ sig[s] = Cardinality(O) + Cardinality(X) /\ sig[s] \in Nat
  <2>1. IsFiniteSet(O) /\ sig[s] = Cardinality(O) + Cardinality(X)
    BY DEF Exact
  <2>2. sig[s] \in Nat
    OBVIOUS
  <2> QED
    BY <2>1, <2>2
<1>2. Cardinality(O) \in Nat /\ Cardinality(X) \in Nat /\ IsFiniteSet(X)
  BY <1>1, FS_CardinalityType, OpenFinite
<1>3. CASE s = n.sig
  <2>1. N = O \cup {n} /\ n \notin O
    BY <1>3
  <2>2. Y = X \ {b} /\ b \in X
    BY <1>0, <1>3 DEF OpenWith
  <2> HIDE DEF N, O, X, Y
  <2>3. IsFiniteSet(N) /\ Cardinality(N) = Cardinality(O) + 1
    BY <1>1, <2>1, FS_AddElement
  <2>4. Cardinality(Y) = Cardinality(X) - 1
    BY <1>2, <2>2, FS_RemoveElement
  <2>5. sig[s] = Cardinality(N) + Cardinality(Y)
    BY <1>1, <1>2, <2>3, <2>4
  <2> QED
    BY <2>3, <2>5 DEF N, Y
<1>4. CASE s # n.sig
  <2>1. N = O
    BY <1>4
  <2>2. Y = X
    BY <1>0, <1>4 DEF OpenWith
  <2> QED
    BY <1>1, <2>1, <2>2
<1> QED
  BY <1>3, <1>4

(* A packet is gone and its signal lowered.                                 *)
LEMMA ExactDrop ==
  ASSUME NEW sig \in Seq(Nat), NEW P, NEW Q, NEW B, NEW n,
         n \in P, n.sig \in DOMAIN sig, Exact(sig, P, B),
         \A p : p.sig # 0 => (p \in Q <=> p \in P /\ p # n),
         IsFiniteSet(DOMAIN B)
  PROVE  /\ sig[n.sig] # 0
         /\ [sig EXCEPT ![n.sig] = @ - 1] \in Seq(Nat)
         /\ Exact([sig EXCEPT ![n.sig] = @ - 1], Q, B)
<1> DEFINE new == [sig EXCEPT ![n.sig] = @ - 1]
           O(s) == {p \in P : p.sig = s}
           N(s) == {p \in Q : p.sig = s}
           X(s) == OpenWith(B, s)
<1>1. DOMAIN sig = 1..Len(sig) /\ \A s \in DOMAIN sig : s # 0 /\ sig[s] \in Nat
  OBVIOUS
<1>2. ASSUME NEW s \in DOMAIN sig
      PROVE  /\ IsFiniteSet(O(s)) /\ sig[s] = Cardinality(O(s)) + Cardinality(X(s))
             /\ Cardinality(O(s)) \in Nat /\ Cardinality(X(s)) \in Nat
  <2>1. IsFiniteSet(O(s)) /\ sig[s] = Cardinality(O(s)) + Cardinality(X(s))
    BY DEF Exact
  <2> QED
    BY <2>1, FS_CardinalityType, OpenFinite
<1>3. n \in O(n.sig) /\ N(n.sig) = O(n.sig) \ {n}
  BY <1>1
<1>4. \A s \in DOMAIN sig : s # n.sig => N(s) = O(s)
  <2> SUFFICES ASSUME NEW s \in DOMAIN sig, s # n.sig
               PROVE  N(s) = O(s)
    OBVIOUS
  <2>1. s # 0
    BY <1>1
  <2> QED
    BY <2>1
<1> HIDE DEF O, N, X
<1>5. /\ IsFiniteSet(N(n.sig))
      /\ Cardinality(N(n.sig)) = Cardinality(O(n.sig)) - 1
      /\ Cardinality(N(n.sig)) \in Nat
  <2>1. IsFiniteSet(N(n.sig)) /\ Cardinality(N(n.sig)) = Cardinality(O(n.sig)) - 1
    <3>1. IsFiniteSet(O(n.sig)) /\ n \in O(n.sig)
      BY <1>2, <1>3
    <3>2. /\ IsFiniteSet(O(n.sig) \ {n})
          /\ Cardinality(O(n.sig) \ {n}) = Cardinality(O(n.sig)) - 1
      BY <3>1, FS_RemoveElement
    <3> QED
      BY <1>3, <3>2
  <2> QED
    BY <2>1, FS_CardinalityType
<1>6. sig[n.sig] # 0 /\ sig[n.sig] - 1 \in Nat
  BY <1>2, <1>5
<1>7. /\ new \in Seq(Nat)
      /\ DOMAIN new = DOMAIN sig
      /\ new[n.sig] = sig[n.sig] - 1
      /\ \A s \in DOMAIN sig : s # n.sig => new[s] = sig[s]
  BY <1>6
<1> HIDE DEF new
<1>8. ASSUME NEW s \in DOMAIN new
      PROVE  IsFiniteSet(N(s)) /\ new[s] = Cardinality(N(s)) + Cardinality(X(s))
  <2>1. CASE s = n.sig
    BY <1>2, <1>5, <1>7, <2>1
  <2>2. CASE s # n.sig
    BY <1>2, <1>4, <1>7, <2>2
  <2> QED
    BY <2>1, <2>2
<1>9. Exact(new, Q, B)
  BY <1>8 DEF Exact, N, X
<1> QED
  BY <1>6, <1>7, <1>9 DEF new

-----------------------------------------------------------------------------
(* The initial state.                                                       *)
LEMMA InitIInv == Init => IInv
<1> SUFFICES ASSUME Init
             PROVE  IInv
  OBVIOUS
<1> USE DEF Init
<1>1. TypeOK
  <2>1. NumQs \in 1..64 /\ QueueSize \in Nat \ {0}
    BY QueuesAssumption, SizeAssumption
  <2>2. mCurrQid \in Queue
    BY QueueFacts
  <2>3. /\ signal \in Seq(Nat) /\ DOMAIN task = {}
        /\ task \in Seq([kernel : Kernel, batch : 0..Len(batch), sig : 0..Len(signal)])
        /\ batch \in Seq([perQ : Seq(DOMAIN signal), final : DOMAIN signal,
                          dep : 0..Len(signal), open : BOOLEAN])
    OBVIOUS
  <2> QED
    BY <2>2, <2>3 DEF TypeOK
<1>2. \A q \in Queue : Index(q) = {} /\ running[q] = {} /\ Pending(q) = {}
  BY DEF Index, Pending, Range
<1>3. RingInv
  BY <1>2, SizeAssumption DEF RingInv
<1>4. DOMAIN todo = {} /\ DOMAIN batch = {} /\ DOMAIN task = {} /\ DOMAIN signal = {}
  OBVIOUS
<1>5. PacketsOf = {}
  BY <1>2, <1>4 DEF PacketsOf, Asked, Range
<1>6. TodoInv
  BY <1>4 DEF TodoInv
<1>7. OnceInv
  BY <1>2, <1>4 DEF OnceInv
<1>8. LinkInv
  BY <1>2, <1>5 DEF LinkInv
<1>9. OwnerInv /\ SignalInv /\ NothingLost /\ ClosedInv
  BY <1>4 DEF OwnerInv, SignalInv, SignalsExact, NothingLost, ClosedInv
<1>10. DepInv
  BY <1>2, <1>4 DEF DepInv, DependentBatchWaits, Running
<1>11. OrderInv
  <2>1. Len(task) = 0 /\ hsaWrite[0] = 0 /\ readIndex[0] = 0
    BY QueueFacts
  <2>2. 1..(readIndex[0] - 1) = {} /\ 1..readIndex[0] = {}
    BY <2>1
  <2> QED
    BY <1>2, <1>4, <2>1, <2>2, QueueFacts DEF OrderInv
<1> QED
  BY <1>1, <1>3, <1>6, <1>7, <1>8, <1>9, <1>10, <1>11 DEF IInv

-----------------------------------------------------------------------------
(* The steps of the calling thread.                                         *)

(* What PutNext does: the packet pk asked for first goes to index hsaWrite  *)
(* of the queue q, whose slot is free.                                      *)
PutEffect(q, pk) ==
  /\ q \in Queue /\ pk \in Packet
  /\ 1 \in DOMAIN todo /\ todo[1].do = "put" /\ todo[1].q = q /\ todo[1].packet = pk
  /\ todo' \in Seq(Step)
  /\ DOMAIN todo = 1..Len(todo) /\ DOMAIN todo' = 1..Len(todo') /\ Len(todo) \in Nat
  /\ Len(todo') = Len(todo) - 1
  /\ \A i \in DOMAIN todo' : i + 1 \in DOMAIN todo /\ i + 1 # 1 /\ todo'[i] = todo[i + 1]
  /\ \A i \in DOMAIN todo : i = 1 \/ (i - 1 \in DOMAIN todo' /\ todo'[i - 1] = todo[i])
  /\ hsaWrite[q] \in Nat /\ readIndex[q] \in Nat
  /\ readIndex[q] <= hsaWrite[q] /\ hsaWrite[q] < readIndex[q] + QueueSize
  /\ Slot(hsaWrite[q]) \in 0..(QueueSize - 1)
  /\ ring[q][Slot(hsaWrite[q])] = NoPacket
  /\ hsaWrite' = [hsaWrite EXCEPT ![q] = @ + 1]
  /\ ring' = [ring EXCEPT ![q][Slot(hsaWrite[q])] = pk]
  /\ mWriteIndex' = [mWriteIndex EXCEPT ![q] = hsaWrite[q]]
  /\ \A i \in DOMAIN todo : todo[i].do # "pick"
  /\ UNCHANGED <<kind, readIndex, doorbell, signal, running, mCurrQid, task, done, batch>>

LEMMA PutHappens ==
  ASSUME IInv, PutNext
  PROVE  \E q \in Queue : \E pk \in Packet : PutEffect(q, pk)
<1> DEFINE q == Head(todo).q
           pk == Head(todo).packet
           S == Step
<1>1. TypeOK /\ TodoInv /\ RingInv /\ todo \in Seq(S)
  BY DEF IInv, TodoInv
<1>2. todo # <<>> /\ Head(todo).do = "put" /\ Put(q, pk) /\ todo' = Tail(todo)
  BY DEF PutNext
<1> HIDE DEF S
<1>3. /\ 1 \in DOMAIN todo /\ todo[1] = Head(todo)
      /\ todo' \in Seq(S)
      /\ DOMAIN todo = 1..Len(todo) /\ DOMAIN todo' = 1..Len(todo') /\ Len(todo) \in Nat
      /\ Len(todo') = Len(todo) - 1
      /\ \A i \in DOMAIN todo' : i + 1 \in DOMAIN todo /\ i + 1 # 1 /\ todo'[i] = todo[i + 1]
      /\ \A i \in DOMAIN todo : i = 1 \/ (i - 1 \in DOMAIN todo' /\ todo'[i - 1] = todo[i])
  BY <1>1, <1>2
<1>4. todo[1] \in Step
  BY <1>1, <1>3 DEF S
<1>5. q \in Queue /\ pk \in Packet
  BY <1>2, <1>3, <1>4, StepFields
<1> HIDE DEF q, pk
<1>6. /\ hsaWrite[q] \in Nat /\ readIndex[q] \in Nat
      /\ readIndex[q] <= hsaWrite[q]
  BY <1>1, <1>5 DEF TypeOK, RingInv
<1>7. Unread(q) < QueueSize
  BY <1>1, <1>2, <1>3 DEF TodoInv, q
<1>8. hsaWrite[q] < readIndex[q] + QueueSize
  BY <1>6, <1>7, SizeAssumption DEF Unread
<1>9. Slot(hsaWrite[q]) \in 0..(QueueSize - 1)
  BY <1>6, SlotIsOne
<1>10. ring[q][Slot(hsaWrite[q])] = NoPacket
  <2> SUFFICES ASSUME ring[q][Slot(hsaWrite[q])] # NoPacket
               PROVE  FALSE
    OBVIOUS
  <2>1. PICK i \in Index(q) : Slot(hsaWrite[q]) = Slot(i)
    BY <1>1, <1>5, <1>9 DEF RingInv
  <2>2. i \in Nat /\ i < hsaWrite[q] /\ hsaWrite[q] < i + QueueSize
    BY <1>6, <1>8, SizeAssumption DEF Index
  <2> QED
    BY <1>6, <2>1, <2>2, SlotsDiffer
<1>11. \A i \in DOMAIN todo : todo[i].do # "pick"
  <2> SUFFICES ASSUME NEW i \in DOMAIN todo, todo[i].do = "pick"
               PROVE  FALSE
    OBVIOUS
  <2>1. Len(todo) = 1
    BY <1>1 DEF TodoInv
  <2>2. i = 1
    BY <1>3, <2>1
  <2> QED
    BY <1>2, <1>3, <2>2
<1>12. UNCHANGED <<kind, readIndex, doorbell, signal, running, mCurrQid, task, done, batch>>
  BY DEF PutNext
<1>13. todo[1].do = "put" /\ todo[1].q = q /\ todo[1].packet = pk
  BY <1>2, <1>3 DEF q, pk
<1>14. /\ hsaWrite' = [hsaWrite EXCEPT ![q] = @ + 1]
       /\ ring' = [ring EXCEPT ![q][Slot(hsaWrite[q])] = pk]
       /\ mWriteIndex' = [mWriteIndex EXCEPT ![q] = hsaWrite[q]]
  BY <1>2 DEF Put, HeadSlot
<1> QED
  BY <1>3, <1>5, <1>6, <1>8, <1>9, <1>10, <1>11, <1>12, <1>13, <1>14 DEF PutEffect, S

(* The packet moves from the call to the ring: no packet appears or goes.   *)
LEMMA PutPackets ==
  ASSUME IInv, NEW q \in Queue, NEW pk \in Packet, PutEffect(q, pk), TypeOK'
  PROVE  PacketsOf' = PacketsOf
<1> DEFINE x == Slot(hsaWrite[q])
<1>1. TypeOK
  BY DEF IInv
<1>2. PacketPlaces /\ PacketPlaces'
  <2>1. TypeOK' => PacketPlaces'
    BY Places, PTL
  <2> QED
    BY <1>1, <2>1, Places
<1>3. /\ ring \in [Queue -> [0..(QueueSize - 1) -> Packet \cup {NoPacket}]]
      /\ x \in 0..(QueueSize - 1)
      /\ ring' = [ring EXCEPT ![q][x] = pk]
      /\ ring[q][x] = NoPacket
      /\ running' = running
  BY <1>1 DEF TypeOK, PutEffect
<1> HIDE DEF x
<1>4. pk # NoPacket
  BY PacketFields
<1>5. ASSUME NEW p
      PROVE  InRing(p)' <=> InRing(p) \/ p = pk
  BY <1>3, <1>4 DEF InRing
<1>6. ASSUME NEW p
      PROVE  InTodo(p) <=> InTodo(p)' \/ p = pk
  <2>1. InTodo(p) => InTodo(p)' \/ p = pk
    BY DEF InTodo, PutEffect
  <2>2. InTodo(p)' => InTodo(p)
    BY DEF InTodo, PutEffect
  <2>3. InTodo(pk)
    BY DEF InTodo, PutEffect
  <2> QED
    BY <2>1, <2>2, <2>3
<1>7. ASSUME NEW p
      PROVE  p \in PacketsOf' <=> p \in PacketsOf
  BY <1>2, <1>3, <1>5, <1>6 DEF PacketPlaces
<1> QED
  BY <1>7

LEMMA PutPreserves ==
  ASSUME IInv, PutNext
  PROVE  IInv'
<1>1. PICK q \in Queue, pk \in Packet : PutEffect(q, pk)
  BY PutHappens
<1> DEFINE k == hsaWrite[q]
           x == Slot(k)
<1>2. TypeOK /\ RingInv /\ TodoInv /\ OnceInv /\ TodoTyped
  BY TodoTypes DEF IInv
<1>3. TypeOK'
  <2>1. Packet' = Packet /\ Queue' = Queue
    BY <1>1 DEF PutEffect, Packet, Queue
  <2>2. ring' \in [Queue -> [0..(QueueSize - 1) -> Packet \cup {NoPacket}]]
    BY <1>1, <1>2 DEF PutEffect, TypeOK
  <2>3. hsaWrite' \in [Queue -> Nat] /\ mWriteIndex' \in [Queue -> Nat]
    <3>1. /\ hsaWrite \in [Queue -> Nat] /\ mWriteIndex \in [Queue -> Nat]
          /\ hsaWrite[q] \in Nat
      BY <1>2 DEF TypeOK
    <3>2. /\ hsaWrite' = [hsaWrite EXCEPT ![q] = @ + 1]
          /\ mWriteIndex' = [mWriteIndex EXCEPT ![q] = hsaWrite[q]]
      BY <1>1 DEF PutEffect
    <3> QED
      BY <3>1, <3>2
  <2> QED
    BY <1>1, <1>2, <2>1, <2>2, <2>3 DEF PutEffect, TypeOK
<1>4. PacketsOf' = PacketsOf
  BY <1>1, <1>3, PutPackets
<1>5. /\ k \in Nat /\ readIndex[q] \in Nat /\ readIndex[q] <= k /\ k < readIndex[q] + QueueSize
      /\ hsaWrite \in [Queue -> Nat] /\ hsaWrite' = [hsaWrite EXCEPT ![q] = k + 1]
      /\ readIndex' = readIndex /\ readIndex \in [Queue -> Nat]
  BY <1>1, <1>2 DEF PutEffect, TypeOK
<1>6. /\ ring \in [Queue -> [0..(QueueSize - 1) -> Packet \cup {NoPacket}]]
      /\ x \in 0..(QueueSize - 1) /\ ring[q][x] = NoPacket
      /\ ring' = [ring EXCEPT ![q][x] = pk]
      /\ pk # NoPacket
  BY <1>1, <1>2, PacketFields DEF PutEffect, TypeOK
<1>7. /\ Index(q)' = Index(q) \cup {k} /\ k \notin Index(q)
      /\ \A r \in Queue \ {q} : Index(r)' = Index(r) /\ ring'[r] = ring[r]
  BY <1>5, <1>6 DEF Index
<1>8. \A i \in Index(q) : i \in Nat /\ i < k /\ k < i + QueueSize
  BY <1>5, SizeAssumption DEF Index
<1>9. \A i \in Index(q) : Slot(i) # x
  BY <1>5, <1>8, SlotsDiffer
<1>10. \A r \in Queue : \A i \in Index(r) : i \in Nat /\ Slot(i) \in 0..(QueueSize - 1)
  BY <1>5, SlotIsOne DEF Index
<1>11. /\ \A r \in Queue : \A i \in Index(r) : i \in Index(r)' /\ ring'[r][Slot(i)] = ring[r][Slot(i)]
       /\ k \in Index(q)' /\ ring'[q][Slot(k)] = pk
  BY <1>6, <1>7, <1>9, <1>10
<1>12. RingInv'
  <2>1. ASSUME NEW r \in Queue
        PROVE  /\ readIndex'[r] <= hsaWrite'[r]
               /\ hsaWrite'[r] <= readIndex'[r] + QueueSize
    BY <1>2, <1>5, SizeAssumption DEF RingInv
  <2>2. ASSUME NEW r \in Queue, NEW i \in Index(r)'
        PROVE  ring'[r][Slot(i)] # NoPacket
    <3>1. CASE r = q /\ i = k
      BY <1>6, <1>11, <3>1
    <3>2. CASE ~(r = q /\ i = k)
      <4>1. i \in Index(r)
        BY <1>7, <3>2
      <4> QED
        BY <1>2, <1>11, <4>1 DEF RingInv
    <3> QED
      BY <3>1, <3>2
  <2>3. ASSUME NEW r \in Queue, NEW y \in 0..(QueueSize - 1), ring'[r][y] # NoPacket
        PROVE  \E i \in Index(r)' : y = Slot(i)
    <3>1. CASE r = q /\ y = x
      BY <1>11, <3>1
    <3>2. CASE ~(r = q /\ y = x)
      <4>1. ring[r][y] # NoPacket
        BY <1>6, <2>3, <3>2
      <4>2. \E i \in Index(r) : y = Slot(i)
        BY <1>2, <4>1 DEF RingInv
      <4> QED
        BY <1>11, <4>2
    <3> QED
      BY <3>1, <3>2
  <2> QED
    BY <2>1, <2>2, <2>3 DEF RingInv, Queue
<1>13. ASSUME NEW i \in DOMAIN todo'
       PROVE  i + 1 \in DOMAIN todo /\ i + 1 # 1 /\ todo'[i] = todo[i + 1] /\ todo[i + 1] \in Step
  BY <1>1, <1>2 DEF PutEffect, TodoTyped
<1>14. TodoInv'
  <2>1. todo' \in Seq(Step)'
    <3>1. Step' = Step
      BY <1>1 DEF PutEffect, Step, Packet, Queue
    <3> QED
      BY <1>1, <3>1 DEF PutEffect
  <2>2. ASSUME NEW i \in DOMAIN todo', todo'[i].do = "put"
        PROVE  /\ hsaWrite'[todo'[i].q] - readIndex'[todo'[i].q] < QueueSize
               /\ \A j \in DOMAIN todo' :
                    todo'[j].do = "put" /\ todo'[j].q = todo'[i].q => j = i
    <3> DEFINE r == todo'[i].q
    <3>1. r \in Queue /\ r # q
      BY <1>1, <1>2, <1>13, <2>2, StepFields DEF PutEffect, TodoInv
    <3>2. hsaWrite[r] - readIndex[r] < QueueSize
      BY <1>2, <1>13, <2>2 DEF TodoInv, Unread
    <3> HIDE DEF r
    <3>3. hsaWrite'[r] = hsaWrite[r] /\ readIndex'[r] = readIndex[r]
      BY <1>5, <3>1
    <3>4. ASSUME NEW j \in DOMAIN todo', todo'[j].do = "put", todo'[j].q = r
          PROVE  j = i
      <4>1. j + 1 = i + 1
        BY <1>2, <1>13, <2>2, <3>4 DEF TodoInv, r
      <4>2. i \in Int /\ j \in Int
        BY <1>1 DEF PutEffect
      <4> QED
        BY <4>1, <4>2
    <3> QED
      BY <3>2, <3>3, <3>4 DEF r
  <2>3. ASSUME NEW i \in DOMAIN todo'
        PROVE  todo'[i].do # "pick"
    BY <1>1, <1>13 DEF PutEffect
  <2>4. ASSUME NEW i \in DOMAIN todo', todo'[i].do = "batch"
        PROVE  i = Len(todo')
    <3>1. i + 1 = Len(todo)
      BY <1>2, <1>13, <2>4 DEF TodoInv
    <3> QED
      BY <1>1, <3>1 DEF PutEffect
  <2> QED
    BY <2>1, <2>2, <2>3, <2>4 DEF TodoInv, Unread
<1>15. ASSUME NEW r \in Queue
       PROVE  Pending(r)' = Pending(r) \cup (IF r = q THEN {pk} ELSE {})
  <2>1. DOMAIN ring[r] = 0..(QueueSize - 1) /\ DOMAIN ring'[r] = 0..(QueueSize - 1)
    BY <1>6
  <2> QED
    BY <1>6, <2>1 DEF Pending, Range
<1>16. pk.sig # NullSignal => \A r \in Queue : pk \notin Pending(r) \cup running[r]
  BY <1>1, <1>2 DEF OnceInv, PutEffect
<1>17. OnceInv'
  <2>1. ASSUME NEW i \in DOMAIN todo', todo'[i].do = "put", todo'[i].packet.sig # NullSignal
        PROVE  FALSE
    <3>1. 1 \in DOMAIN todo /\ todo[1].do = "put"
      BY <1>1 DEF PutEffect
    <3>2. /\ i + 1 \in DOMAIN todo /\ i + 1 # 1
          /\ todo[i + 1].do = "put" /\ todo[i + 1].packet.sig # NullSignal
      BY <1>13, <2>1
    <3> QED
      BY <1>2, <3>1, <3>2 DEF OnceInv
  <2>2. ASSUME NEW r \in Queue, NEW s \in Queue,
               NEW y \in 0..(QueueSize - 1), NEW z \in 0..(QueueSize - 1),
               ring'[r][y] # NoPacket, ring'[r][y].sig # NullSignal, ring'[r][y] = ring'[s][z]
        PROVE  r = s /\ y = z
    <3>1. \A t \in Queue : \A w \in 0..(QueueSize - 1) :
             ring[t][w] # NoPacket => ring[t][w] \in Pending(t)
      BY <1>6 DEF Pending, Range
    <3>2. CASE r = q /\ y = x
      <4>1. ring'[r][y] = pk
        BY <1>6, <3>2
      <4>2. CASE s = q /\ z = x
        BY <3>2, <4>2
      <4>3. CASE ~(s = q /\ z = x)
        <5>1. ring[s][z] = pk
          BY <1>6, <2>2, <4>1, <4>3
        <5> QED
          BY <1>6, <1>16, <2>2, <3>1, <4>1, <5>1
      <4> QED
        BY <4>2, <4>3
    <3>3. CASE ~(r = q /\ y = x)
      <4>1. ring'[r][y] = ring[r][y]
        BY <1>6, <3>3
      <4>2. CASE s = q /\ z = x
        <5>1. ring[r][y] = pk
          BY <1>6, <2>2, <4>1, <4>2
        <5> QED
          BY <1>6, <1>16, <2>2, <3>1, <4>1, <5>1
      <4>3. CASE ~(s = q /\ z = x)
        <5>1. ring[s][z] = ring[r][y]
          BY <1>6, <2>2, <4>1, <4>3
        <5> QED
          BY <1>2, <2>2, <4>1, <5>1 DEF OnceInv
      <4> QED
        BY <4>2, <4>3
    <3> QED
      BY <3>2, <3>3
  <2>3. ASSUME NEW r \in Queue, NEW s \in Queue, NEW p \in running'[r], p.sig # NullSignal
        PROVE  p \notin Pending(s)' /\ (p \in running'[s] => r = s)
    <3>1. running' = running
      BY <1>1 DEF PutEffect
    <3> QED
      BY <1>2, <1>15, <1>16, <2>3, <3>1 DEF OnceInv
  <2> QED
    BY <2>1, <2>2, <2>3 DEF OnceInv, Queue
<1>18. LinkInv'
  <2>1. LinkInv /\ PacketsTyped
    BY PacketTypes DEF IInv
  <2> QED
    BY <1>1, <1>4, <2>1 DEF LinkInv, Linked, PutEffect, Queue, Fitting
<1>19. OwnerInv'
  <2>1. OwnerInv
    BY DEF IInv
  <2>2. ASSUME NEW b \in DOMAIN batch, NEW i \in DOMAIN todo', todo'[i].do = "batch"
        PROVE  todo'[i].dep \notin Range(batch[b].perQ)
    BY <1>13, <2>1, <2>2 DEF OwnerInv
  <2> QED
    BY <1>1, <2>1, <2>2 DEF OwnerInv, PutEffect
<1>20. SignalInv'
  <2>1. SignalInv
    BY DEF IInv
  <2> QED
    BY <1>1, <1>4, <2>1 DEF SignalInv, SignalsExact, Owing, PutEffect
<1>21. NothingLost'
  <2>1. NothingLost
    BY DEF IInv
  <2>2. ASSUME NEW s \in Range(todo), s.do = "pick"
        PROVE  FALSE
    BY <1>1, <2>2 DEF PutEffect, Range
  <2> QED
    BY <1>1, <1>4, <2>1, <2>2 DEF NothingLost, PutEffect
<1>22. DepInv'
  <2>1. DepInv /\ LinkInv /\ batch \in Seq([perQ : Seq(DOMAIN signal), final : DOMAIN signal,
                    dep : 0..Len(signal), open : BOOLEAN])
    BY <1>2 DEF IInv, TypeOK
  <2>2. /\ signal' = signal /\ task' = task /\ batch' = batch /\ done' = done /\ running' = running
        /\ kind' = kind
    BY <1>1 DEF PutEffect
  <2>3. ASSUME NEW r \in Queue, NEW s, NEW b, Guarded(r, s, b)
        PROVE  Guarded(r, s, b)'
    <3>1. CASE signal[s] = 0
      BY <2>2, <3>1 DEF Guarded
    <3>2. CASE signal[s] # 0
      <4>1. PICK i \in Index(r) :
              /\ ring[r][Slot(i)].type = "barrier"
              /\ s \in ring[r][Slot(i)].deps
              /\ \A j \in Index(r) :
                   j <= i /\ ring[r][Slot(j)].type = "kernel"
                     => task[ring[r][Slot(j)].task].batch # b
        BY <2>3, <3>2 DEF Guarded
      <4>2. i \in Index(r)' /\ ring'[r][Slot(i)] = ring[r][Slot(i)]
        BY <1>11
      <4>3. ASSUME NEW j \in Index(r)', j <= i
            PROVE  j \in Index(r) /\ ring'[r][Slot(j)] = ring[r][Slot(j)]
        <5>1. j \in Index(r)
          <6>1. CASE r = q
            <7>1. i < k /\ i \in Nat
              BY <1>8, <6>1
            <7>2. j # k
              BY <1>5, <4>3, <7>1
            <7> QED
              BY <1>7, <6>1, <7>2
          <6>2. CASE r # q
            BY <1>7, <6>2
          <6> QED
            BY <6>1, <6>2
        <5> QED
          BY <1>11, <5>1
      <4> QED
        BY <2>2, <4>1, <4>2, <4>3 DEF Guarded
    <3> QED
      BY <3>1, <3>2
  <2>4. ASSUME NEW b \in DOMAIN batch', NEW r \in Queue, batch'[b].dep # NullSignal
        PROVE  Guarded(r, batch[b].dep, b)'
    BY <2>1, <2>2, <2>3, <2>4 DEF DepInv
  <2>5. ASSUME NEW i \in DOMAIN todo', NEW r \in Queue,
               todo'[i].do = "batch", todo'[i].dep # NullSignal
        PROVE  \/ \A s, b : s = todo'[i].dep /\ b = Len(batch) + 1 => Guarded(r, s, b)'
               \/ \E j \in DOMAIN todo' :
                    /\ j < i
                    /\ todo'[j].do = "put"
                    /\ todo'[j].q = r
                    /\ todo'[j].packet.type = "barrier"
                    /\ todo'[i].dep \in todo'[j].packet.deps
    <3> SUFFICES ASSUME NEW s, s = todo'[i].dep, NEW b, b = Len(batch) + 1
                 PROVE  \/ Guarded(r, s, b)'
                        \/ \E j \in DOMAIN todo' :
                             /\ j < i
                             /\ todo'[j].do = "put"
                             /\ todo'[j].q = r
                             /\ todo'[j].packet.type = "barrier"
                             /\ s \in todo'[j].packet.deps
      OBVIOUS
    <3>1. s = todo[i + 1].dep /\ s # NullSignal /\ todo[i + 1].do = "batch" /\ i + 1 \in DOMAIN todo
      BY <1>13, <2>5
    <3>2. CASE Guarded(r, s, b)
      BY <2>3, <3>2
    <3>3. CASE ~Guarded(r, s, b)
      <4>1. PICK j \in DOMAIN todo :
               /\ j < i + 1
               /\ todo[j].do = "put"
               /\ todo[j].q = r
               /\ todo[j].packet.type = "barrier"
               /\ s \in todo[j].packet.deps
        BY <2>1, <3>1, <3>3 DEF DepInv
      <4>2. CASE j # 1
        <5>1. j - 1 \in DOMAIN todo' /\ todo'[j - 1] = todo[j] /\ j - 1 < i
          BY <1>1, <4>1, <4>2 DEF PutEffect
        <5> QED
          BY <3>1, <4>1, <5>1
      <4>3. CASE j = 1
        <5>1. r = q /\ pk.type = "barrier" /\ s \in pk.deps
          BY <1>1, <4>1, <4>3 DEF PutEffect
        <5>2. k \in Index(r)' /\ ring'[r][Slot(k)] = pk
          BY <1>11, <5>1
        <5>3. ASSUME NEW j2 \in Index(r)', ring'[r][Slot(j2)].type = "kernel"
              PROVE  task'[ring'[r][Slot(j2)].task].batch # b
          <6> DEFINE p == ring'[r][Slot(j2)]
          <6>1. p \in Packet
            <7>1. CASE r = q /\ j2 = k
              BY <1>11, <7>1
            <7>2. CASE ~(r = q /\ j2 = k)
              <8>1. j2 \in Index(r)
                BY <1>7, <7>2
              <8>2. p = ring[r][Slot(j2)] /\ p # NoPacket
                BY <1>2, <1>11, <8>1 DEF RingInv
              <8> QED
                BY <1>6, <1>10, <8>1, <8>2
            <7> QED
              BY <7>1, <7>2
          <6>2. p.type = "kernel"
            BY <5>3
          <6> HIDE DEF p
          <6>3. p.task \in 1..Len(task)
            BY <6>1, <6>2, PacketFields
          <6>4. task[p.task].batch \in 0..Len(batch)
            BY <1>2, <6>3, ListTypes DEF ListsTyped
          <6>5. task[p.task].batch # b
            BY <1>2, <6>4, ListTypes DEF ListsTyped
          <6> QED
            BY <2>2, <6>5 DEF p
        <5> QED
          BY <5>1, <5>2, <5>3 DEF Guarded
      <4> QED
        BY <4>2, <4>3
    <3> QED
      BY <3>2, <3>3
  <2>6. DependentBatchWaits'
    <3>1. Running' = Running
      BY <2>2 DEF Running, Queue
    <3> QED
      BY <2>1, <2>2, <3>1 DEF DepInv, DependentBatchWaits
  <2>7. Queue' = Queue
    BY DEF Queue
  <2>8. \A i \in DOMAIN todo' : todo'[i] = todo[i + 1]
    BY <1>13
  <2> QED
    BY <2>2, <2>4, <2>5, <2>6, <2>7, <2>8 DEF DepInv
<1>23. ClosedInv'
  <2>1. ClosedInv
    BY DEF IInv
  <2> QED
    BY <1>1, <1>4, <2>1 DEF ClosedInv, PutEffect
<1>24. OrderInv'
  <2> SUFFICES ASSUME kind = "ordered"
               PROVE  OrderInv'
    BY <1>1 DEF OrderInv, PutEffect
  <2>1. OrderInv
    BY DEF IInv
  <2>2. q = 0 /\ pk.type = "kernel" /\ pk.task = Len(task) /\ hsaWrite[0] + 1 = Len(task)
    BY <1>1, <2>1 DEF OrderInv, PutEffect
  <2>3. \A i \in DOMAIN todo' : todo'[i].do # "put"
    <3> SUFFICES ASSUME NEW i \in DOMAIN todo', todo'[i].do = "put"
                 PROVE  FALSE
      OBVIOUS
    <3>1. todo[i + 1].q = 0 /\ todo[i + 1].do = "put" /\ i + 1 \in DOMAIN todo /\ i + 1 # 1
      BY <1>13, <2>1 DEF OrderInv
    <3>2. 1 \in DOMAIN todo /\ todo[1].do = "put" /\ todo[1].q = 0
      BY <1>1, <2>2 DEF PutEffect
    <3> QED
      BY <1>2, <3>1, <3>2 DEF TodoInv
  <2>4. hsaWrite'[0] = Len(task) /\ \A r \in Queue \ {0} : hsaWrite'[r] = hsaWrite[r]
    BY <1>5, <2>2, QueueFacts
  <2>5. ASSUME NEW i \in Index(0)'
        PROVE  ring'[0][Slot(i)].type = "kernel" /\ ring'[0][Slot(i)].task = i + 1
    <3>1. CASE i = k
      BY <1>11, <2>2, <3>1
    <3>2. CASE i # k
      BY <1>7, <1>11, <2>1, <2>2, <2>5, <3>2 DEF OrderInv
    <3> QED
      BY <3>1, <3>2
  <2> QED
    BY <1>1, <2>1, <2>3, <2>4, <2>5 DEF OrderInv, PutEffect, Queue
<1> QED
  BY <1>3, <1>12, <1>14, <1>17, <1>18, <1>19, <1>20, <1>21, <1>22, <1>23, <1>24 DEF IInv

(* When only the steps of the call change, the packets are those of the     *)
(* device and those of the steps.                                           *)
LEMMA CallPackets ==
  ASSUME IInv, TypeOK', UNCHANGED <<ring, running>>,
         \A i \in DOMAIN todo : todo[i].do # "put",
         NEW N, \A p : InTodo(p)' <=> p \in N
  PROVE  PacketsOf' = PacketsOf \cup N
<1>1. PacketPlaces /\ PacketPlaces'
  <2>1. TypeOK
    BY DEF IInv
  <2>2. TypeOK' => PacketPlaces'
    BY Places, PTL
  <2> QED
    BY <2>1, <2>2, Places
<1>2. ASSUME NEW p
      PROVE  ~InTodo(p) /\ (InRing(p)' <=> InRing(p))
  BY DEF InTodo, InRing, Queue
<1>3. ASSUME NEW p
      PROVE  p \in PacketsOf' <=> p \in PacketsOf \/ p \in N
  BY <1>1, <1>2 DEF PacketPlaces, Queue
<1> QED
  BY <1>3

(* A step that changes nothing on the device, and of the tasks and batches  *)
(* only what no packet depends on, keeps the links of packets and the       *)
(* barriers before dependent batches.                                       *)
Shares == UNION {Range(batch[c].perQ) : c \in DOMAIN batch}

Extends ==
  /\ UNCHANGED <<kind, ring, hsaWrite, readIndex, running, done>>
  /\ DOMAIN task \subseteq DOMAIN task'
  /\ DOMAIN batch \subseteq DOMAIN batch'
  /\ \A p \in PacketsOf : p.type = "kernel" => task'[p.task] = task[p.task]
  /\ \A u \in DOMAIN task : task'[u].batch = task[u].batch
  /\ \A b \in DOMAIN batch :
       /\ batch'[b].perQ = batch[b].perQ
       /\ batch'[b].final = batch[b].final
       /\ batch'[b].dep = batch[b].dep
       /\ ~batch[b].open => ~batch'[b].open
  /\ \A s \in DOMAIN signal : s \notin Shares /\ signal[s] = 0 => signal'[s] = 0

LEMMA ZeroStays ==
  ASSUME IInv, Extends,
         NEW b \in DOMAIN batch, batch[b].dep # NullSignal, signal[batch[b].dep] = 0
  PROVE  signal'[batch[b].dep] = 0
<1>1. batch[b].dep \in DOMAIN signal
  BY ListTypes DEF IInv, ListsTyped, NullSignal
<1>2. batch[b].dep \notin Shares
  BY DEF IInv, OwnerInv, Shares
<1> QED
  BY <1>1, <1>2 DEF Extends

(* The kernels of packets in the ring, in execution and done are tasks.     *)
KernelsAreTasks ==
  /\ \A p \in PacketsOf : p.type = "kernel" => p.task \in DOMAIN task
  /\ \A r \in Queue : \A j \in Index(r) :
       /\ j \in Nat
       /\ Slot(j) \in 0..(QueueSize - 1)
       /\ ring[r][Slot(j)] \in PacketsOf
  /\ Running \cup done \subseteq DOMAIN task

LEMMA KernelTasks == IInv => KernelsAreTasks
<1> SUFFICES ASSUME IInv
             PROVE  KernelsAreTasks
  OBVIOUS
<1>1. /\ TypeOK /\ RingInv /\ LinkInv /\ PacketsTyped /\ ListsTyped /\ PacketPlaces
  BY PacketTypes, ListTypes, Places DEF IInv
<1>2. ASSUME NEW p \in PacketsOf, p.type = "kernel"
      PROVE  p.task \in DOMAIN task
  <2>1. p \in Packet
    BY <1>1 DEF PacketsTyped
  <2> QED
    BY <1>1, <1>2, <2>1, PacketFields DEF ListsTyped
<1>3. ASSUME NEW r \in Queue, NEW j \in Index(r)
      PROVE  /\ j \in Nat
             /\ Slot(j) \in 0..(QueueSize - 1)
             /\ ring[r][Slot(j)] \in PacketsOf
  <2>1. readIndex[r] \in Nat /\ hsaWrite[r] \in Nat
    BY <1>1 DEF TypeOK
  <2>2. j \in Nat
    BY <2>1 DEF Index
  <2>3. Slot(j) \in 0..(QueueSize - 1)
    BY <2>2, SlotIsOne
  <2>4. ring[r][Slot(j)] # NoPacket
    BY <1>1 DEF RingInv
  <2> QED
    BY <1>1, <2>2, <2>3, <2>4 DEF PacketPlaces, InRing
<1>4. ASSUME NEW u \in Running
      PROVE  u \in DOMAIN task
  <2>1. PICK r \in Queue : \E p \in running[r] : u = p.task
    BY DEF Running
  <2>2. PICK p \in running[r] : u = p.task
    BY <2>1
  <2>3. p.type = "kernel" /\ p \in PacketsOf
    BY <1>1 DEF LinkInv, PacketsOf
  <2> QED
    BY <1>2, <2>2, <2>3
<1>5. done \subseteq DOMAIN task
  BY <1>1 DEF TypeOK
<1> QED
  BY <1>2, <1>3, <1>4, <1>5 DEF KernelsAreTasks

LEMMA LinksStay ==
  ASSUME IInv, Extends, NEW p \in PacketsOf,
         \A b \in DOMAIN batch' \ DOMAIN batch : p.sig # batch'[b].final
  PROVE  Linked(p)'
<1>1. /\ Linked(p) /\ ListsTyped /\ KernelsAreTasks
  BY ListTypes, KernelTasks DEF IInv, LinkInv
<1>2. p.type = "kernel" =>
        LET u == task'[p.task]
        IN /\ p.barrier <=> kind' = "ordered"
           /\ u.sig # NullSignal => p.sig = u.sig
           /\ kind' = "unordered" /\ u.batch # 0 => p.sig \in Range(batch'[u.batch].perQ)
  <2> SUFFICES ASSUME p.type = "kernel"
               PROVE  LET u == task'[p.task]
                      IN /\ p.barrier <=> kind' = "ordered"
                         /\ u.sig # NullSignal => p.sig = u.sig
                         /\ kind' = "unordered" /\ u.batch # 0
                              => p.sig \in Range(batch'[u.batch].perQ)
    OBVIOUS
  <2>1. task'[p.task] = task[p.task] /\ p.task \in DOMAIN task
    BY <1>1 DEF Extends, KernelsAreTasks
  <2>2. task[p.task].batch # 0 => task[p.task].batch \in DOMAIN batch
    BY <1>1, <2>1 DEF ListsTyped
  <2> QED
    BY <1>1, <2>1, <2>2 DEF Linked, Extends
<1>3. p.type = "barrier" => kind' = "unordered"
  BY <1>1 DEF Linked, Extends
<1>4. ASSUME NEW b \in DOMAIN batch', p.sig = batch'[b].final
      PROVE  ~batch'[b].open /\ (p.type = "barrier" => p.deps = Fitting(batch'[b].perQ))
  <2>1. b \in DOMAIN batch
    BY <1>4
  <2> QED
    BY <1>1, <1>4, <2>1 DEF Linked, Extends
<1> QED
  BY <1>2, <1>3, <1>4 DEF Linked, Fitting

LEMMA GuardStays ==
  ASSUME IInv, Extends, NEW r \in Queue, NEW b, NEW s, Guarded(r, s, b),
         signal[s] = 0 => signal'[s] = 0
  PROVE  Guarded(r, s, b)'
<1>1. KernelsAreTasks
  BY KernelTasks
<1>2. CASE signal[s] = 0
  BY <1>2, SMTT(30) DEF Guarded
<1>3. CASE signal[s] # 0
  <2>1. PICK i \in Index(r) :
          /\ ring[r][Slot(i)].type = "barrier"
          /\ s \in ring[r][Slot(i)].deps
          /\ \A j \in Index(r) :
               j <= i /\ ring[r][Slot(j)].type = "kernel"
                 => task[ring[r][Slot(j)].task].batch # b
    BY <1>3 DEF Guarded
  <2>2. ASSUME NEW j \in Index(r), ring[r][Slot(j)].type = "kernel"
        PROVE  task'[ring[r][Slot(j)].task] = task[ring[r][Slot(j)].task]
    BY <1>1, <2>2 DEF KernelsAreTasks, Extends
  <2>3. Index(r)' = Index(r) /\ ring' = ring
    BY DEF Index, Extends
  <2> QED
    BY <2>1, <2>2, <2>3 DEF Guarded
<1> QED
  BY <1>2, <1>3

LEMMA DepsStay ==
  ASSUME IInv, Extends
  PROVE  /\ \A r \in Queue : \A b \in DOMAIN batch : \A s :
              s = batch[b].dep /\ s # NullSignal => Guarded(r, s, b)'
         /\ DependentBatchWaits'
<1>1. ASSUME NEW r \in Queue, NEW b \in DOMAIN batch, NEW s, s = batch[b].dep, s # NullSignal
      PROVE  Guarded(r, s, b)'
  <2>1. Guarded(r, s, b)
    BY <1>1 DEF IInv, DepInv
  <2>2. signal[s] = 0 => signal'[s] = 0
    BY <1>1, ZeroStays
  <2> QED
    BY <2>1, <2>2, GuardStays
<1>2. DependentBatchWaits'
  <2>1. Running' = Running /\ done' = done
    BY DEF Running, Extends, Queue
  <2> SUFFICES ASSUME NEW u \in Running \cup done, task'[u].batch # 0,
                      batch'[task'[u].batch].dep # NullSignal
               PROVE  signal'[batch'[task'[u].batch].dep] = 0
    BY <2>1 DEF DependentBatchWaits
  <2>2. u \in DOMAIN task
    BY KernelTasks DEF KernelsAreTasks
  <2> DEFINE b == task[u].batch
  <2>3. b \in DOMAIN batch /\ b = task'[u].batch /\ batch'[b].dep = batch[b].dep
    BY <2>2, ListTypes DEF IInv, ListsTyped, Extends
  <2>4. signal[batch[b].dep] = 0
    BY <2>3 DEF IInv, DepInv, DependentBatchWaits
  <2> QED
    BY <2>3, <2>4, ZeroStays
<1> QED
  BY <1>1, <1>2

(* The packet pk of the kernel t is to be written to the queue q.           *)
HandOver(t, q, pk) ==
  /\ q \in Queue /\ pk \in Packet' /\ pk.type = "kernel" /\ pk.task = t
  /\ hsaWrite[q] - readIndex[q] < QueueSize
  /\ \A i \in DOMAIN todo :
       /\ todo[i].do # "put"
       /\ todo[i].do # "batch"
       /\ todo[i].do = "pick" => todo[i].task = t
  /\ todo' \in Seq(Step)'
  /\ 1 \in DOMAIN todo' /\ todo'[1].do = "put" /\ todo'[1].q = q /\ todo'[1].packet = pk
  /\ \A i \in DOMAIN todo' : i # 1 => todo'[i].do = "ring"
  /\ UNCHANGED <<kind, ring, hsaWrite, readIndex, running, done>>
  /\ \A p \in PacketsOf : p.type = "kernel" => p.task # t
  /\ DOMAIN task' = DOMAIN task \cup {t}
  /\ \A u \in DOMAIN task :
       /\ u # t => task'[u] = task[u]
       /\ task'[u].batch = task[u].batch
  /\ t \notin DOMAIN task => \A b \in DOMAIN batch : task'[t].batch = b => batch[b].open
  /\ \A b \in DOMAIN batch : task'[t].sig \notin Range(batch[b].perQ)
  /\ DOMAIN batch' = DOMAIN batch
  /\ \A b \in DOMAIN batch :
       /\ batch'[b].perQ = batch[b].perQ
       /\ batch'[b].final = batch[b].final
       /\ batch'[b].dep = batch[b].dep
       /\ ~batch[b].open => ~batch'[b].open
       /\ batch[b].open /\ ~batch'[b].open =>
            kind = "ordered" /\ task'[t].sig = batch[b].final
  /\ kind = "ordered" => q = 0 /\ t \notin DOMAIN task /\ t = Len(task) + 1 /\ t = Len(task')
  /\ \A s \in DOMAIN signal : s \notin Shares /\ signal[s] = 0 => signal'[s] = 0

LEMMA HandOverPackets ==
  ASSUME IInv, NEW t, NEW q, NEW pk, HandOver(t, q, pk), TypeOK'
  PROVE  PacketsOf' = PacketsOf \cup {pk} /\ pk \notin PacketsOf
<1>1. /\ UNCHANGED <<ring, running>>
      /\ pk.type = "kernel" /\ pk.task = t
      /\ 1 \in DOMAIN todo' /\ todo'[1].do = "put" /\ todo'[1].packet = pk
      /\ \A i \in DOMAIN todo' : i # 1 => todo'[i].do = "ring"
      /\ \A i \in DOMAIN todo : todo[i].do # "put"
      /\ \A p \in PacketsOf : p.type = "kernel" => p.task # t
  BY DEF HandOver
<1>2. ASSUME NEW p
      PROVE  InTodo(p)' <=> p \in {pk}
  BY <1>1 DEF InTodo
<1> QED
  BY <1>1, <1>2, CallPackets

LEMMA HandOverPreserves ==
  ASSUME IInv, NEW t, NEW q, NEW pk, HandOver(t, q, pk),
         TypeOK', SignalInv', Linked(pk)'
  PROVE  IInv'
<1>1. /\ TypeOK /\ RingInv /\ TodoInv /\ OnceInv /\ LinkInv /\ OwnerInv /\ NothingLost
      /\ DepInv /\ ClosedInv /\ OrderInv /\ PacketsTyped /\ ListsTyped
  BY PacketTypes, ListTypes DEF IInv
<1>2. /\ UNCHANGED <<kind, ring, hsaWrite, readIndex, running, done>>
      /\ q \in Queue /\ pk.type = "kernel" /\ pk.task = t /\ t \in DOMAIN task'
      /\ 1 \in DOMAIN todo' /\ todo'[1].do = "put" /\ todo'[1].q = q /\ todo'[1].packet = pk
      /\ \A i \in DOMAIN todo' : i # 1 => todo'[i].do = "ring"
      /\ \A i \in DOMAIN todo : todo[i].do # "put" /\ todo[i].do # "batch"
      /\ \A p \in PacketsOf : p.type = "kernel" => p.task # t
      /\ Queue' = Queue
  BY DEF HandOver, Queue
<1>3. PacketsOf' = PacketsOf \cup {pk} /\ pk \notin PacketsOf
  BY HandOverPackets
<1>4. RingInv'
  BY <1>1, <1>2 DEF RingInv, Index, Queue
<1>5. TodoInv'
  <2>1. ASSUME NEW i \in DOMAIN todo', todo'[i].do = "put"
        PROVE  /\ hsaWrite'[todo'[i].q] - readIndex'[todo'[i].q] < QueueSize
               /\ \A j \in DOMAIN todo' :
                    todo'[j].do = "put" /\ todo'[j].q = todo'[i].q => j = i
    <3>1. i = 1
      BY <1>2, <2>1
    <3> QED
      BY <1>2, <3>1 DEF HandOver
  <2>2. ASSUME NEW i \in DOMAIN todo'
        PROVE  todo'[i].do # "pick" /\ todo'[i].do # "batch"
    BY <1>2
  <2>3. todo' \in Seq(Step)'
    BY DEF HandOver
  <2> QED
    BY <2>1, <2>2, <2>3 DEF TodoInv, Unread
<1>6. \A r \in Queue : pk \notin Pending(r) \cup running[r]
  BY <1>3 DEF PacketsOf
<1>7. OnceInv'
  <2>1. \A r \in Queue : Pending(r)' = Pending(r)
    BY <1>2 DEF Pending
  <2>2. ASSUME NEW i \in DOMAIN todo', todo'[i].do = "put"
        PROVE  i = 1
    BY <1>2, <2>2
  <2>3. /\ \A r, s \in Queue : \A x, y \in 0..(QueueSize - 1) :
             ring'[r][x] # NoPacket /\ ring'[r][x].sig # NullSignal /\ ring'[r][x] = ring'[s][y]
               => r = s /\ x = y
        /\ \A r, s \in Queue : \A p \in running'[r] :
             p.sig # NullSignal => p \notin Pending(s) /\ (p \in running'[s] => r = s)
    BY <1>1, <1>2 DEF OnceInv
  <2>4. \A r, s \in Queue : \A p \in running'[r] :
             p.sig # NullSignal => p \notin Pending(s)' /\ (p \in running'[s] => r = s)
    BY <2>1, <2>3
  <2>5. \A i \in DOMAIN todo' :
          todo'[i].do = "put" =>
             /\ \A j \in DOMAIN todo' : todo'[j].do = "put" => j = i
             /\ \A r \in Queue : todo'[i].packet \notin Pending(r)' \cup running'[r]
    BY <1>2, <1>6, <2>1, <2>2
  <2> QED
    BY <1>2, <2>3, <2>4, <2>5 DEF OnceInv
<1>8. ASSUME NEW b \in DOMAIN batch
      PROVE  /\ batch'[b].perQ = batch[b].perQ
             /\ batch'[b].final = batch[b].final
             /\ batch'[b].dep = batch[b].dep
             /\ ~batch[b].open => ~batch'[b].open
             /\ batch[b].open /\ ~batch'[b].open =>
                  kind = "ordered" /\ task'[t].sig = batch[b].final
             /\ b \in DOMAIN batch'
  BY DEF HandOver
<1>9. DOMAIN batch' = DOMAIN batch
  BY DEF HandOver
<1>10. ASSUME NEW u \in DOMAIN task
       PROVE  /\ u # t => task'[u] = task[u]
              /\ task'[u].batch = task[u].batch
              /\ u \in DOMAIN task'
  BY DEF HandOver
<1>11. Extends
  <2>1. \A p \in PacketsOf : p.type = "kernel" => task'[p.task] = task[p.task]
    BY <1>2, <1>10, KernelTasks DEF KernelsAreTasks
  <2> QED
    BY <1>8, <1>10, <2>1 DEF HandOver, Extends
<1>12. LinkInv'
  <2>1. \A p \in PacketsOf : Linked(p)'
    BY <1>9, <1>11, LinksStay
  <2> QED
    BY <1>1, <1>2, <1>3, <2>1 DEF LinkInv
<1>13. OwnerInv'
  <2>1. ASSUME NEW b \in DOMAIN batch', NEW u \in DOMAIN task'
        PROVE  task'[u].sig \notin Range(batch'[b].perQ)
    <3>1. b \in DOMAIN batch /\ batch'[b].perQ = batch[b].perQ
      BY <1>8, <1>9
    <3>2. CASE u = t
      BY <3>1, <3>2 DEF HandOver
    <3>3. CASE u # t
      <4>1. u \in DOMAIN task /\ task'[u] = task[u]
        BY <3>3 DEF HandOver
      <4> QED
        BY <1>1, <3>1, <4>1 DEF OwnerInv
    <3> QED
      BY <3>2, <3>3
  <2>2. ASSUME NEW i \in DOMAIN todo'
        PROVE  todo'[i].do # "batch"
    BY <1>2
  <2>3. ASSUME NEW b \in DOMAIN batch'
        PROVE  /\ Len(batch'[b].perQ) = IF kind' = "ordered" THEN 0 ELSE NumQs
               /\ \A c \in DOMAIN batch' :
                    /\ batch'[b].final = batch'[c].final => b = c
                    /\ batch'[b].final \notin Range(batch'[c].perQ)
                    /\ batch'[b].dep \notin Range(batch'[c].perQ)
    BY <1>1, <1>2, <1>8, <1>9 DEF OwnerInv
  <2> QED
    BY <2>1, <2>2, <2>3 DEF OwnerInv
<1>14. NothingLost'
  <2> SUFFICES ASSUME NEW u \in DOMAIN task'
               PROVE  u \in done' \/ \E p \in PacketsOf' : p.type = "kernel" /\ p.task = u
    BY DEF NothingLost
  <2>1. CASE u = t
    BY <1>2, <1>3, <2>1
  <2>2. CASE u # t
    <3>1. u \in DOMAIN task
      BY <2>2 DEF HandOver
    <3>2. ASSUME NEW s \in Range(todo), s.do = "pick"
          PROVE  s.task = t
      BY <3>2 DEF HandOver, Range
    <3> QED
      BY <1>1, <1>2, <1>3, <2>2, <3>1, <3>2 DEF NothingLost
  <2> QED
    BY <2>1, <2>2
<1>16. DepInv'
  <2>1. /\ \A r \in Queue : \A b \in DOMAIN batch : \A s :
             s = batch[b].dep /\ s # NullSignal => Guarded(r, s, b)'
        /\ DependentBatchWaits'
    BY <1>11, DepsStay
  <2>2. ASSUME NEW b \in DOMAIN batch', NEW r \in Queue', batch'[b].dep # NullSignal
        PROVE  Guarded(r, batch[b].dep, b)'
    BY <1>2, <1>8, <1>9, <2>1, <2>2
  <2>3. ASSUME NEW i \in DOMAIN todo'
        PROVE  todo'[i].do # "batch"
    BY <1>2
  <2> QED
    BY <2>1, <2>2, <2>3 DEF DepInv
<1>17. ClosedInv'
  <2> SUFFICES ASSUME NEW b \in DOMAIN batch, ~batch'[b].open
               PROVE  /\ kind = "unordered" /\ NumQs <= BarrierDeps =>
                           \/ \E p \in PacketsOf' : p.type = "barrier" /\ p.sig = batch[b].final
                           \/ \A u \in DOMAIN task' : task'[u].batch = b => u \in done
                      /\ kind = "ordered" =>
                           \E u \in DOMAIN task' :
                             /\ task'[u].sig = batch[b].final
                             /\ \A v \in DOMAIN task' : task'[v].batch = b => v <= u
    BY <1>2, <1>8, <1>9 DEF ClosedInv
  <2>1. CASE batch[b].open
    <3>1. kind = "ordered" /\ task'[t].sig = batch[b].final /\ t = Len(task')
      BY <1>8, <2>1 DEF HandOver
    <3>2. \A v \in DOMAIN task' : v <= t
      <4>1. TypeOK' => ListsTyped'
        BY ListTypes, PTL
      <4>2. Len(task') \in Nat /\ DOMAIN task' = 1..Len(task')
        BY <4>1 DEF ListsTyped
      <4> QED
        BY <3>1, <4>2
    <3> QED
      BY <1>2, <3>1, <3>2
  <2>2. CASE ~batch[b].open
    <3>1. ASSUME NEW u \in DOMAIN task', task'[u].batch = b
          PROVE  u \in DOMAIN task /\ task[u].batch = b
      BY <2>2, <3>1 DEF HandOver
    <3>2. CASE kind = "unordered"
      BY <1>1, <1>2, <1>3, <2>2, <3>1, <3>2 DEF ClosedInv
    <3>3. CASE kind = "ordered"
      <4>1. PICK u \in DOMAIN task :
              task[u].sig = batch[b].final /\ \A v \in DOMAIN task : task[v].batch = b => v <= u
        BY <1>1, <2>2, <3>3 DEF ClosedInv
      <4>2. task'[u] = task[u]
        BY <3>3, <4>1 DEF HandOver
      <4> QED
        BY <1>10, <3>1, <3>3, <4>1, <4>2
    <3> QED
      BY <1>1, <3>2, <3>3 DEF TypeOK
  <2> QED
    BY <2>1, <2>2
<1>18. OrderInv'
  <2> SUFFICES ASSUME kind = "ordered"
               PROVE  OrderInv'
    BY <1>2 DEF OrderInv
  <2>1. q = 0 /\ t = Len(task) + 1 /\ t = Len(task')
    BY DEF HandOver
  <2>2. hsaWrite[0] = Len(task)
    BY <1>1, <1>2 DEF OrderInv
  <2>3. ASSUME NEW i \in DOMAIN todo', todo'[i].do = "put"
        PROVE  todo'[i].q = 0 /\ todo'[i].packet = pk
    BY <1>2, <2>1, <2>3
  <2>4. Index(0)' = Index(0)
    BY <1>2 DEF Index
  <2> QED
    BY <1>1, <1>2, <2>1, <2>2, <2>3, <2>4 DEF OrderInv
<1> QED
  BY <1>4, <1>5, <1>7, <1>12, <1>13, <1>14, <1>16, <1>17, <1>18 DEF IInv

(* Types, when lists grow.                                                  *)
BatchType == [perQ : Seq(DOMAIN signal), final : DOMAIN signal,
              dep : 0..Len(signal), open : BOOLEAN]
TaskType  == [kernel : Kernel, batch : 0..Len(batch), sig : 0..Len(signal)]

LEMMA TypesGrow ==
  ASSUME TypeOK, signal' \in Seq(Nat), Len(signal) <= Len(signal'), Len(batch) <= Len(batch'),
         Len(batch') \in Nat
  PROVE  BatchType \subseteq BatchType' /\ TaskType \subseteq TaskType'
<1>1. /\ Len(signal) \in Nat /\ DOMAIN signal = 1..Len(signal)
      /\ Len(batch) \in Nat
      /\ Len(signal') \in Nat /\ DOMAIN signal' = 1..Len(signal')
  BY ListTypes DEF ListsTyped
<1>2. /\ DOMAIN signal \subseteq DOMAIN signal'
      /\ 0..Len(signal) \subseteq 0..Len(signal')
      /\ 0..Len(batch) \subseteq 0..Len(batch')
  BY <1>1
<1>3. Seq(DOMAIN signal) \subseteq Seq(DOMAIN signal')
  BY <1>2
<1>4. BatchType \subseteq BatchType'
  BY <1>2, <1>3 DEF BatchType
<1>5. TaskType \subseteq TaskType'
  BY <1>2 DEF TaskType
<1> QED
  BY <1>4, <1>5

LEMMA TypeGrows ==
  ASSUME TypeOK, UNCHANGED <<kind, ring, hsaWrite, readIndex, doorbell, running, mWriteIndex, done>>,
         mCurrQid' \in Queue,
         signal' \in Seq(Nat), Len(signal) <= Len(signal'),
         task' \in Seq(TaskType'), Len(task) <= Len(task'), DOMAIN task \subseteq DOMAIN task',
         batch' \in Seq(BatchType')
  PROVE  TypeOK'
<1>1. Packet \subseteq Packet'
  <2> DEFINE T == TaskType'
  <2>1. task' \in Seq(T)
    OBVIOUS
  <2> HIDE DEF T
  <2>2. Len(task') \in Nat /\ Len(signal') \in Nat
    BY <2>1
  <2> QED
    BY <2>2, PacketsGrow, ListTypes DEF ListsTyped
<1>2. /\ ring \in [Queue -> [0..(QueueSize - 1) -> Packet \cup {NoPacket}]]
      /\ running \in [Queue -> SUBSET Packet]
  BY DEF TypeOK
<1>3. /\ ring \in [Queue -> [0..(QueueSize - 1) -> Packet' \cup {NoPacket}]]
      /\ running \in [Queue -> SUBSET Packet']
  BY <1>1, <1>2
<1> QED
  BY <1>3 DEF TypeOK, Queue, TaskType, BatchType

(* The packet of the kernel t, and the steps of a call that writes it.      *)
LEMMA NewPacket ==
  ASSUME TypeOK, NEW t \in 1..Len(task'), NEW s \in 0..Len(signal'),
         NEW pk, pk = KernelPacket(t, s), NEW q \in Queue
  PROVE  /\ pk \in Packet'
         /\ pk.type = "kernel" /\ pk.task = t /\ pk.sig = s /\ pk.deps = {}
         /\ pk.barrier <=> kind = "ordered"
         /\ LET a == <<PutStep(q, pk)>>
                b == <<PutStep(q, pk), RingStep(q)>>
            IN  /\ a \in Seq(Step') /\ DOMAIN a = {1} /\ a[1].do = "put" /\ a[1].q = q
                /\ a[1].packet = pk
                /\ b \in Seq(Step') /\ DOMAIN b = {1, 2} /\ b[1].do = "put" /\ b[1].q = q
                /\ b[1].packet = pk
                /\ b[2].do = "ring"
<1>1. pk = [type |-> "kernel", task |-> t, sig |-> s, deps |-> {}, barrier |-> kind = "ordered"]
  BY DEF KernelPacket
<1>a. PICK bit \in BOOLEAN : bit = (kind = "ordered")
  BY Zenon
<1>b. pk = [type |-> "kernel", task |-> t, sig |-> s, deps |-> {}, barrier |-> bit]
  BY <1>1, <1>a, Zenon
<1> HIDE <1>a
<1>2. pk \in Packet'
  <2>1. pk \in [type : {"kernel"}, task : 1..Len(task'), sig : 0..Len(signal'),
                deps : {{}}, barrier : BOOLEAN]
    BY <1>b
  <2> QED
    BY <2>1 DEF Packet
<1>3. /\ pk.type = "kernel" /\ pk.task = t /\ pk.sig = s /\ pk.deps = {}
      /\ pk.barrier = bit
  BY <1>b
<1>3b. pk.barrier <=> kind = "ordered"
  BY <1>3, <1>a, Zenon
<1>4. /\ PutStep(q, pk) \in Step' /\ RingStep(q) \in Step'
      /\ PutStep(q, pk).do = "put" /\ PutStep(q, pk).q = q /\ PutStep(q, pk).packet = pk
      /\ RingStep(q).do = "ring"
  BY <1>2 DEF Step, PutStep, RingStep, Queue
<1> HIDE DEF PutStep
<1>5. ASSUME NEW x \in Step', NEW y \in Step'
      PROVE  /\ <<x>> \in Seq(Step') /\ DOMAIN <<x>> = {1} /\ <<x>>[1] = x
             /\ <<x, y>> \in Seq(Step') /\ DOMAIN <<x, y>> = {1, 2}
             /\ <<x, y>>[1] = x /\ <<x, y>>[2] = y
  <2> DEFINE S == Step'
  <2>1. x \in S /\ y \in S
    OBVIOUS
  <2> HIDE DEF S
  <2>2. <<x>> \in Seq(S) /\ <<x, y>> \in Seq(S)
    BY <2>1
  <2> QED
    BY <2>2 DEF S
<1> QED
  BY <1>2, <1>3, <1>3b, <1>4, <1>5

LEMMA TaskAdded ==
  ASSUME TypeOK, signal' \in Seq(Nat), Len(signal) <= Len(signal'),
         Len(batch') = Len(batch),
         NEW k \in Kernel, NEW b \in 0..Len(batch), NEW s \in 0..Len(signal'),
         task' = Append(task, NewTask(k, b, s))
  PROVE  /\ task' \in Seq(TaskType')
         /\ Len(task') = Len(task) + 1
         /\ DOMAIN task' = 1..(Len(task) + 1)
         /\ \A u \in DOMAIN task : task'[u] = task[u]
         /\ LET t == Len(task) + 1
            IN task'[t].batch = b /\ task'[t].sig = s
<1> DEFINE new == NewTask(k, b, s)
           T == TaskType'
<1>1. Len(batch) \in Nat
  BY ListTypes DEF ListsTyped
<1>2. TaskType \subseteq T
  BY <1>1, TypesGrow
<1>3. new \in T /\ new.batch = b /\ new.sig = s
  BY DEF NewTask, TaskType
<1>4. task \in Seq(T)
  <2>1. task \in Seq(TaskType)
    BY DEF TypeOK, TaskType
  <2> QED
    BY <1>2, <2>1
<1> HIDE DEF new, T
<1>5. task' = Append(task, new)
  BY DEF new
<1> QED
  BY <1>3, <1>4, <1>5 DEF T

(* A kernel packet written by the call that hands the kernel over.          *)
OrderedCall(k, b, s, t, pk) ==
  /\ kind = "ordered" /\ CanHandOver
  /\ k \in Kernel /\ b \in 0..Len(batch) /\ (b # 0 => batch[b].open)
  /\ task' = Append(task, NewTask(k, b, s))
  /\ t = Len(task) + 1 /\ pk = KernelPacket(t, s)
  /\ todo' = <<PutStep(0, pk)>> \/ todo' = <<PutStep(0, pk), RingStep(0)>>
  /\ UNCHANGED callSame
  /\ \/ s = Len(signal) + 1 /\ b = 0 /\ signal' = Append(signal, 1) /\ UNCHANGED batch
     \/ s = NullSignal /\ UNCHANGED <<signal, batch>>
     \/ /\ b # 0 /\ s = batch[b].final /\ UNCHANGED signal
        /\ batch' = [batch EXCEPT ![b].open = FALSE]

LEMMA OrderedCallPreserves ==
  ASSUME MaxUnread <= QueueSize, IInv,
         NEW k, NEW b, NEW s, NEW t, NEW pk, OrderedCall(k, b, s, t, pk)
  PROVE  IInv'
<1>1. /\ TypeOK /\ RingInv /\ TodoInv /\ OnceInv /\ LinkInv /\ OwnerInv /\ SignalInv
      /\ PacketsTyped /\ ListsTyped /\ OrderInv
  BY PacketTypes, ListTypes DEF IInv
<1>2. /\ UNCHANGED <<kind, ring, hsaWrite, readIndex, doorbell, running, mWriteIndex, mCurrQid, done>>
      /\ todo = <<>> /\ DOMAIN todo = {}
      /\ \A q \in Queue : Unread(q) < MaxUnread
  BY DEF OrderedCall, callSame, CanHandOver, CanCall
<1>h. /\ kind = "ordered"
      /\ k \in Kernel /\ b \in 0..Len(batch) /\ (b # 0 => batch[b].open)
      /\ task' = Append(task, NewTask(k, b, s))
      /\ t = Len(task) + 1 /\ pk = KernelPacket(t, s)
      /\ todo' = <<PutStep(0, pk)>> \/ todo' = <<PutStep(0, pk), RingStep(0)>>
  BY DEF OrderedCall
<1>s. \/ s = Len(signal) + 1 /\ b = 0 /\ signal' = Append(signal, 1) /\ UNCHANGED batch
      \/ s = NullSignal /\ UNCHANGED <<signal, batch>>
      \/ /\ b # 0 /\ s = batch[b].final /\ UNCHANGED signal
         /\ batch' = [batch EXCEPT ![b].open = FALSE]
  BY DEF OrderedCall
<1> HIDE <1>h, <1>s
<1>3. /\ signal' \in Seq(Nat) /\ Len(signal) <= Len(signal') /\ s \in 0..Len(signal')
      /\ \A x \in DOMAIN signal : signal'[x] = signal[x]
  <2>1. signal \in Seq(Nat) /\ Len(signal) \in Nat /\ DOMAIN signal = 1..Len(signal)
    BY <1>1 DEF ListsTyped, TypeOK
  <2>2. CASE s = Len(signal) + 1 /\ signal' = Append(signal, 1)
    BY <2>1, <2>2
  <2>3. CASE s = NullSignal /\ signal' = signal
    BY <2>1, <2>3 DEF NullSignal
  <2>4. CASE b # 0 /\ s = batch[b].final /\ signal' = signal
    <3>1. batch[b].final \in DOMAIN signal
      BY <1>1, <1>h, <2>4 DEF ListsTyped
    <3> QED
      BY <2>1, <2>4, <3>1
  <2> QED
    BY <1>s, <2>2, <2>3, <2>4
<1>4. batch \in Seq(BatchType) /\ batch' \in Seq(BatchType) /\ Len(batch') = Len(batch)
      /\ DOMAIN batch' = DOMAIN batch
  <2>1. batch \in Seq(BatchType)
    BY <1>1 DEF TypeOK, BatchType
  <2>2. CASE batch' = batch
    BY <2>1, <2>2
  <2>3. CASE b # 0 /\ batch' = [batch EXCEPT ![b].open = FALSE]
    <3> DEFINE new == [batch[b] EXCEPT !.open = FALSE]
    <3>1. b \in DOMAIN batch
      BY <1>1, <1>h, <2>3 DEF ListsTyped
    <3>2. new \in BatchType
      <4>1. batch[b] \in BatchType
        BY <2>1, <3>1
      <4> QED
        BY <4>1 DEF BatchType
    <3>3. batch' = [batch EXCEPT ![b] = new]
      BY <2>3
    <3> HIDE DEF new
    <3> QED
      BY <2>1, <3>1, <3>2, <3>3
  <2> QED
    BY <1>s, <2>2, <2>3
<1>5. ASSUME NEW c \in DOMAIN batch
      PROVE  /\ batch'[c].perQ = batch[c].perQ
             /\ batch'[c].final = batch[c].final
             /\ batch'[c].dep = batch[c].dep
             /\ ~batch[c].open => ~batch'[c].open
             /\ c # b => batch'[c].open = batch[c].open
             /\ batch[c].open /\ ~batch'[c].open => c = b /\ s = batch[c].final /\ b # 0
  <2>3. batch[c] \in BatchType
    BY <1>4
  <2>4. CASE batch' = batch
    BY <2>4
  <2>5. CASE b # 0 /\ s = batch[b].final /\ batch' = [batch EXCEPT ![b].open = FALSE]
    <3>1. c # b => batch'[c] = batch[c]
      BY <2>5
    <3>2. c = b => batch'[c] = [batch[c] EXCEPT !.open = FALSE]
      BY <2>5
    <3> QED
      BY <2>3, <2>5, <3>1, <3>2 DEF BatchType
  <2> QED
    BY <1>s, <2>4, <2>5
<1>6. /\ task' \in Seq(TaskType') /\ Len(task') = t /\ DOMAIN task' = 1..t
      /\ t \in Nat /\ Len(task) + 1 = t /\ t \notin DOMAIN task /\ t \in 1..t
      /\ DOMAIN task \subseteq DOMAIN task'
      /\ DOMAIN task' = DOMAIN task \cup {t}
      /\ \A u \in DOMAIN task : task'[u] = task[u]
      /\ task'[t].batch = b /\ task'[t].sig = s
  <2>1. /\ task' \in Seq(TaskType') /\ Len(task') = t /\ DOMAIN task' = 1..t
        /\ \A u \in DOMAIN task : task'[u] = task[u]
        /\ task'[t].batch = b /\ task'[t].sig = s
    BY <1>1, <1>h, <1>3, <1>4, TaskAdded
  <2> QED
    BY <1>1, <1>h, <2>1 DEF ListsTyped
<1>7. TypeOK'
  <2>1. BatchType \subseteq BatchType'
    BY <1>1, <1>3, <1>4, TypesGrow DEF ListsTyped
  <2>2. batch' \in Seq(BatchType')
    BY <1>4, <2>1
  <2>3. Len(task) <= Len(task')
    BY <1>1, <1>6 DEF ListsTyped
  <2>4. mCurrQid' \in Queue
    BY <1>1, <1>2 DEF TypeOK
  <2> QED
    BY <1>1, <1>2, <1>3, <1>6, <2>2, <2>3, <2>4, TypeGrows
<1>8. /\ pk \in Packet'
      /\ pk.type = "kernel" /\ pk.task = t /\ pk.sig = s /\ pk.deps = {}
      /\ pk.barrier <=> kind = "ordered"
      /\ todo' \in Seq(Step') /\ 1 \in DOMAIN todo' /\ todo'[1].do = "put" /\ todo'[1].q = 0
      /\ todo'[1].packet = pk
      /\ \A i \in DOMAIN todo' : i # 1 => todo'[i].do = "ring"
  <2>1. t \in 1..Len(task') /\ 0 \in Queue
    BY <1>6, QueueFacts
  <2>2. /\ pk \in Packet'
        /\ pk.type = "kernel" /\ pk.task = t /\ pk.sig = s /\ pk.deps = {}
        /\ pk.barrier <=> kind = "ordered"
        /\ LET x == <<PutStep(0, pk)>>
               y == <<PutStep(0, pk), RingStep(0)>>
           IN  /\ x \in Seq(Step') /\ DOMAIN x = {1} /\ x[1].do = "put" /\ x[1].q = 0
               /\ x[1].packet = pk
               /\ y \in Seq(Step') /\ DOMAIN y = {1, 2} /\ y[1].do = "put" /\ y[1].q = 0
               /\ y[1].packet = pk
               /\ y[2].do = "ring"
    BY <1>1, <1>h, <1>3, <2>1, NewPacket
  <2>3. CASE todo' = <<PutStep(0, pk)>>
    BY <2>2, <2>3
  <2>4. CASE todo' = <<PutStep(0, pk), RingStep(0)>>
    BY <2>2, <2>4
  <2> QED
    BY <1>h, <2>3, <2>4
<1>9. ASSUME NEW p \in PacketsOf
      PROVE  p.sig \in 0..Len(signal) /\ (p.type = "kernel" => p.task # t)
  <2>1. p \in Packet
    BY <1>1 DEF PacketsTyped
  <2>2. p.sig \in 0..Len(signal) /\ (p.type = "kernel" => p.task \in 1..Len(task))
    BY <2>1, PacketFields
  <2> QED
    BY <1>1, <1>6, <2>2 DEF ListsTyped
<1>10. ASSUME NEW c \in DOMAIN batch
       PROVE  s \notin Range(batch[c].perQ)
  <2>1. /\ Len(signal) \in Nat /\ DOMAIN signal = 1..Len(signal)
        /\ batch[c].perQ \in Seq(DOMAIN signal)
    BY <1>1 DEF ListsTyped
  <2>2. \A x \in Range(batch[c].perQ) : x \in 1..Len(signal)
    BY <2>1 DEF Range
  <2>3. CASE b # 0 /\ s = batch[b].final
    <3>1. b \in DOMAIN batch
      BY <1>1, <1>h, <2>3 DEF ListsTyped
    <3> QED
      BY <1>1, <2>3, <3>1 DEF OwnerInv
  <2>4. CASE s = Len(signal) + 1 \/ s = NullSignal
    BY <2>1, <2>2, <2>4 DEF NullSignal
  <2> QED
    BY <1>s, <2>3, <2>4
<1>11. HandOver(t, 0, pk)
  <2>1. 0 \in Queue /\ hsaWrite[0] - readIndex[0] < QueueSize
    <3>1. Unread(0) < MaxUnread /\ 0 \in Queue
      BY <1>2, QueueFacts
    <3>2. hsaWrite[0] \in Nat /\ readIndex[0] \in Nat /\ MaxUnread \in Nat /\ QueueSize \in Nat
      BY <1>1, <3>1, BoundAssumption, SizeAssumption DEF TypeOK
    <3> QED
      BY <3>1, <3>2 DEF Unread
  <2>2. ASSUME NEW c \in DOMAIN batch, task'[t].batch = c
        PROVE  batch[c].open
    <3>1. c = b /\ b # 0
      BY <1>1, <1>6, <2>2 DEF ListsTyped
    <3> QED
      BY <1>h, <3>1
  <2>3. \A u \in DOMAIN task :
          /\ u # t => task'[u] = task[u]
          /\ task'[u].batch = task[u].batch
    BY <1>6
  <2>4. \A i \in DOMAIN todo :
          /\ todo[i].do # "put"
          /\ todo[i].do # "batch"
          /\ todo[i].do = "pick" => todo[i].task = t
    BY <1>2
  <2> QED
    BY <1>h, <1>2, <1>3, <1>4, <1>5, <1>6, <1>8, <1>9, <1>10, <2>1, <2>2, <2>3, <2>4 DEF HandOver
<1>12. PacketsOf' = PacketsOf \cup {pk} /\ pk \notin PacketsOf
  BY <1>7, <1>11, HandOverPackets
<1>13. Linked(pk)'
  <2>1. ASSUME NEW c \in DOMAIN batch', pk.sig = batch'[c].final
        PROVE  ~batch'[c].open
    <3>1. c \in DOMAIN batch /\ batch'[c].final = batch[c].final /\ batch[c].final \in 1..Len(signal)
      BY <1>1, <1>4, <1>5 DEF ListsTyped
    <3>2. b # 0 /\ s = batch[b].final /\ batch' = [batch EXCEPT ![b].open = FALSE]
      BY <1>1, <1>s, <1>8, <2>1, <3>1 DEF NullSignal, ListsTyped
    <3>3. b \in DOMAIN batch
      BY <1>1, <1>h, <3>2 DEF ListsTyped
    <3>4. c = b
      <4>1. batch[c].final = batch[b].final
        BY <1>8, <2>1, <3>1, <3>2
      <4> QED
        BY <1>1, <3>1, <3>3, <4>1 DEF OwnerInv
    <3>5. batch[b] \in BatchType
      BY <1>4, <3>3
    <3> QED
      BY <3>2, <3>3, <3>4, <3>5 DEF BatchType
  <2> QED
    BY <1>h, <1>2, <1>6, <1>8, <2>1 DEF Linked
<1>14. SignalInv'
  <2>1. Exact(signal, PacketsOf, batch) /\ (SignalInv' <=> Exact(signal, PacketsOf, batch)')
    <3>1. SignalInv' <=> Exact(signal, PacketsOf, batch)'
      BY SignalInvIsExact, PTL
    <3> QED
      BY <1>1, <3>1, SignalInvIsExact
  <2>2. signal \in Seq(Nat) /\ Len(batch) \in Nat /\ DOMAIN batch = 1..Len(batch)
    BY <1>1 DEF TypeOK, ListsTyped
  <2>3. Exact(signal', PacketsOf', batch')
    <3>1. CASE s = Len(signal) + 1 /\ signal' = Append(signal, 1) /\ UNCHANGED batch
      <4>1. Exact(Append(signal, 1), PacketsOf \cup {pk}, batch)
        <5>1. pk.sig = Len(signal) + 1
          BY <1>8, <3>1
        <5>2. \A p \in PacketsOf : p.sig \in 0..Len(signal)
          BY <1>9
        <5>3. \A c \in DOMAIN batch : batch[c].final \in DOMAIN signal
          BY <1>1 DEF ListsTyped
        <5> QED
          BY <2>1, <2>2, <5>1, <5>2, <5>3, ExactFresh
      <4> QED
        BY <1>12, <3>1, <4>1
    <3>2. CASE s = NullSignal /\ UNCHANGED <<signal, batch>>
      <4>1. \A p : p.sig # 0 => (p \in PacketsOf <=> p \in PacketsOf \cup {pk})
        BY <1>8, <3>2 DEF NullSignal
      <4>2. Exact(signal, PacketsOf \cup {pk}, batch)
        BY <2>1, <2>2, <4>1, ExactNull
      <4> QED
        BY <1>12, <3>2, <4>2
    <3>3. CASE /\ b # 0 /\ s = batch[b].final /\ UNCHANGED signal
               /\ batch' = [batch EXCEPT ![b].open = FALSE]
      <4>1. b \in DOMAIN batch /\ batch[b].open
        BY <1>h, <2>2, <3>3
      <4>2. ~batch'[b].open
        <5>1. batch[b] \in BatchType
          BY <1>4, <4>1
        <5> QED
          BY <3>3, <4>1, <5>1 DEF BatchType
      <4>3. DOMAIN batch' = DOMAIN batch /\ IsFiniteSet(DOMAIN batch)
        BY <1>4, <2>2, FS_Interval
      <4>4. \E c \in DOMAIN batch :
              /\ batch[c].open /\ pk.sig = batch[c].final /\ ~batch'[c].open
              /\ \A d \in DOMAIN batch : batch'[d].final = batch[d].final
                                            /\ (d # c => batch'[d].open = batch[d].open)
        <5>1. pk.sig = batch[b].final
          BY <1>8, <3>3
        <5>2. \A d \in DOMAIN batch : batch'[d].final = batch[d].final
                                         /\ (d # b => batch'[d].open = batch[d].open)
          BY <1>5
        <5> QED
          BY <4>1, <4>2, <5>1, <5>2
      <4>5. Exact(signal, PacketsOf \cup {pk}, batch')
        BY <1>12, <2>1, <2>2, <4>3, <4>4, ExactClose
      <4> QED
        BY <1>12, <3>3, <4>5
    <3> QED
      BY <1>s, <3>1, <3>2, <3>3
  <2> QED
    BY <2>1, <2>3
<1> QED
  BY <1>7, <1>11, <1>13, <1>14, HandOverPreserves

(* A step that changes only what the invariant does not speak of.           *)
LEMMA QuietStep ==
  ASSUME IInv,
         UNCHANGED <<kind, ring, hsaWrite, readIndex, signal, running, todo, task, done, batch>>,
         doorbell' \in [Queue -> Int], mWriteIndex' \in [Queue -> Nat], mCurrQid' \in Queue
  PROVE  IInv'
<1>1. /\ TypeOK /\ RingInv /\ TodoInv /\ OnceInv /\ LinkInv /\ OwnerInv /\ SignalInv
      /\ NothingLost /\ DepInv /\ ClosedInv /\ OrderInv
  BY DEF IInv
<1>2. Queue' = Queue /\ Packet' = Packet
  BY DEF Queue, Packet
<1>3. Step' = Step
  BY <1>2 DEF Step
<1>4. TypeOK'
  BY <1>1, <1>2 DEF TypeOK
<1>5. PacketsOf' = PacketsOf
  BY DEF PacketsOf, Asked, Pending, Queue
<1>6. Running' = Running
  BY DEF Running, Queue
<1>7. RingInv'
  BY <1>1, <1>2 DEF RingInv, Index
<1>8. TodoInv'
  BY <1>1, <1>2, <1>3, <1>5 DEF TodoInv, Unread
<1>9. OnceInv'
  BY <1>1, <1>2 DEF OnceInv, Pending
<1>10. LinkInv'
  BY <1>1, <1>2, <1>5 DEF LinkInv, Linked, Fitting
<1>11. OwnerInv'
  BY <1>1 DEF OwnerInv
<1>12. SignalInv'
  BY <1>1, <1>5 DEF SignalInv, SignalsExact, Owing
<1>13. NothingLost'
  BY <1>1, <1>5 DEF NothingLost
<1>14. DepInv'
  <2>1. \A r, s, b : Guarded(r, s, b)' <=> Guarded(r, s, b)
    BY DEF Guarded, Index
  <2>2. DependentBatchWaits'
    BY <1>1, <1>6 DEF DepInv, DependentBatchWaits
  <2>3. \A b \in DOMAIN batch' : \A q \in Queue' :
          batch'[b].dep # NullSignal => Guarded(q, batch[b].dep, b)'
    BY <1>1, <1>2, <2>1 DEF DepInv
  <2>4. ASSUME NEW i \in DOMAIN todo', NEW q \in Queue',
               todo'[i].do = "batch", todo'[i].dep # NullSignal
        PROVE  \/ Guarded(q, todo[i].dep, Len(batch) + 1)'
               \/ \E j \in DOMAIN todo' :
                    /\ j < i
                    /\ todo'[j].do = "put"
                    /\ todo'[j].q = q
                    /\ todo'[j].packet.type = "barrier"
                    /\ todo'[i].dep \in todo'[j].packet.deps
    <3>1. \/ Guarded(q, todo[i].dep, Len(batch) + 1)
          \/ \E j \in DOMAIN todo :
               /\ j < i
               /\ todo[j].do = "put"
               /\ todo[j].q = q
               /\ todo[j].packet.type = "barrier"
               /\ todo[i].dep \in todo[j].packet.deps
      BY <1>1, <1>2, <2>4 DEF DepInv
    <3>2. CASE Guarded(q, todo[i].dep, Len(batch) + 1)
      BY <3>2 DEF Guarded, Index
    <3> QED
      BY <3>1, <3>2
  <2> QED
    BY <2>2, <2>3, <2>4 DEF DepInv
<1>15. ClosedInv'
  BY <1>1, <1>5 DEF ClosedInv
<1>16. OrderInv'
  BY <1>1, <1>2 DEF OrderInv, Index
<1> QED
  BY <1>4, <1>7, <1>8, <1>9, <1>10, <1>11, <1>12, <1>13, <1>14, <1>15, <1>16 DEF IInv

(* The packets of the device and the ring when no step writes a packet.     *)
LEMMA NoNewPackets ==
  ASSUME IInv, TypeOK', UNCHANGED <<ring, running>>,
         \A i \in DOMAIN todo : todo[i].do # "put",
         \A i \in DOMAIN todo' : todo'[i].do # "put"
  PROVE  PacketsOf' = PacketsOf
<1>1. \A p : InTodo(p)' <=> p \in {}
  BY DEF InTodo
<1>2. PacketsOf' = PacketsOf \cup {}
  BY <1>1, CallPackets
<1> QED
  BY <1>2

(* Packets that are nowhere else, or lower no signal, are written by a call *)
(* one at a time.                                                           *)
LEMMA OnceStays ==
  ASSUME IInv, UNCHANGED <<ring, running>>,
         \A i \in DOMAIN todo' : todo'[i].do = "put" /\ todo'[i].packet.sig # NullSignal =>
             /\ \A j \in DOMAIN todo' : todo'[j].do = "put" => j = i
             /\ todo'[i].packet \notin PacketsOf
  PROVE  OnceInv'
<1>1. OnceInv /\ Queue' = Queue
  BY DEF IInv, Queue
<1>2. \A r \in Queue : Pending(r)' = Pending(r) /\ Pending(r) \cup running[r] \subseteq PacketsOf
  BY DEF Pending, PacketsOf
<1>3. /\ \A r, s \in Queue : \A x, y \in 0..(QueueSize - 1) :
           ring'[r][x] # NoPacket /\ ring'[r][x].sig # NullSignal /\ ring'[r][x] = ring'[s][y]
             => r = s /\ x = y
      /\ \A r, s \in Queue : \A p \in running'[r] :
           p.sig # NullSignal => p \notin Pending(s)' /\ (p \in running'[s] => r = s)
  BY <1>1, <1>2 DEF OnceInv
<1>4. \A i \in DOMAIN todo' : todo'[i].do = "put" /\ todo'[i].packet.sig # NullSignal =>
          /\ \A j \in DOMAIN todo' : todo'[j].do = "put" => j = i
          /\ \A r \in Queue : todo'[i].packet \notin Pending(r)' \cup running'[r]
  BY <1>2
<1> QED
  BY <1>1, <1>3, <1>4 DEF OnceInv

(* A kernel handed over before its queue is picked.                         *)
PickStarted(k, b, t, use) ==
  /\ kind = "unordered" /\ CanHandOver
  /\ k \in Kernel /\ b \in 0..Len(batch) /\ (b # 0 => batch[b].open)
  /\ use \in {"launch", "forget", "batch"} /\ (use = "batch" <=> b # 0)
  /\ task' = Append(task, NewTask(k, b, NullSignal))
  /\ t = Len(task) + 1
  /\ todo' = <<PickStep(t, use, b)>>
  /\ UNCHANGED <<callSame, signal, batch>>

LEMMA PickStartPreserves ==
  ASSUME MaxUnread <= QueueSize, IInv,
         NEW k, NEW b, NEW t, NEW use, PickStarted(k, b, t, use)
  PROVE  IInv'
<1>1. /\ TypeOK /\ RingInv /\ OnceInv /\ LinkInv /\ OwnerInv /\ SignalInv /\ ClosedInv
      /\ NothingLost /\ DepInv /\ PacketsTyped /\ ListsTyped /\ KernelsAreTasks
  BY PacketTypes, ListTypes, KernelTasks DEF IInv
<1>2. /\ UNCHANGED <<kind, ring, hsaWrite, readIndex, doorbell, running, mWriteIndex,
                     mCurrQid, done, signal, batch>>
      /\ todo = <<>> /\ DOMAIN todo = {}
      /\ \A q \in Queue : Unread(q) < MaxUnread
      /\ Queue' = Queue /\ kind = "unordered"
  BY DEF PickStarted, callSame, CanHandOver, CanCall, Queue
<1>3. /\ k \in Kernel /\ b \in 0..Len(batch) /\ (b # 0 => batch[b].open)
      /\ use \in {"launch", "forget", "batch"} /\ (use = "batch" <=> b # 0)
      /\ task' = Append(task, NewTask(k, b, NullSignal))
      /\ t = Len(task) + 1
      /\ todo' = <<PickStep(t, use, b)>>
  BY DEF PickStarted
<1>4. /\ signal' \in Seq(Nat) /\ Len(signal) <= Len(signal')
      /\ NullSignal \in 0..Len(signal') /\ Len(batch') = Len(batch)
  BY <1>1, <1>2 DEF TypeOK, ListsTyped, NullSignal
<1>5. /\ task' \in Seq(TaskType') /\ Len(task') = t /\ DOMAIN task' = 1..t
      /\ t \in DOMAIN task' /\ t \notin DOMAIN task /\ Len(task) <= Len(task')
      /\ DOMAIN task' = DOMAIN task \cup {t}
      /\ \A u \in DOMAIN task : task'[u] = task[u]
      /\ task'[t].batch = b /\ task'[t].sig = NullSignal
  <2>1. /\ task' \in Seq(TaskType') /\ Len(task') = t /\ DOMAIN task' = 1..t
        /\ \A u \in DOMAIN task : task'[u] = task[u]
        /\ task'[t].batch = b /\ task'[t].sig = NullSignal
    BY <1>1, <1>3, <1>4, TaskAdded
  <2> QED
    BY <1>1, <1>3, <2>1 DEF ListsTyped
<1>6. TypeOK'
  <2>1. BatchType \subseteq BatchType' /\ batch \in Seq(BatchType)
    <3>1. Len(batch) <= Len(batch') /\ Len(batch') \in Nat
      BY <1>1, <1>4 DEF ListsTyped
    <3>2. BatchType \subseteq BatchType'
      BY <1>1, <1>4, <3>1, TypesGrow
    <3>3. batch \in Seq(BatchType)
      BY <1>1 DEF TypeOK, BatchType
    <3> QED
      BY <3>2, <3>3
  <2>2. batch' \in Seq(BatchType')
    BY <1>2, <2>1
  <2> QED
    BY <1>1, <1>2, <1>4, <1>5, <2>2, TypeGrows DEF TypeOK
<1>7. /\ todo' \in Seq(Step') /\ DOMAIN todo' = {1} /\ Len(todo') = 1
      /\ todo'[1].do = "pick" /\ todo'[1].task = t /\ todo'[1].use = use /\ todo'[1].batch = b
  <2>1. /\ PickStep(t, use, b) \in Step'
        /\ PickStep(t, use, b).do = "pick" /\ PickStep(t, use, b).task = t
        /\ PickStep(t, use, b).use = use /\ PickStep(t, use, b).batch = b
    BY <1>2, <1>3, <1>5 DEF PickStep, Step
  <2> DEFINE S == Step'
             x == PickStep(t, use, b)
  <2>2. x \in S /\ todo' = <<x>>
    BY <1>3, <2>1
  <2> HIDE DEF S, x
  <2>3. todo' \in Seq(S) /\ DOMAIN todo' = {1} /\ Len(todo') = 1 /\ todo'[1] = x
    BY <2>2
  <2> QED
    BY <2>1, <2>3 DEF S, x
<1>8. PacketsOf' = PacketsOf
  BY <1>2, <1>6, <1>7, NoNewPackets
<1>9. Extends
  <2>1. \A p \in PacketsOf : p.type = "kernel" => task'[p.task] = task[p.task]
    BY <1>1, <1>5 DEF KernelsAreTasks
  <2> QED
    BY <1>2, <1>5, <2>1 DEF Extends
<1>10. RingInv'
  BY <1>1, <1>2 DEF RingInv, Index
<1>11. TodoInv'
  <2>1. ASSUME NEW q \in Queue
        PROVE  hsaWrite'[q] - readIndex'[q] < QueueSize
    <3>1. hsaWrite[q] \in Nat /\ readIndex[q] \in Nat /\ MaxUnread \in Nat /\ QueueSize \in Nat
      BY <1>1, BoundAssumption, SizeAssumption DEF TypeOK
    <3> QED
      BY <1>2, <3>1 DEF Unread
  <2>2. \A p \in PacketsOf : p.type = "kernel" => p.task # t
    BY <1>1, <1>5 DEF KernelsAreTasks
  <2> QED
    BY <1>2, <1>3, <1>5, <1>7, <1>8, <2>1, <2>2 DEF TodoInv, Unread
<1>12. OnceInv'
  BY <1>2, <1>7, OnceStays
<1>13. LinkInv'
  <2>1. \A p \in PacketsOf : Linked(p)'
    BY <1>2, <1>9, LinksStay
  <2> QED
    BY <1>1, <1>2, <1>8, <2>1 DEF LinkInv
<1>14. OwnerInv'
  <2>1. ASSUME NEW c \in DOMAIN batch
        PROVE  NullSignal \notin Range(batch[c].perQ)
    BY <1>1 DEF ListsTyped, Range, NullSignal
  <2>2. ASSUME NEW c \in DOMAIN batch, NEW u \in DOMAIN task'
        PROVE  task'[u].sig \notin Range(batch[c].perQ)
    BY <1>1, <1>5, <2>1 DEF OwnerInv
  <2> QED
    BY <1>1, <1>2, <1>7, <2>2 DEF OwnerInv
<1>15. SignalInv'
  BY <1>1, <1>2, <1>8 DEF SignalInv, SignalsExact, Owing
<1>16. NothingLost'
  <2> SUFFICES ASSUME NEW u \in DOMAIN task'
               PROVE  \/ u \in done'
                      \/ \E p \in PacketsOf' : p.type = "kernel" /\ p.task = u
                      \/ \E s \in Range(todo') : s.do = "pick" /\ s.task = u
    BY DEF NothingLost
  <2>1. todo'[1] \in Range(todo')
    BY <1>7 DEF Range
  <2>2. CASE u = t
    BY <1>7, <2>1, <2>2
  <2>3. CASE u # t
    <3>1. u \in DOMAIN task /\ Range(todo) = {}
      BY <1>2, <1>5, <2>3 DEF Range
    <3> QED
      BY <1>1, <1>2, <1>8, <3>1 DEF NothingLost
  <2> QED
    BY <2>2, <2>3
<1>17. DepInv'
  <2>1. /\ \A r \in Queue : \A c \in DOMAIN batch : \A s :
             s = batch[c].dep /\ s # NullSignal => Guarded(r, s, c)'
        /\ DependentBatchWaits'
    BY <1>9, DepsStay
  <2>2. ASSUME NEW c \in DOMAIN batch', NEW r \in Queue', batch'[c].dep # NullSignal
        PROVE  Guarded(r, batch[c].dep, c)'
    BY <1>2, <2>1, <2>2
  <2> QED
    BY <1>7, <2>1, <2>2 DEF DepInv
<1>18. ClosedInv'
  <2> SUFFICES ASSUME NEW c \in DOMAIN batch, ~batch[c].open, NumQs <= BarrierDeps
               PROVE  \/ \E p \in PacketsOf' : p.type = "barrier" /\ p.sig = batch[c].final
                      \/ \A u \in DOMAIN task' : task'[u].batch = c => u \in done
    BY <1>2 DEF ClosedInv
  <2>1. ASSUME NEW u \in DOMAIN task', task'[u].batch = c
        PROVE  u \in DOMAIN task /\ task[u].batch = c
    <3>1. c # 0
      BY <1>1 DEF ListsTyped
    <3>2. u # t
      BY <1>3, <1>5, <2>1, <3>1
    <3> QED
      BY <1>5, <2>1, <3>2
  <2> QED
    BY <1>1, <1>2, <1>8, <2>1 DEF ClosedInv
<1>19. OrderInv'
  BY <1>2 DEF OrderInv
<1> QED
  BY <1>6, <1>10, <1>11, <1>12, <1>13, <1>14, <1>15, <1>16, <1>17, <1>18, <1>19 DEF IInv

(* The queue q is picked for the kernel t of the batch b.                   *)
Picked(q, t, b, s, pk) ==
  /\ kind = "unordered" /\ q \in Queue /\ mCurrQid' = q
  /\ DOMAIN todo = {1} /\ todo[1].do = "pick" /\ todo[1].task = t
  /\ t \in DOMAIN task /\ task[t].batch = b /\ task[t].sig = NullSignal
  /\ Unread(q) < QueueSize
  /\ \A p \in PacketsOf : p.type = "kernel" => p.task # t
  /\ pk = KernelPacket(t, s)
  /\ todo' = <<PutStep(q, pk)>> \/ todo' = <<PutStep(q, pk), RingStep(q)>>
  /\ \/ /\ b = 0 /\ s = Len(signal) + 1 /\ signal' = Append(signal, 1)
        /\ task' = [task EXCEPT ![t].sig = s]
     \/ b = 0 /\ s = NullSignal /\ UNCHANGED <<signal, task>>
     \/ /\ b # 0 /\ s = batch[b].perQ[q + 1] /\ signal' = [signal EXCEPT ![s] = @ + 1]
        /\ UNCHANGED task
  /\ UNCHANGED <<kind, ring, hsaWrite, readIndex, doorbell, running, mWriteIndex, done, batch>>

LEMMA PickHappens ==
  ASSUME IInv, PickNext
  PROVE  \/ \E q \in Queue : \E t, b, s, pk : Picked(q, t, b, s, pk)
         \/ /\ mCurrQid' \in Queue
            /\ UNCHANGED <<kind, ring, hsaWrite, readIndex, doorbell, signal, running,
                           mWriteIndex, todo, task, done, batch>>
<1> DEFINE q == (mCurrQid + 1) % NumQs
           x == Head(todo)
           t == x.task
           b == x.batch
<1>1. todo # <<>> /\ x.do = "pick" /\ mCurrQid' = q
  BY DEF PickNext
<1>2. q \in Queue
  <2>1. mCurrQid \in Nat /\ NumQs \in Nat \ {0}
    BY QueueFacts DEF IInv, TypeOK
  <2> QED
    BY <2>1 DEF Queue
<1>3. TodoInv /\ TodoTyped /\ TypeOK
  BY TodoTypes DEF IInv
<1>4. 1 \in DOMAIN todo /\ todo[1] = x /\ DOMAIN todo = 1..Len(todo)
  BY <1>1, <1>3 DEF TodoTyped
<1>5. /\ Len(todo) = 1 /\ kind = "unordered"
      /\ task[t].batch = b /\ task[t].sig = NullSignal
      /\ x.use = "batch" <=> b # 0
      /\ Unread(q) < QueueSize
      /\ \A p \in PacketsOf : p.type = "kernel" => p.task # t
  BY <1>1, <1>2, <1>3, <1>4 DEF TodoInv
<1>6. t \in DOMAIN task
  BY <1>1, <1>3, <1>4, StepFields DEF TodoTyped
<1>7. DOMAIN todo = {1}
  BY <1>4, <1>5
<1>8. UNCHANGED <<kind, ring, hsaWrite, readIndex, doorbell, running, mWriteIndex, done, batch>>
  BY DEF PickNext
<1>9. CASE Full(q) /\ UNCHANGED <<signal, todo, task>>
  BY <1>1, <1>2, <1>8, <1>9
<1>10. CASE /\ x.use = "launch"
            /\ signal' = Append(signal, 1)
            /\ task' = [task EXCEPT ![t].sig = Len(signal')]
            /\ todo' = <<PutStep(q, KernelPacket(t, Len(signal'))), RingStep(q)>>
  <2>1. Len(signal') = Len(signal) + 1
    BY <1>3, <1>10 DEF TypeOK
  <2> HIDE DEF q, x, t, b
  <2>2. Picked(q, t, b, Len(signal) + 1, KernelPacket(t, Len(signal) + 1))
    BY <1>1, <1>2, <1>4, <1>5, <1>6, <1>7, <1>8, <1>10, <2>1 DEF Picked, t
  <2> QED
    BY <1>2, <2>2
<1>11. CASE /\ x.use = "forget"
            /\ todo' = <<PutStep(q, KernelPacket(t, NullSignal)), RingStep(q)>>
            /\ UNCHANGED <<signal, task>>
  <2> HIDE DEF q, x, t, b
  <2>2. Picked(q, t, b, NullSignal, KernelPacket(t, NullSignal))
    BY <1>1, <1>2, <1>4, <1>5, <1>6, <1>7, <1>8, <1>11 DEF Picked, t
  <2> QED
    BY <1>2, <2>2
<1>12. CASE /\ x.use = "batch"
            /\ signal' = Raised(batch[b].perQ[q + 1])
            /\ todo' = <<PutStep(q, KernelPacket(t, batch[b].perQ[q + 1]))>>
            /\ UNCHANGED task
  <2> HIDE DEF q, x, t, b
  <2>2. Picked(q, t, b, batch[b].perQ[q + 1], KernelPacket(t, batch[b].perQ[q + 1]))
    BY <1>1, <1>2, <1>4, <1>5, <1>6, <1>7, <1>8, <1>12 DEF Picked, t, Raised
  <2> QED
    BY <1>2, <2>2
<1> QED
  BY <1>9, <1>10, <1>11, <1>12 DEF PickNext

LEMMA PickedPreserves ==
  ASSUME IInv, NEW q, NEW b, NEW s, NEW t, NEW pk, Picked(q, t, b, s, pk)
  PROVE  IInv'
<1>1. /\ TypeOK /\ RingInv /\ TodoInv /\ OnceInv /\ LinkInv /\ OwnerInv /\ SignalInv
      /\ PacketsTyped /\ ListsTyped
  BY PacketTypes, ListTypes DEF IInv
<1>2. /\ UNCHANGED <<kind, ring, hsaWrite, readIndex, doorbell, running, mWriteIndex, done, batch>>
      /\ DOMAIN todo = {1} /\ todo[1].do = "pick" /\ todo[1].task = t
      /\ kind = "unordered" /\ q \in Queue /\ mCurrQid' = q
  BY DEF Picked
<1>h. /\ t \in DOMAIN task /\ task[t].batch = b /\ task[t].sig = NullSignal
      /\ Unread(q) < QueueSize
      /\ \A p \in PacketsOf : p.type = "kernel" => p.task # t
      /\ pk = KernelPacket(t, s)
      /\ todo' = <<PutStep(q, pk)>> \/ todo' = <<PutStep(q, pk), RingStep(q)>>
  BY DEF Picked
<1>s. \/ /\ b = 0 /\ s = Len(signal) + 1 /\ signal' = Append(signal, 1)
         /\ task' = [task EXCEPT ![t].sig = s]
      \/ b = 0 /\ s = NullSignal /\ UNCHANGED <<signal, task>>
      \/ /\ b # 0 /\ s = batch[b].perQ[q + 1] /\ signal' = [signal EXCEPT ![s] = @ + 1]
         /\ UNCHANGED task
  BY DEF Picked
<1> HIDE <1>h, <1>s
<1>d. /\ signal \in Seq(Nat) /\ Len(signal) \in Nat /\ DOMAIN signal = 1..Len(signal)
      /\ t \in 1..Len(task) /\ DOMAIN task = 1..Len(task) /\ Len(task) \in Nat
      /\ b \in 0..Len(batch) /\ DOMAIN batch = 1..Len(batch) /\ Len(batch) \in Nat
  BY <1>1, <1>h DEF TypeOK, ListsTyped
<1>b. b # 0 => /\ b \in DOMAIN batch
               /\ batch[b].perQ[q + 1] \in DOMAIN signal
               /\ batch[b].perQ[q + 1] \in Range(batch[b].perQ)
  <2> SUFFICES ASSUME b # 0
               PROVE  /\ b \in DOMAIN batch
                      /\ batch[b].perQ[q + 1] \in DOMAIN signal
                      /\ batch[b].perQ[q + 1] \in Range(batch[b].perQ)
    OBVIOUS
  <2>1. b \in DOMAIN batch
    BY <1>d
  <2>2. batch[b].perQ \in Seq(DOMAIN signal) /\ Len(batch[b].perQ) = NumQs
    BY <1>1, <1>2, <2>1 DEF ListsTyped, OwnerInv
  <2>3. q + 1 \in 1..NumQs
    BY <1>2, QueueFacts DEF Queue
  <2>4. q + 1 \in DOMAIN batch[b].perQ
    BY <2>2, <2>3
  <2> QED
    BY <2>1, <2>2, <2>4 DEF Range
<1>3. /\ signal' \in Seq(Nat) /\ Len(signal) <= Len(signal') /\ s \in 0..Len(signal')
      /\ \A x \in DOMAIN signal : x # s => signal'[x] = signal[x]
  <2>2. CASE s = Len(signal) + 1 /\ signal' = Append(signal, 1)
    BY <1>d, <2>2
  <2>3. CASE s = NullSignal /\ signal' = signal
    BY <1>d, <2>3 DEF NullSignal
  <2>4. CASE b # 0 /\ s = batch[b].perQ[q + 1] /\ signal' = [signal EXCEPT ![s] = @ + 1]
    <3>1. s \in DOMAIN signal /\ signal[s] + 1 \in Nat
      BY <1>b, <1>d, <2>4
    <3> QED
      BY <1>d, <2>4, <3>1
  <2> QED
    BY <1>s, <2>2, <2>3, <2>4
<1>6. /\ task' \in Seq(TaskType') /\ Len(task') = Len(task) /\ DOMAIN task' = DOMAIN task
      /\ \A u \in DOMAIN task : u # t => task'[u] = task[u]
      /\ task'[t].batch = b /\ (b # 0 => task'[t].sig = NullSignal)
      /\ task'[t].sig = s \/ task'[t].sig = NullSignal
      /\ task'[t].sig \in {NullSignal, Len(signal) + 1}
  <2>1. TaskType \subseteq TaskType'
    BY <1>1, <1>2, <1>3, <1>d, TypesGrow
  <2>2. task \in Seq(TaskType')
    <3>1. task \in Seq(TaskType)
      BY <1>1 DEF TypeOK, TaskType
    <3> QED
      BY <2>1, <3>1
  <2>3. CASE task' = task
    BY <1>h, <2>2, <2>3 DEF NullSignal
  <2>4. CASE b = 0 /\ s = Len(signal) + 1 /\ task' = [task EXCEPT ![t].sig = s]
    <3> DEFINE new == [task[t] EXCEPT !.sig = s]
               T == TaskType'
    <3>1. task[t] \in T
      BY <1>d, <2>2
    <3>2. new \in T /\ new.batch = b /\ new.sig = s
      BY <1>3, <1>h, <3>1 DEF TaskType
    <3>3. task' = [task EXCEPT ![t] = new]
      BY <2>4
    <3>4. task \in Seq(T)
      BY <2>2
    <3> HIDE DEF new, T
    <3>5. task' \in Seq(T) /\ Len(task') = Len(task) /\ DOMAIN task' = DOMAIN task
          /\ task'[t] = new /\ \A u \in DOMAIN task : u # t => task'[u] = task[u]
      BY <1>d, <3>2, <3>3, <3>4
    <3> QED
      BY <2>4, <3>2, <3>5 DEF T
  <2> QED
    BY <1>s, <2>3, <2>4
<1>7. TypeOK'
  <2>0. Len(batch) = Len(batch') /\ Len(task) <= Len(task')
    BY <1>2, <1>d, <1>6
  <2>1. BatchType \subseteq BatchType'
    BY <1>1, <1>3, <2>0, <1>d, TypesGrow
  <2>4. batch \in Seq(BatchType)
    BY <1>1 DEF TypeOK, BatchType
  <2>2. batch' \in Seq(BatchType')
    BY <1>2, <2>1, <2>4
  <2> QED
    BY <1>1, <1>2, <1>3, <1>6, <2>0, <2>2, TypeGrows
<1>8. /\ pk \in Packet'
      /\ pk.type = "kernel" /\ pk.task = t /\ pk.sig = s /\ pk.deps = {}
      /\ pk.barrier <=> kind = "ordered"
      /\ todo' \in Seq(Step') /\ 1 \in DOMAIN todo' /\ todo'[1].do = "put" /\ todo'[1].q = q
      /\ todo'[1].packet = pk
      /\ \A i \in DOMAIN todo' : i # 1 => todo'[i].do = "ring"
  <2>1. t \in 1..Len(task')
    BY <1>6, <1>d
  <2>2. /\ pk \in Packet'
        /\ pk.type = "kernel" /\ pk.task = t /\ pk.sig = s /\ pk.deps = {}
        /\ pk.barrier <=> kind = "ordered"
        /\ LET x == <<PutStep(q, pk)>>
               y == <<PutStep(q, pk), RingStep(q)>>
           IN  /\ x \in Seq(Step') /\ DOMAIN x = {1} /\ x[1].do = "put" /\ x[1].q = q
               /\ x[1].packet = pk
               /\ y \in Seq(Step') /\ DOMAIN y = {1, 2} /\ y[1].do = "put" /\ y[1].q = q
               /\ y[1].packet = pk
               /\ y[2].do = "ring"
    BY <1>1, <1>2, <1>h, <1>3, <2>1, NewPacket
  <2>3. CASE todo' = <<PutStep(q, pk)>>
    BY <2>2, <2>3
  <2>4. CASE todo' = <<PutStep(q, pk), RingStep(q)>>
    BY <2>2, <2>4
  <2> QED
    BY <1>h, <2>3, <2>4
<1>9. ASSUME NEW c \in DOMAIN batch
      PROVE  /\ task'[t].sig \notin Range(batch[c].perQ)
             /\ s # batch[c].final
             /\ b = 0 => s \notin Range(batch[c].perQ)
  <2>1. batch[c].perQ \in Seq(DOMAIN signal) /\ batch[c].final \in DOMAIN signal
    BY <1>1 DEF ListsTyped
  <2>2. \A x \in Range(batch[c].perQ) : x \in 1..Len(signal)
    <3> DEFINE sigs == batch[c].perQ
    <3>1. sigs \in Seq(DOMAIN signal)
      BY <2>1
    <3> HIDE DEF sigs
    <3>2. Range(sigs) \subseteq DOMAIN signal
      BY <3>1 DEF Range
    <3> QED
      BY <1>d, <3>2 DEF sigs
  <2>3. task'[t].sig \notin Range(batch[c].perQ)
    BY <1>6, <1>d, <2>2 DEF NullSignal
  <2>4. b = 0 => s = Len(signal) + 1 \/ s = NullSignal
    BY <1>s
  <2>7. ASSUME b = 0
        PROVE  s \notin Range(batch[c].perQ) /\ s # batch[c].final
    <3>1. s \notin 1..Len(signal)
      BY <1>d, <2>4, <2>7 DEF NullSignal
    <3>2. s \notin Range(batch[c].perQ)
      BY <2>2, <3>1
    <3>3. s # batch[c].final
      BY <1>d, <2>1, <3>1
    <3> QED
      BY <3>2, <3>3
  <2>6. b # 0 => s # batch[c].final
    <3>1. b # 0 => s \in Range(batch[b].perQ) /\ b \in DOMAIN batch
      BY <1>s, <1>b
    <3> QED
      BY <1>1, <3>1 DEF OwnerInv
  <2> QED
    BY <2>3, <2>6, <2>7
<1>11. HandOver(t, q, pk)
  <2>1. hsaWrite[q] - readIndex[q] < QueueSize
    BY <1>h DEF Unread
  <2>2. ASSUME NEW x \in DOMAIN signal, x \notin Shares, signal[x] = 0
        PROVE  signal'[x] = 0
    <3>1. x # s
      <4>1. CASE b = 0
        <5>1. s = Len(signal) + 1 \/ s = NullSignal
          BY <1>s, <4>1
        <5> QED
          BY <1>d, <5>1 DEF NullSignal
      <4>2. CASE b # 0
        BY <1>s, <1>b, <2>2, <4>2 DEF Shares
      <4> QED
        BY <4>1, <4>2
    <3> QED
      BY <1>3, <2>2, <3>1
  <2>3. \A u \in DOMAIN task :
          /\ u # t => task'[u] = task[u]
          /\ task'[u].batch = task[u].batch
    BY <1>6, <1>h
  <2>4. \A i \in DOMAIN todo :
          /\ todo[i].do # "put"
          /\ todo[i].do # "batch"
          /\ todo[i].do = "pick" => todo[i].task = t
    BY <1>2
  <2>5. DOMAIN task' = DOMAIN task \cup {t} /\ t \in DOMAIN task
    BY <1>6, <1>h
  <2>6. \A p \in PacketsOf : p.type = "kernel" => p.task # t
    BY <1>h
  <2> QED
    BY <1>2, <1>8, <1>9, <2>1, <2>2, <2>3, <2>4, <2>5, <2>6 DEF HandOver
<1>12. PacketsOf' = PacketsOf \cup {pk} /\ pk \notin PacketsOf
  BY <1>7, <1>11, HandOverPackets
<1>13. Linked(pk)'
  <2>1. ASSUME NEW c \in DOMAIN batch', pk.sig = batch'[c].final
        PROVE  FALSE
    BY <1>2, <1>8, <1>9, <2>1
  <2>2. task'[t].sig # NullSignal => s = task'[t].sig
    BY <1>6
  <2>3. task'[t].batch # 0 => s \in Range(batch[task'[t].batch].perQ)
    BY <1>6, <1>b, <1>s
  <2> QED
    BY <1>2, <1>8, <2>1, <2>2, <2>3 DEF Linked
<1>14. SignalInv'
  <2>1. Exact(signal, PacketsOf, batch) /\ (SignalInv' <=> Exact(signal, PacketsOf, batch)')
    <3>1. SignalInv' <=> Exact(signal, PacketsOf, batch)'
      BY SignalInvIsExact, PTL
    <3> QED
      BY <1>1, <3>1, SignalInvIsExact
  <2>2. signal \in Seq(Nat) /\ IsFiniteSet(DOMAIN batch)
    BY <1>d, FS_Interval
  <2>3. Exact(signal', PacketsOf', batch')
    <3>1. CASE s = Len(signal) + 1 /\ signal' = Append(signal, 1)
      <4>1. \A p \in PacketsOf : p.sig \in 0..Len(signal)
        BY <1>1, PacketFields DEF PacketsTyped
      <4>2. \A c \in DOMAIN batch : batch[c].final \in DOMAIN signal
        BY <1>1 DEF ListsTyped
      <4>3. pk.sig = Len(signal) + 1
        BY <1>8, <3>1
      <4>4. Exact(Append(signal, 1), PacketsOf \cup {pk}, batch)
        BY <2>1, <2>2, <4>1, <4>2, <4>3, ExactFresh
      <4> QED
        BY <1>2, <1>12, <3>1, <4>4
    <3>2. CASE s = NullSignal /\ signal' = signal
      <4>1. \A p : p.sig # 0 => (p \in PacketsOf <=> p \in PacketsOf \cup {pk})
        BY <1>8, <3>2 DEF NullSignal
      <4>2. Exact(signal, PacketsOf \cup {pk}, batch)
        BY <2>1, <2>2, <4>1, ExactNull
      <4> QED
        BY <1>2, <1>12, <3>2, <4>2
    <3>3. CASE b # 0 /\ s = batch[b].perQ[q + 1] /\ signal' = [signal EXCEPT ![s] = @ + 1]
      <4>1. pk.sig \in DOMAIN signal /\ pk.sig = s
        BY <1>8, <1>b, <3>3
      <4>2. Exact([signal EXCEPT ![pk.sig] = @ + 1], PacketsOf \cup {pk}, batch)
        BY <1>12, <2>1, <2>2, <4>1, ExactAdd
      <4> QED
        BY <1>2, <1>12, <3>3, <4>1, <4>2
    <3> QED
      BY <1>s, <3>1, <3>2, <3>3
  <2> QED
    BY <2>1, <2>3
<1> QED
  BY <1>7, <1>11, <1>13, <1>14, HandOverPreserves

-----------------------------------------------------------------------------
(* What is left to show of a step of the calling thread that leaves the     *)
(* device alone.                                                            *)
NewDeps ==
  /\ \A c \in DOMAIN batch' \ DOMAIN batch : \A r \in Queue : \A s :
       s = batch'[c].dep /\ s # NullSignal => Guarded(r, s, c)'
  /\ \A i \in DOMAIN todo' : \A r \in Queue : \A s, c :
       todo'[i].do = "batch" /\ s = todo'[i].dep /\ s # NullSignal /\ c = Len(batch') + 1 =>
         \/ Guarded(r, s, c)'
         \/ \E j \in DOMAIN todo' :
              /\ j < i
              /\ todo'[j].do = "put"
              /\ todo'[j].q = r
              /\ todo'[j].packet.type = "barrier"
              /\ s \in todo'[j].packet.deps

LEMMA DepsKept ==
  ASSUME IInv, Extends, NewDeps
  PROVE  DepInv'
<1>1. /\ \A r \in Queue : \A b \in DOMAIN batch : \A s :
           s = batch[b].dep /\ s # NullSignal => Guarded(r, s, b)'
      /\ DependentBatchWaits'
  BY DepsStay
<1>2. Queue' = Queue
  BY DEF Queue
<1>3. ASSUME NEW b \in DOMAIN batch', NEW r \in Queue', NEW s, s = batch'[b].dep, s # NullSignal
      PROVE  Guarded(r, s, b)'
  <2>1. CASE b \in DOMAIN batch
    <3>1. s = batch[b].dep
      BY <1>3, <2>1 DEF Extends
    <3> QED
      BY <1>1, <1>2, <1>3, <2>1, <3>1
  <2>2. CASE b \notin DOMAIN batch
    BY <1>2, <1>3, <2>2 DEF NewDeps
  <2> QED
    BY <2>1, <2>2
<1>4. ASSUME NEW i \in DOMAIN todo', NEW r \in Queue', NEW s, NEW c,
             todo'[i].do = "batch", s = todo'[i].dep, s # NullSignal, c = Len(batch') + 1
      PROVE  \/ Guarded(r, s, c)'
             \/ \E j \in DOMAIN todo' :
                  /\ j < i
                  /\ todo'[j].do = "put"
                  /\ todo'[j].q = r
                  /\ todo'[j].packet.type = "barrier"
                  /\ s \in todo'[j].packet.deps
  BY <1>2, <1>4 DEF NewDeps
<1> QED
  BY <1>1, <1>2, <1>3, <1>4 DEF DepInv

LEMMA HostStepPreserves ==
  ASSUME IInv, Extends, NewDeps, TypeOK', TodoInv', OnceInv', OwnerInv', SignalInv',
         NothingLost', ClosedInv', OrderInv',
         \A p \in PacketsOf' : Linked(p)'
  PROVE  IInv'
<1>1. RingInv'
  BY DEF IInv, Extends, RingInv, Index, Queue
<1>2. LinkInv'
  BY DEF IInv, Extends, LinkInv, Queue
<1>3. DepInv'
  BY DepsKept
<1> QED
  BY <1>1, <1>2, <1>3 DEF IInv

(* The first step of a call is taken from its list.                         *)
Shifted ==
  /\ 1 \in DOMAIN todo /\ todo[1] = Head(todo)
  /\ todo' \in Seq(Step)
  /\ DOMAIN todo' = 1..Len(todo') /\ Len(todo') \in Nat
  /\ \A i \in DOMAIN todo' :
       i \in Nat /\ i + 1 \in DOMAIN todo /\ i + 1 # 1 /\ todo'[i] = todo[i + 1]
  /\ \A i \in DOMAIN todo :
       i \in Nat /\ (i = 1 \/ (i - 1 \in DOMAIN todo' /\ todo'[i - 1] = todo[i]))
  /\ \A i \in DOMAIN todo : todo[i].do # "pick"

LEMMA Shifts ==
  ASSUME IInv, todo # <<>>, todo' = Tail(todo), Head(todo).do # "pick"
  PROVE  Shifted
<1> DEFINE S == Step
<1>1. TodoInv /\ todo \in Seq(S)
  BY DEF IInv, TodoInv
<1> HIDE DEF S
<1>2. /\ 1 \in DOMAIN todo /\ todo[1] = Head(todo)
      /\ todo' \in Seq(S)
      /\ DOMAIN todo = 1..Len(todo) /\ DOMAIN todo' = 1..Len(todo')
      /\ Len(todo') \in Nat /\ Len(todo) \in Nat
      /\ \A i \in DOMAIN todo' :
           i \in Nat /\ i + 1 \in DOMAIN todo /\ i + 1 # 1 /\ todo'[i] = todo[i + 1]
      /\ \A i \in DOMAIN todo :
           i \in Nat /\ (i = 1 \/ (i - 1 \in DOMAIN todo' /\ todo'[i - 1] = todo[i]))
  BY <1>1
<1>3. ASSUME NEW i \in DOMAIN todo, todo[i].do = "pick"
      PROVE  FALSE
  <2>1. Len(todo) = 1
    BY <1>1, <1>3 DEF TodoInv
  <2>2. i = 1
    BY <1>2, <2>1
  <2> QED
    BY <1>2, <1>3, <2>2
<1> QED
  BY <1>2, <1>3 DEF Shifted, S

LEMMA ShiftedSteps ==
  ASSUME IInv, Shifted, todo[1].do # "put", TypeOK', Extends,
         Len(task) <= Len(task'), Len(signal) <= Len(signal'), Len(batch) <= Len(batch')
  PROVE  PacketsOf' = PacketsOf /\ TodoInv' /\ OnceInv'
<1>1. TypeOK /\ TodoInv /\ OnceInv /\ TodoTyped /\ ListsTyped /\ PacketPlaces
      /\ UNCHANGED <<ring, hsaWrite, readIndex, running>> /\ Queue' = Queue
  BY TodoTypes, ListTypes, Places DEF IInv, Extends, Queue
<1>2. PacketPlaces' /\ ListsTyped'
  <2>1. TypeOK' => PacketPlaces'
    BY Places, PTL
  <2>2. TypeOK' => ListsTyped'
    BY ListTypes, PTL
  <2> QED
    BY <2>1, <2>2
<1>3. ASSUME NEW p
      PROVE  InTodo(p)' <=> InTodo(p)
  <2>1. InTodo(p)' => InTodo(p)
    BY DEF InTodo, Shifted
  <2>2. ASSUME InTodo(p)
        PROVE  InTodo(p)'
    <3>1. PICK i \in DOMAIN todo : todo[i].do = "put" /\ todo[i].packet = p
      BY <2>2 DEF InTodo
    <3>2. i - 1 \in DOMAIN todo' /\ todo'[i - 1] = todo[i]
      BY <3>1 DEF Shifted
    <3> QED
      BY <3>1, <3>2 DEF InTodo
  <2> QED
    BY <2>1, <2>2
<1>4. \A p : InRing(p)' <=> InRing(p)
  BY <1>1 DEF InRing
<1>5. PacketsOf' = PacketsOf
  <2>1. \A p : p \in PacketsOf' <=> p \in PacketsOf
    BY <1>1, <1>2, <1>3, <1>4 DEF PacketPlaces
  <2> QED
    BY <2>1
<1>6. todo' \in Seq(Step')
  <2>1. Step \subseteq Step'
    BY <1>1, <1>2, StepsGrow DEF ListsTyped, Extends
  <2> QED
    BY <2>1 DEF Shifted
<1>7. ASSUME NEW i \in DOMAIN todo'
      PROVE  /\ i \in Nat /\ i + 1 \in DOMAIN todo /\ todo'[i] = todo[i + 1]
             /\ todo'[i].do # "pick"
             /\ todo[i + 1].do = "batch" => i = Len(todo')
  <2>1. /\ i \in Nat /\ i + 1 \in DOMAIN todo /\ todo'[i] = todo[i + 1]
        /\ todo'[i].do # "pick"
    BY DEF Shifted
  <2>2. ASSUME todo[i + 1].do = "batch"
        PROVE  i = Len(todo')
    <3>1. i + 1 = Len(todo)
      BY <1>1, <2>1, <2>2 DEF TodoInv
    <3> QED
      BY <1>1, <2>1, <3>1 DEF Shifted, TodoTyped
  <2> QED
    BY <2>1, <2>2
<1>8. TodoInv'
  <2>1. ASSUME NEW i \in DOMAIN todo', todo'[i].do = "put"
        PROVE  /\ hsaWrite'[todo'[i].q] - readIndex'[todo'[i].q] < QueueSize
               /\ \A j \in DOMAIN todo' :
                    todo'[j].do = "put" /\ todo'[j].q = todo'[i].q => j = i
    <3>1. hsaWrite[todo'[i].q] - readIndex[todo'[i].q] < QueueSize
      BY <1>1, <1>7, <2>1 DEF TodoInv, Unread
    <3>2. ASSUME NEW j \in DOMAIN todo', todo'[j].do = "put", todo'[j].q = todo'[i].q
          PROVE  j = i
      <4>1. j + 1 = i + 1
        BY <1>1, <1>7, <2>1, <3>2 DEF TodoInv
      <4> QED
        BY <1>7, <4>1
    <3> QED
      BY <1>1, <3>1, <3>2
  <2> QED
    BY <1>6, <1>7, <2>1 DEF TodoInv, Unread
<1>9. OnceInv'
  <2>1. \A r \in Queue : Pending(r)' = Pending(r)
    BY <1>1 DEF Pending
  <2>2. ASSUME NEW i \in DOMAIN todo', todo'[i].do = "put", todo'[i].packet.sig # NullSignal
        PROVE  /\ \A j \in DOMAIN todo' : todo'[j].do = "put" => j = i
               /\ \A q \in Queue : todo'[i].packet \notin Pending(q) \cup running[q]
    <3>1. ASSUME NEW j \in DOMAIN todo', todo'[j].do = "put"
          PROVE  j = i
      <4>1. j + 1 = i + 1
        BY <1>1, <1>7, <2>2, <3>1 DEF OnceInv
      <4> QED
        BY <1>7, <4>1
    <3>2. todo[i + 1].packet = todo'[i].packet /\ i + 1 \in DOMAIN todo
          /\ todo[i + 1].do = "put"
      BY <1>7, <2>2
    <3> QED
      BY <1>1, <2>2, <3>1, <3>2 DEF OnceInv
  <2>3. /\ \A r, s \in Queue : \A x, y \in 0..(QueueSize - 1) :
             ring'[r][x] # NoPacket /\ ring'[r][x].sig # NullSignal /\ ring'[r][x] = ring'[s][y]
               => r = s /\ x = y
        /\ \A r, s \in Queue : \A p \in running'[r] :
             p.sig # NullSignal => p \notin Pending(s)' /\ (p \in running'[s] => r = s)
    BY <1>1, <2>1 DEF OnceInv
  <2> QED
    BY <1>1, <2>1, <2>2, <2>3 DEF OnceInv
<1> QED
  BY <1>5, <1>8, <1>9

LEMMA RingPreserves ==
  ASSUME IInv, RingNext
  PROVE  IInv'
<1>1. /\ TypeOK /\ TodoInv /\ OwnerInv /\ SignalInv /\ NothingLost /\ DepInv /\ ClosedInv
      /\ OrderInv /\ LinkInv /\ ListsTyped /\ TodoTyped
  BY TodoTypes, ListTypes DEF IInv
<1>2. /\ todo # <<>> /\ Head(todo).do = "ring" /\ todo' = Tail(todo)
      /\ Ring(Head(todo).q)
      /\ UNCHANGED <<kind, ring, hsaWrite, readIndex, signal, running,
                     mWriteIndex, mCurrQid, task, done, batch>>
      /\ Queue' = Queue
  BY DEF RingNext, Queue
<1>3. Shifted
  BY <1>2, Shifts
<1>4. Head(todo).q \in Queue
  <2>1. Head(todo) \in Step
    BY <1>1, <1>3 DEF Shifted, TodoTyped
  <2> QED
    BY <1>2, <2>1, StepFields
<1>5. doorbell' \in [Queue -> Int]
  BY <1>1, <1>2, <1>4 DEF TypeOK, Ring
<1>6. TypeOK'
  <2>1. Packet' = Packet
    BY <1>2 DEF Packet
  <2> QED
    BY <1>1, <1>2, <1>5, <2>1 DEF TypeOK
<1>7. Extends
  BY <1>2 DEF Extends
<1>8. PacketsOf' = PacketsOf /\ TodoInv' /\ OnceInv'
  BY <1>1, <1>2, <1>3, <1>6, <1>7, ShiftedSteps DEF ListsTyped, Shifted
<1>9. ASSUME NEW i \in DOMAIN todo'
      PROVE  i \in Nat /\ i + 1 \in DOMAIN todo /\ todo'[i] = todo[i + 1]
  BY <1>3 DEF Shifted
<1>10. OwnerInv'
  <2>1. ASSUME NEW b \in DOMAIN batch, NEW i \in DOMAIN todo', todo'[i].do = "batch"
        PROVE  todo'[i].dep \notin Range(batch[b].perQ)
    BY <1>1, <1>9, <2>1 DEF OwnerInv
  <2> QED
    BY <1>1, <1>2, <2>1 DEF OwnerInv
<1>11. SignalInv'
  BY <1>1, <1>2, <1>8 DEF SignalInv, SignalsExact, Owing
<1>12. NothingLost'
  <2>1. ASSUME NEW s \in Range(todo), s.do = "pick"
        PROVE  FALSE
    BY <1>3, <2>1 DEF Shifted, Range
  <2> QED
    BY <1>1, <1>2, <1>8, <2>1 DEF NothingLost
<1>13. ClosedInv'
  BY <1>1, <1>2, <1>8 DEF ClosedInv
<1>14. OrderInv'
  <2> SUFFICES ASSUME kind = "ordered"
               PROVE  OrderInv'
    BY <1>2 DEF OrderInv
  <2>1. ASSUME \A i \in DOMAIN todo' : todo'[i].do # "put"
        PROVE  \A i \in DOMAIN todo : todo[i].do # "put"
    <3> SUFFICES ASSUME NEW i \in DOMAIN todo
                 PROVE  todo[i].do # "put"
      OBVIOUS
    <3>1. CASE i = 1
      BY <1>2, <1>3, <3>1 DEF Shifted
    <3>2. CASE i # 1
      BY <1>3, <2>1, <3>2 DEF Shifted
    <3> QED
      BY <3>1, <3>2
  <2>2. Index(0)' = Index(0)
    BY <1>2 DEF Index
  <2> QED
    BY <1>1, <1>2, <1>9, <2>1, <2>2 DEF OrderInv
<1>15. \A p \in PacketsOf' : Linked(p)'
  BY <1>1, <1>2, <1>8 DEF LinkInv, Linked, Fitting
<1>16. NewDeps
  <2>1. ASSUME NEW i \in DOMAIN todo', NEW r \in Queue, NEW s, NEW c,
               todo'[i].do = "batch", s = todo'[i].dep, s # NullSignal, c = Len(batch') + 1
        PROVE  \/ Guarded(r, s, c)'
               \/ \E j \in DOMAIN todo' :
                    /\ j < i
                    /\ todo'[j].do = "put"
                    /\ todo'[j].q = r
                    /\ todo'[j].packet.type = "barrier"
                    /\ s \in todo'[j].packet.deps
    <3>1. i + 1 \in DOMAIN todo /\ todo[i + 1].do = "batch" /\ s = todo[i + 1].dep
      BY <1>9, <2>1
    <3>2. CASE Guarded(r, s, c)
      BY <1>2, <1>7, <3>2, GuardStays
    <3>3. CASE ~Guarded(r, s, c)
      <4>1. PICK j \in DOMAIN todo :
               /\ j < i + 1
               /\ todo[j].do = "put"
               /\ todo[j].q = r
               /\ todo[j].packet.type = "barrier"
               /\ s \in todo[j].packet.deps
        BY <1>1, <1>2, <2>1, <3>1, <3>3 DEF DepInv
      <4>2. j # 1
        BY <1>2, <1>3, <4>1 DEF Shifted
      <4>3. j - 1 \in DOMAIN todo' /\ todo'[j - 1] = todo[j] /\ j - 1 < i
        BY <1>3, <1>9, <4>1, <4>2 DEF Shifted
      <4> QED
        BY <4>1, <4>3
    <3> QED
      BY <3>2, <3>3
  <2> QED
    BY <1>2, <2>1 DEF NewDeps
<1> QED
  BY <1>6, <1>7, <1>8, <1>10, <1>11, <1>12, <1>13, <1>14, <1>15, <1>16, HostStepPreserves

(* The signals of a new batch: nothing lowers them yet, and the final one   *)
(* counts the open batch itself.                                            *)
LEMMA ExactBatch ==
  ASSUME NEW sig \in Seq(Nat), NEW P, NEW B, NEW new \in Seq(Nat), NEW C,
         Exact(sig, P, B),
         Len(sig) < Len(new),
         \A x \in 1..Len(sig) : new[x] = sig[x],
         \A x \in (Len(sig) + 1)..(Len(new) - 1) : new[x] = 0,
         new[Len(new)] = 1,
         \A p \in P : p.sig \in 0..Len(sig),
         \A b \in DOMAIN B : B[b].final \in 1..Len(sig) /\ C[b] = B[b],
         \E c : /\ c \notin DOMAIN B /\ DOMAIN C = DOMAIN B \cup {c}
                /\ C[c].open /\ C[c].final = Len(new)
  PROVE  Exact(new, P, C)
<1>1. PICK c : /\ c \notin DOMAIN B /\ DOMAIN C = DOMAIN B \cup {c}
               /\ C[c].open /\ C[c].final = Len(new)
  OBVIOUS
<1> SUFFICES ASSUME NEW s \in DOMAIN new
             PROVE  /\ IsFiniteSet({p \in P : p.sig = s})
                    /\ new[s] = Cardinality({p \in P : p.sig = s})
                                  + Cardinality(OpenWith(C, s))
  BY DEF Exact
<1> DEFINE N == {p \in P : p.sig = s}
           X == OpenWith(C, s)
<1>2. /\ Len(sig) \in Nat /\ Len(new) \in Nat /\ s \in 1..Len(new)
      /\ DOMAIN sig = 1..Len(sig)
  OBVIOUS
<1>3. IsFiniteSet({}) /\ Cardinality({}) = 0 /\ Cardinality({c}) = 1
  BY FS_EmptySet, FS_Singleton
<1>4. CASE s <= Len(sig)
  <2>1. s \in DOMAIN sig /\ new[s] = sig[s]
    BY <1>2, <1>4
  <2>2. X = OpenWith(B, s)
    BY <1>1, <1>2, <1>4 DEF OpenWith
  <2>3. IsFiniteSet(N) /\ sig[s] = Cardinality(N) + Cardinality(OpenWith(B, s))
    BY <2>1 DEF Exact
  <2> QED
    BY <2>1, <2>2, <2>3
<1>5. CASE s > Len(sig)
  <2>1. N = {}
    BY <1>2, <1>5
  <2>2. CASE s = Len(new)
    <3>1. X = {c}
      <4>1. \A b \in DOMAIN C : C[b].final = s => b = c
        <5> SUFFICES ASSUME NEW b \in DOMAIN B
                     PROVE  C[b].final # s
          BY <1>1
        <5>1. C[b].final \in 1..Len(sig)
          OBVIOUS
        <5> QED
          BY <1>2, <1>5, <5>1
      <4>2. c \in DOMAIN C /\ C[c].open /\ C[c].final = s
        BY <1>1, <2>2
      <4> QED
        BY <4>1, <4>2 DEF OpenWith
    <3>2. new[s] = 1
      BY <2>2
    <3> HIDE DEF N, X
    <3>3. IsFiniteSet(N) /\ new[s] = Cardinality(N) + Cardinality(X)
      BY <1>3, <2>1, <3>1, <3>2
    <3> QED
      BY <3>3 DEF N, X
  <2>3. CASE s # Len(new)
    <3>1. X = {}
      BY <1>1, <1>2, <1>5, <2>3 DEF OpenWith
    <3>2. new[s] = 0
      BY <1>2, <1>5, <2>3
    <3> HIDE DEF N, X
    <3>3. IsFiniteSet(N) /\ new[s] = Cardinality(N) + Cardinality(X)
      BY <1>3, <2>1, <3>1, <3>2
    <3> QED
      BY <3>3 DEF N, X
  <2> QED
    BY <2>2, <2>3
<1> QED
  BY <1>2, <1>4, <1>5

(* What BatchNext does.                                                     *)
BatchEffect(n, d, c) ==
  /\ n \in Nat /\ n = (IF kind = "ordered" THEN 0 ELSE NumQs)
  /\ d \in 0..Len(signal) /\ c = Len(batch) + 1 /\ c \notin DOMAIN batch
  /\ 1 \in DOMAIN todo /\ todo[1].do = "batch" /\ todo[1].dep = d
  /\ signal' \in Seq(Nat) /\ Len(signal') = Len(signal) + n + 1
  /\ \A x \in 1..Len(signal) : signal'[x] = signal[x]
  /\ \A x \in (Len(signal) + 1)..(Len(signal) + n) : signal'[x] = 0
  /\ signal'[Len(signal) + n + 1] = 1
  /\ batch' \in Seq(BatchType') /\ Len(batch') = c
  /\ DOMAIN batch' = DOMAIN batch \cup {c}
  /\ \A b \in DOMAIN batch : batch'[b] = batch[b]
  /\ batch'[c].final = Len(signal') /\ batch'[c].dep = d /\ batch'[c].open
  /\ Len(batch'[c].perQ) = n
  /\ \A x \in Range(batch'[c].perQ) : x > Len(signal) /\ x < Len(signal')

LEMMA BatchHappens ==
  ASSUME IInv, BatchNext
  PROVE  \E n, d, c : BatchEffect(n, d, c)
<1> DEFINE n == IF kind = "ordered" THEN 0 ELSE NumQs
           d == Head(todo).dep
           c == Len(batch) + 1
           L == Len(signal)
           add == BatchSignals(n)
           pq == [i \in 1..n |-> L + i]
           new == [perQ |-> pq, final |-> L + n + 1, dep |-> d, open |-> TRUE]
<1>1. /\ TypeOK /\ ListsTyped /\ TodoTyped
  BY TodoTypes, ListTypes DEF IInv
<1>2. /\ todo # <<>> /\ Head(todo).do = "batch" /\ todo' = Tail(todo)
      /\ signal' = signal \o add /\ batch' = Append(batch, new)
  BY DEF BatchNext
<1>3. Shifted
  BY <1>2, Shifts
<1>4. n \in Nat /\ L \in Nat /\ signal \in Seq(Nat) /\ DOMAIN signal = 1..L
  BY <1>1, QueueFacts DEF ListsTyped, TypeOK
<1>5. d \in 0..L /\ 1 \in DOMAIN todo /\ todo[1].do = "batch" /\ todo[1].dep = d
  <2>1. Head(todo) \in Step
    BY <1>1, <1>3 DEF Shifted, TodoTyped
  <2> QED
    BY <1>2, <1>3, <2>1, StepFields DEF Shifted
<1> HIDE DEF n, L
<1>6. /\ add \in Seq(Nat) /\ Len(add) = n + 1 /\ add[n + 1] = 1
      /\ \A i \in 1..n : add[i] = 0
  <2> DEFINE z == [i \in 1..n |-> 0]
  <2>1. z \in Seq(Nat) /\ Len(z) = n /\ \A i \in 1..n : z[i] = 0
    BY <1>4
  <2>2. add = z \o <<1>>
    BY DEF BatchSignals
  <2>3. <<1>> \in Seq(Nat) /\ Len(<<1>>) = 1 /\ <<1>>[1] = 1
    OBVIOUS
  <2> HIDE DEF z, add
  <2>4. /\ add \in Seq(Nat) /\ Len(add) = n + 1
        /\ \A i \in 1..n : add[i] = z[i]
        /\ add[n + 1] = 1
    BY <2>1, <2>2, <2>3, ConcatenateLists
  <2> QED
    BY <2>1, <2>4
<1> HIDE DEF add
<1>7. /\ signal' \in Seq(Nat) /\ Len(signal') = L + n + 1
      /\ \A x \in 1..L : signal'[x] = signal[x]
      /\ \A x \in (L + 1)..(L + n) : signal'[x] = 0
      /\ signal'[L + n + 1] = 1
  <2>1. /\ signal' \in Seq(Nat) /\ Len(signal') = L + n + 1
        /\ \A x \in 1..L : signal'[x] = signal[x]
        /\ \A i \in 1..(n + 1) : signal'[L + i] = add[i]
    BY <1>2, <1>4, <1>6, ConcatenateLists DEF L
  <2>2. signal'[L + (n + 1)] = 1
    BY <1>4, <1>6, <2>1
  <2>3. ASSUME NEW x \in (L + 1)..(L + n)
        PROVE  signal'[x] = 0
    <3>1. x - L \in 1..n /\ x - L \in 1..(n + 1) /\ x = L + (x - L)
      BY <1>4
    <3>2. signal'[L + (x - L)] = add[x - L]
      BY <2>1, <3>1
    <3> QED
      BY <1>6, <3>1, <3>2
  <2>4. L + (n + 1) = L + n + 1
    BY <1>4
  <2> QED
    BY <2>1, <2>2, <2>3, <2>4
<1>8. /\ pq \in Seq(1..(L + n + 1)) /\ Len(pq) = n
      /\ \A x \in Range(pq) : x > L /\ x < L + n + 1
  BY <1>4 DEF Range
<1>9. DOMAIN signal' = 1..(L + n + 1)
  BY <1>7
<1> HIDE DEF pq, d
<1>10. /\ new \in BatchType' /\ new.final = L + n + 1 /\ new.dep = d /\ new.open /\ new.perQ = pq
  BY <1>4, <1>5, <1>7, <1>8, <1>9 DEF BatchType
<1> HIDE DEF new
<1>11. /\ batch' \in Seq(BatchType') /\ Len(batch') = c /\ c \in Nat
       /\ DOMAIN batch = 1..Len(batch) /\ DOMAIN batch' = 1..c
       /\ \A b \in DOMAIN batch : batch'[b] = batch[b]
       /\ batch'[c] = new
  <2>1. batch \in Seq(BatchType)
    BY <1>1 DEF TypeOK, BatchType
  <2>2. BatchType \subseteq BatchType'
    <3>1. Len(batch') = Len(batch) + 1
      BY <1>2, <2>1
    <3> QED
      BY <1>1, <1>4, <1>7, <3>1, TypesGrow DEF ListsTyped, L
  <2> DEFINE T == BatchType'
  <2>3. batch \in Seq(T) /\ new \in T
    BY <1>10, <2>1, <2>2
  <2> HIDE DEF T
  <2>4. batch' \in Seq(T)
    BY <1>2, <2>3
  <2> QED
    BY <1>2, <2>3, <2>4 DEF T
<1>12. DOMAIN batch' = DOMAIN batch \cup {c} /\ c \notin DOMAIN batch
  BY <1>11
<1>13. BatchEffect(n, d, c)
  BY <1>4, <1>5, <1>7, <1>8, <1>10, <1>11, <1>12 DEF BatchEffect, L, n
<1> QED
  BY <1>13

LEMMA BatchPreserves ==
  ASSUME IInv, BatchNext
  PROVE  IInv'
<1>0. PICK n, d, c : BatchEffect(n, d, c)
  BY BatchHappens
<1>1. /\ TypeOK /\ TodoInv /\ OwnerInv /\ SignalInv /\ NothingLost /\ DepInv /\ ClosedInv
      /\ OrderInv /\ LinkInv /\ ListsTyped /\ PacketsTyped
  BY PacketTypes, ListTypes DEF IInv
<1>2. /\ todo # <<>> /\ Head(todo).do = "batch" /\ todo' = Tail(todo)
      /\ UNCHANGED <<kind, ring, hsaWrite, readIndex, doorbell, running,
                     mWriteIndex, mCurrQid, task, done>>
      /\ Queue' = Queue
  BY DEF BatchNext, Queue
<1>3. Shifted
  BY <1>2, Shifts
<1>4. /\ n \in Nat /\ n = (IF kind = "ordered" THEN 0 ELSE NumQs)
      /\ d \in 0..Len(signal) /\ c = Len(batch) + 1 /\ c \notin DOMAIN batch
      /\ 1 \in DOMAIN todo /\ todo[1].do = "batch" /\ todo[1].dep = d
      /\ batch' \in Seq(BatchType') /\ Len(batch') = c
      /\ DOMAIN batch' = DOMAIN batch \cup {c}
      /\ \A b \in DOMAIN batch : batch'[b] = batch[b]
      /\ batch'[c].final = Len(signal') /\ batch'[c].dep = d /\ batch'[c].open
      /\ Len(batch'[c].perQ) = n
      /\ \A x \in Range(batch'[c].perQ) : x > Len(signal) /\ x < Len(signal')
  BY <1>0 DEF BatchEffect
<1>5. /\ signal' \in Seq(Nat) /\ Len(signal') = Len(signal) + n + 1
      /\ \A x \in 1..Len(signal) : signal'[x] = signal[x]
      /\ \A x \in (Len(signal) + 1)..(Len(signal) + n) : signal'[x] = 0
      /\ signal'[Len(signal) + n + 1] = 1
      /\ signal \in Seq(Nat) /\ Len(signal) \in Nat /\ DOMAIN signal = 1..Len(signal)
      /\ Len(signal) < Len(signal') /\ Len(signal') \in Nat
      /\ Len(batch) \in Nat /\ Len(task) \in Nat
  <2>1. Len(signal) \in Nat /\ n \in Nat
    BY <1>1, <1>4 DEF ListsTyped
  <2>2. /\ signal' \in Seq(Nat) /\ Len(signal') = Len(signal) + n + 1
        /\ \A x \in 1..Len(signal) : signal'[x] = signal[x]
        /\ \A x \in (Len(signal) + 1)..(Len(signal) + n) : signal'[x] = 0
        /\ signal'[Len(signal) + n + 1] = 1
    BY <1>0 DEF BatchEffect
  <2>3. Len(signal) < Len(signal') /\ Len(signal') \in Nat
    BY <2>1, <2>2
  <2> QED
    BY <1>1, <2>1, <2>2, <2>3 DEF ListsTyped, TypeOK
<1> HIDE <1>0
<1>6. TypeOK'
  <2>1. TaskType \subseteq TaskType'
    BY <1>1, <1>4, <1>5, TypesGrow
  <2>2. task' \in Seq(TaskType')
    <3>1. task \in Seq(TaskType)
      BY <1>1 DEF TypeOK, TaskType
    <3> QED
      BY <1>2, <2>1, <3>1
  <2>3. Len(task) <= Len(task') /\ mCurrQid' \in Queue
    BY <1>1, <1>2, <1>5 DEF TypeOK
  <2> QED
    BY <1>1, <1>2, <1>4, <1>5, <2>2, <2>3, TypeGrows
<1>7. ASSUME NEW b \in DOMAIN batch
      PROVE  /\ batch[b].final \in 1..Len(signal)
             /\ \A x \in Range(batch[b].perQ) : x \in 1..Len(signal)
             /\ batch[b].dep \in 0..Len(signal)
  <2>1. /\ batch[b].perQ \in Seq(DOMAIN signal) /\ batch[b].final \in DOMAIN signal
        /\ batch[b].dep \in 0..Len(signal)
    BY <1>1 DEF ListsTyped
  <2>2. \A x \in Range(batch[b].perQ) : x \in DOMAIN signal
    BY <2>1 DEF Range
  <2> QED
    BY <1>5, <2>1, <2>2
<1>8. Extends
  BY <1>2, <1>4, <1>5 DEF Extends
<1>9. PacketsOf' = PacketsOf /\ TodoInv' /\ OnceInv'
  <2>1. Len(task) <= Len(task') /\ Len(signal) <= Len(signal') /\ Len(batch) <= Len(batch')
    BY <1>2, <1>4, <1>5
  <2> QED
    BY <1>3, <1>4, <1>6, <1>8, <2>1, ShiftedSteps
<1>10. ASSUME NEW i \in DOMAIN todo'
       PROVE  i \in Nat /\ i + 1 \in DOMAIN todo /\ i + 1 # 1 /\ todo'[i] = todo[i + 1]
  BY <1>3 DEF Shifted
<1>11. ASSUME NEW p \in PacketsOf
       PROVE  p.sig \in 0..Len(signal)
  BY <1>1, PacketFields DEF PacketsTyped
<1>12. /\ \A x \in 0..Len(signal) : x \notin Range(batch'[c].perQ)
       /\ Len(signal') \notin Range(batch'[c].perQ)
  <2>1. \A x \in Range(batch'[c].perQ) : x > Len(signal) /\ x < Len(signal')
    BY <1>4
  <2>2. Len(signal) \in Nat /\ Len(signal') \in Nat
    BY <1>5
  <2> DEFINE R == Range(batch'[c].perQ)
  <2> HIDE DEF R
  <2>3. \A x \in R : x > Len(signal) /\ x < Len(signal')
    BY <2>1 DEF R
  <2>4. (\A x \in 0..Len(signal) : x \notin R) /\ Len(signal') \notin R
    BY <2>2, <2>3
  <2> QED
    BY <2>4 DEF R
<1>13. OwnerInv'
  <2>1. ASSUME NEW b \in DOMAIN batch', NEW e \in DOMAIN batch'
        PROVE  /\ batch'[b].final = batch'[e].final => b = e
               /\ batch'[b].final \notin Range(batch'[e].perQ)
               /\ batch'[b].dep \notin Range(batch'[e].perQ)
    <3>1. CASE b \in DOMAIN batch /\ e \in DOMAIN batch
      BY <1>1, <1>4, <3>1 DEF OwnerInv
    <3>2. CASE b \in DOMAIN batch /\ e = c
      <4>1. batch'[b] = batch[b] /\ batch[b].final \in 1..Len(signal)
            /\ batch[b].dep \in 0..Len(signal)
        BY <1>4, <1>7, <3>2
      <4>2. batch[b].final # Len(signal')
        BY <1>5, <4>1
      <4>3. batch'[c].final = Len(signal') /\ c \notin DOMAIN batch
        BY <1>4
      <4>4. batch[b].final \in 0..Len(signal)
        BY <1>5, <4>1
      <4> QED
        BY <1>12, <3>2, <4>1, <4>2, <4>3, <4>4
    <3>3. CASE b = c /\ e \in DOMAIN batch
      <4>1. batch'[e] = batch[e] /\ batch[e].final \in 1..Len(signal)
            /\ \A x \in Range(batch[e].perQ) : x \in 1..Len(signal)
        BY <1>4, <1>7, <3>3
      <4>2. batch[e].final # Len(signal') /\ Len(signal') \notin Range(batch[e].perQ)
        BY <1>5, <4>1
      <4>3. d \notin Range(batch[e].perQ)
        BY <1>1, <1>4, <3>3 DEF OwnerInv
      <4> QED
        BY <1>4, <3>3, <4>1, <4>2, <4>3
    <3>4. CASE b = c /\ e = c
      <4>1. batch'[c].final = Len(signal') /\ batch'[c].dep \in 0..Len(signal)
        BY <1>4
      <4> QED
        BY <1>12, <3>4, <4>1
    <3> QED
      BY <1>4, <3>1, <3>2, <3>3, <3>4
  <2>2. ASSUME NEW b \in DOMAIN batch'
        PROVE  /\ Len(batch'[b].perQ) = IF kind' = "ordered" THEN 0 ELSE NumQs
               /\ \A t \in DOMAIN task' : task'[t].sig \notin Range(batch'[b].perQ)
               /\ \A i \in DOMAIN todo' :
                    todo'[i].do = "batch" => todo'[i].dep \notin Range(batch'[b].perQ)
    <3>1. CASE b \in DOMAIN batch
      BY <1>1, <1>2, <1>4, <1>10, <3>1 DEF OwnerInv
    <3>2. CASE b = c
      <4>1. \A t \in DOMAIN task : task[t].sig \in 0..Len(signal)
        BY <1>1 DEF ListsTyped
      <4>2. ASSUME NEW i \in DOMAIN todo', todo'[i].do = "batch"
            PROVE  todo'[i].dep \in 0..Len(signal)
        <5>1. todo[i + 1] \in Step /\ todo[i + 1].do = "batch" /\ todo'[i] = todo[i + 1]
          BY <1>1, <1>10, <4>2, TodoTypes DEF TodoTyped
        <5> QED
          BY <5>1, StepFields
      <4> QED
        BY <1>2, <1>4, <1>12, <3>2, <4>1, <4>2
    <3> QED
      BY <1>4, <3>1, <3>2
  <2> QED
    BY <2>1, <2>2 DEF OwnerInv
<1>14. SignalInv'
  <2>1. Exact(signal, PacketsOf, batch) /\ (SignalInv' <=> Exact(signal, PacketsOf, batch)')
    <3>1. SignalInv' <=> Exact(signal, PacketsOf, batch)'
      BY SignalInvIsExact, PTL
    <3> QED
      BY <1>1, <3>1, SignalInvIsExact
  <2>2. /\ \A x \in (Len(signal) + 1)..(Len(signal') - 1) : signal'[x] = 0
        /\ signal'[Len(signal')] = 1
    <3>1. Len(signal') - 1 = Len(signal) + n
      BY <1>4, <1>5
    <3> QED
      BY <1>5, <3>1
  <2>3. \E e : /\ e \notin DOMAIN batch /\ DOMAIN batch' = DOMAIN batch \cup {e}
               /\ batch'[e].open /\ batch'[e].final = Len(signal')
    BY <1>4
  <2>4. \A b \in DOMAIN batch : batch[b].final \in 1..Len(signal) /\ batch'[b] = batch[b]
    BY <1>4, <1>7
  <2>5. Exact(signal', PacketsOf, batch')
    BY <1>5, <1>11, <2>1, <2>2, <2>3, <2>4, ExactBatch
  <2> QED
    BY <1>9, <2>1, <2>5
<1>15. NothingLost'
  <2>1. ASSUME NEW s \in Range(todo), s.do = "pick"
        PROVE  FALSE
    BY <1>3, <2>1 DEF Shifted, Range
  <2> QED
    BY <1>1, <1>2, <1>9, <2>1 DEF NothingLost
<1>16. ClosedInv'
  <2> SUFFICES ASSUME NEW b \in DOMAIN batch', ~batch'[b].open
               PROVE  b \in DOMAIN batch /\ batch'[b] = batch[b]
    BY <1>1, <1>2, <1>9 DEF ClosedInv
  <2> QED
    BY <1>4
<1>17. OrderInv'
  <2> SUFFICES ASSUME kind = "ordered"
               PROVE  OrderInv'
    BY <1>2 DEF OrderInv
  <2>1. ASSUME \A i \in DOMAIN todo' : todo'[i].do # "put"
        PROVE  \A i \in DOMAIN todo : todo[i].do # "put"
    <3> SUFFICES ASSUME NEW i \in DOMAIN todo
                 PROVE  todo[i].do # "put"
      OBVIOUS
    <3>1. CASE i = 1
      BY <1>4, <3>1
    <3>2. CASE i # 1
      BY <1>3, <2>1, <3>2 DEF Shifted
    <3> QED
      BY <3>1, <3>2
  <2>2. Index(0)' = Index(0)
    BY <1>2 DEF Index
  <2> QED
    BY <1>1, <1>2, <1>10, <2>1, <2>2 DEF OrderInv
<1>18. \A p \in PacketsOf' : Linked(p)'
  <2> SUFFICES ASSUME NEW p \in PacketsOf
               PROVE  Linked(p)'
    BY <1>9
  <2>1. p.sig # Len(signal')
    BY <1>5, <1>11
  <2>2. \A b \in DOMAIN batch' \ DOMAIN batch : p.sig # batch'[b].final
    BY <1>4, <2>1
  <2> QED
    BY <1>8, <2>2, LinksStay
<1>19. NewDeps
  <2>1. ASSUME NEW r \in Queue, d # NullSignal
        PROVE  Guarded(r, d, c)'
    <3>1. \/ Guarded(r, d, c)
          \/ \E j \in DOMAIN todo : j < 1
      BY <1>1, <1>4, <2>1 DEF DepInv
    <3>2. \A j \in DOMAIN todo : ~(j < 1)
      BY <1>1, TodoTypes DEF TodoTyped
    <3>3. d \in 1..Len(signal)
      BY <1>4, <1>5, <2>1 DEF NullSignal
    <3> QED
      BY <1>5, <1>8, <3>1, <3>2, <3>3, GuardStays
  <2>2. ASSUME NEW i \in DOMAIN todo', todo'[i].do = "batch"
        PROVE  FALSE
    <3>1. 1 = Len(todo) /\ DOMAIN todo = 1..Len(todo)
      BY <1>1, <1>4, TodoTypes DEF TodoInv, TodoTyped
    <3> QED
      BY <1>10, <3>1
  <2> QED
    BY <1>4, <2>1, <2>2 DEF NewDeps
<1> QED
  BY <1>6, <1>8, <1>9, <1>13, <1>14, <1>15, <1>16, <1>17, <1>18, <1>19, HostStepPreserves

(* A call that starts a batch: nothing changes but the steps to be done.    *)
LEMMA StartBatchPreserves ==
  ASSUME IInv, StartBatch
  PROVE  IInv'
<1>1. /\ TypeOK /\ OwnerInv /\ SignalInv /\ NothingLost /\ ClosedInv
      /\ OrderInv /\ LinkInv /\ ListsTyped
  BY ListTypes DEF IInv
<1>2. /\ UNCHANGED <<kind, ring, hsaWrite, readIndex, doorbell, signal, running,
                     mWriteIndex, mCurrQid, task, done, batch>>
      /\ todo = <<>> /\ DOMAIN todo = {} /\ Range(todo) = {}
      /\ Queue' = Queue /\ Packet' = Packet /\ todo' = <<BatchStep(NullSignal)>>
  BY DEF StartBatch, CanStart, CanCall, callSame, Queue, Packet, Range
<1>3. /\ todo' \in Seq(Step') /\ DOMAIN todo' = {1} /\ Len(todo') = 1
      /\ todo'[1].do = "batch" /\ todo'[1].dep = NullSignal
  <2>1. BatchStep(NullSignal) \in Step'
    BY <1>1, <1>2 DEF BatchStep, Step, NullSignal, ListsTyped
  <2> DEFINE S == Step'
             x == BatchStep(NullSignal)
  <2>2. x \in S /\ todo' = <<x>> /\ x.do = "batch" /\ x.dep = NullSignal
    BY <1>2, <2>1 DEF BatchStep
  <2> HIDE DEF S, x
  <2>3. todo' \in Seq(S) /\ DOMAIN todo' = {1} /\ Len(todo') = 1 /\ todo'[1] = x
    BY <2>2
  <2> QED
    BY <2>2, <2>3 DEF S
<1>4. TypeOK'
  BY <1>1, <1>2 DEF TypeOK
<1>5. Extends
  BY <1>2 DEF Extends
<1>6. PacketsOf' = PacketsOf
  BY <1>2, <1>3, <1>4, NoNewPackets
<1>7. OnceInv'
  BY <1>2, <1>3, OnceStays
<1>8. TodoInv'
  BY <1>3 DEF TodoInv
<1>9. OwnerInv'
  <2>1. ASSUME NEW b \in DOMAIN batch
        PROVE  NullSignal \notin Range(batch[b].perQ)
    BY <1>1 DEF ListsTyped, Range, NullSignal
  <2> QED
    BY <1>1, <1>2, <1>3, <2>1 DEF OwnerInv
<1>10. SignalInv'
  BY <1>1, <1>2, <1>6 DEF SignalInv, SignalsExact, Owing
<1>11. NothingLost'
  BY <1>1, <1>2, <1>6 DEF NothingLost
<1>12. ClosedInv'
  BY <1>1, <1>2, <1>6 DEF ClosedInv
<1>13. OrderInv'
  BY <1>1, <1>2, <1>3 DEF OrderInv, Index
<1>14. \A p \in PacketsOf' : Linked(p)'
  BY <1>1, <1>2, <1>6 DEF LinkInv, Linked, Fitting
<1>15. NewDeps
  BY <1>2, <1>3 DEF NewDeps
<1> QED
  BY <1>4, <1>5, <1>6, <1>7, <1>8, <1>9, <1>10, <1>11, <1>12, <1>13, <1>14, <1>15,
     HostStepPreserves

(* The barrier packets of a call.                                           *)
LEMMA NewBarrier ==
  ASSUME NEW deps \in Seq(1..Len(signal')), NEW s \in 0..Len(signal'),
         NEW pk, pk = BarrierPacket(deps, s)
  PROVE  /\ pk \in Packet'
         /\ pk.type = "barrier" /\ pk.sig = s /\ pk.deps = Fitting(deps)
<1>1. Fitting(deps) \subseteq 1..Len(signal')
  BY DEF Fitting
<1>2. pk = [type |-> "barrier", sig |-> s, deps |-> Fitting(deps), barrier |-> TRUE]
  BY DEF BarrierPacket
<1>3. pk \in [type : {"barrier"}, sig : 0..Len(signal'),
              deps : SUBSET (1..Len(signal')), barrier : {TRUE}]
  BY <1>1, <1>2
<1> QED
  BY <1>2, <1>3 DEF Packet

(* A call that starts a batch behind a handle: a barrier packet for every   *)
(* queue, then the batch.                                                   *)
LEMMA DependentStartPreserves ==
  ASSUME MaxUnread <= QueueSize, IInv, NEW s \in Handles, StartBatchWithDep(s)
  PROVE  IInv'
<1> DEFINE bp == BarrierPacket(<<s>>, NullSignal)
<1>1. /\ TypeOK /\ OwnerInv /\ SignalInv /\ NothingLost /\ ClosedInv
      /\ LinkInv /\ ListsTyped /\ PacketsTyped
  BY ListTypes, PacketTypes DEF IInv
<1>2. /\ UNCHANGED <<kind, ring, hsaWrite, readIndex, doorbell, signal, running,
                     mWriteIndex, mCurrQid, task, done, batch>>
      /\ todo = <<>> /\ DOMAIN todo = {} /\ Range(todo) = {}
      /\ Queue' = Queue /\ Packet' = Packet /\ kind = "unordered"
      /\ \A q \in Queue : Unread(q) < MaxUnread
  BY DEF StartBatchWithDep, CanStart, CanCall, callSame, Queue, Packet, Range
<1>h. todo' = [i \in 1..NumQs |-> PutStep(i - 1, bp)] \o <<BatchStep(s)>>
  BY DEF StartBatchWithDep
<1> HIDE <1>h
<1>3. /\ s \in 1..Len(signal) /\ s # NullSignal
      /\ \A b \in DOMAIN batch : s \notin Range(batch[b].perQ)
  <2>1. CASE \E t \in DOMAIN task : s = task[t].sig /\ s # NullSignal
    BY <1>1, <2>1 DEF OwnerInv, ListsTyped, NullSignal
  <2>2. CASE \E b \in DOMAIN batch : s = batch[b].final
    BY <1>1, <2>2 DEF OwnerInv, ListsTyped, NullSignal
  <2> QED
    BY <2>1, <2>2 DEF Handles
<1>4. bp \in Packet' /\ bp.type = "barrier" /\ bp.sig = NullSignal /\ bp.deps = {s}
  <2>1. <<s>> \in Seq(1..Len(signal')) /\ NullSignal \in 0..Len(signal')
    BY <1>1, <1>2, <1>3 DEF ListsTyped, NullSignal
  <2>2. Fitting(<<s>>) = {s}
    BY DepsAssumption DEF Fitting
  <2>3. PICK deps : deps = <<s>>
    OBVIOUS
  <2>4. bp = BarrierPacket(deps, NullSignal) /\ deps \in Seq(1..Len(signal'))
    BY <2>1, <2>3
  <2> HIDE DEF bp
  <2>5. bp \in Packet' /\ bp.type = "barrier" /\ bp.sig = NullSignal /\ bp.deps = Fitting(deps)
    BY <2>1, <2>4, NewBarrier
  <2> QED
    BY <2>2, <2>3, <2>5
<1> HIDE DEF bp
<1>5. /\ todo' \in Seq(Step') /\ DOMAIN todo' = 1..(NumQs + 1) /\ Len(todo') = NumQs + 1
      /\ \A i \in 1..NumQs :
           todo'[i].do = "put" /\ todo'[i].q = i - 1 /\ todo'[i].packet = bp
      /\ todo'[NumQs + 1].do = "batch" /\ todo'[NumQs + 1].dep = s
  <2> DEFINE S == Step'
             a == [i \in 1..NumQs |-> PutStep(i - 1, bp)]
             z == BatchStep(s)
  <2>1. ASSUME NEW i \in 1..NumQs
        PROVE  /\ PutStep(i - 1, bp) \in S
               /\ a[i] = PutStep(i - 1, bp)
               /\ a[i].do = "put" /\ a[i].q = i - 1 /\ a[i].packet = bp
    BY <1>4, QueueFacts DEF PutStep, Step, Queue
  <2>2. z \in S /\ z.do = "batch" /\ z.dep = s
    BY <1>2, <1>3 DEF BatchStep, Step
  <2>3. todo' = a \o <<z>>
    BY <1>h
  <2> HIDE DEF S
  <2>4. a \in Seq(S) /\ Len(a) = NumQs /\ NumQs \in Nat
    BY <2>1, QueueFacts
  <2> HIDE DEF a, z
  <2>5. <<z>> \in Seq(S) /\ Len(<<z>>) = 1 /\ <<z>>[1] = z
    BY <2>2
  <2>6. /\ todo' \in Seq(S) /\ Len(todo') = NumQs + 1
        /\ \A i \in 1..NumQs : todo'[i] = a[i]
        /\ todo'[NumQs + 1] = z
    BY <2>3, <2>4, <2>5, ConcatenateLists
  <2> QED
    BY <2>1, <2>2, <2>6 DEF S
<1> DEFINE n == NumQs
<1>n. n \in Nat /\ Queue = 0..(n - 1)
  BY QueueFacts DEF Queue
<1> HIDE DEF n
<1>6. ASSUME NEW i \in DOMAIN todo'
      PROVE  /\ todo'[i].do = "put" => i \in 1..n /\ todo'[i].q = i - 1 /\ todo'[i].packet = bp
             /\ todo'[i].do = "batch" => i = n + 1 /\ todo'[i].dep = s
             /\ todo'[i].do # "pick"
             /\ i \in Int
  BY <1>5, <1>n DEF n
<1>7. TypeOK'
  BY <1>1, <1>2 DEF TypeOK
<1>8. Extends
  BY <1>2 DEF Extends
<1>9. PacketsOf' = PacketsOf \cup {bp}
  <2>1. ASSUME NEW p
        PROVE  InTodo(p)' <=> p \in {bp}
    <3>1. 1 \in DOMAIN todo' /\ todo'[1].do = "put" /\ todo'[1].packet = bp
      BY <1>5, QueueFacts
    <3> QED
      BY <1>6, <3>1 DEF InTodo
  <2> QED
    BY <1>2, <1>7, <2>1, CallPackets
<1>10. OnceInv'
  BY <1>2, <1>4, <1>6, OnceStays
<1>11. TodoInv'
  <2>1. ASSUME NEW r \in Queue
        PROVE  hsaWrite'[r] - readIndex'[r] < QueueSize
    <3>1. hsaWrite[r] \in Nat /\ readIndex[r] \in Nat /\ MaxUnread \in Nat /\ QueueSize \in Nat
      BY <1>1, BoundAssumption, SizeAssumption DEF TypeOK
    <3> QED
      BY <1>2, <3>1 DEF Unread
  <2>2. ASSUME NEW i \in DOMAIN todo', todo'[i].do = "put"
        PROVE  /\ todo'[i].q \in Queue
               /\ \A j \in DOMAIN todo' :
                    todo'[j].do = "put" /\ todo'[j].q = todo'[i].q => j = i
    <3>1. i \in 1..n /\ todo'[i].q = i - 1
      BY <1>6, <2>2
    <3>2. ASSUME NEW j \in DOMAIN todo', todo'[j].do = "put", todo'[j].q = todo'[i].q
          PROVE  j = i
      <4>1. j \in 1..n /\ j - 1 = i - 1
        BY <1>6, <3>1, <3>2
      <4> QED
        BY <3>1, <4>1
    <3> QED
      BY <1>n, <3>1, <3>2
  <2>3. ASSUME NEW i \in DOMAIN todo'
        PROVE  todo'[i].do # "pick" /\ (todo'[i].do = "batch" => i = Len(todo'))
    BY <1>5, <1>6 DEF n
  <2> QED
    BY <1>5, <2>1, <2>2, <2>3 DEF TodoInv, Unread
<1>12. OwnerInv'
  BY <1>1, <1>2, <1>3, <1>6 DEF OwnerInv
<1>13. SignalInv'
  <2>1. Exact(signal, PacketsOf, batch) /\ (SignalInv' <=> Exact(signal, PacketsOf, batch)')
    <3>1. SignalInv' <=> Exact(signal, PacketsOf, batch)'
      BY SignalInvIsExact, PTL
    <3> QED
      BY <1>1, <3>1, SignalInvIsExact
  <2>2. \A p : p.sig # 0 => (p \in PacketsOf <=> p \in PacketsOf \cup {bp})
    BY <1>4 DEF NullSignal
  <2>3. signal \in Seq(Nat)
    BY <1>1 DEF TypeOK
  <2>4. Exact(signal, PacketsOf \cup {bp}, batch)
    BY <2>1, <2>2, <2>3, ExactNull
  <2> QED
    BY <1>2, <1>9, <2>1, <2>4
<1>14. NothingLost'
  BY <1>1, <1>2, <1>9 DEF NothingLost
<1>15. ClosedInv'
  BY <1>1, <1>2, <1>9 DEF ClosedInv
<1>16. OrderInv'
  BY <1>2 DEF OrderInv
<1>17. \A p \in PacketsOf' : Linked(p)'
  <2>1. Linked(bp)'
    <3>1. \A b \in DOMAIN batch' : bp.sig # batch'[b].final
      BY <1>1, <1>2, <1>4 DEF ListsTyped, NullSignal
    <3> QED
      BY <1>2, <1>4, <3>1 DEF Linked
  <2>2. ASSUME NEW p \in PacketsOf
        PROVE  Linked(p)'
    BY <1>2, <1>8, LinksStay
  <2> QED
    BY <1>9, <2>1, <2>2
<1>18. NewDeps
  <2>1. ASSUME NEW i \in DOMAIN todo', NEW r \in Queue, todo'[i].do = "batch"
        PROVE  \E j \in DOMAIN todo' :
                 /\ j < i
                 /\ todo'[j].do = "put"
                 /\ todo'[j].q = r
                 /\ todo'[j].packet.type = "barrier"
                 /\ todo'[i].dep \in todo'[j].packet.deps
    <3>1. i = n + 1 /\ todo'[i].dep = s
      BY <1>6, <2>1
    <3>2. r + 1 \in 1..n /\ r + 1 - 1 = r /\ r + 1 < i
      BY <1>n, <3>1
    <3>3. r + 1 \in DOMAIN todo' /\ todo'[r + 1].do = "put" /\ todo'[r + 1].q = r
          /\ todo'[r + 1].packet = bp
      BY <1>5, <3>2, QueueFacts DEF n
    <3> QED
      BY <1>4, <3>1, <3>2, <3>3
  <2> QED
    BY <1>2, <2>1 DEF NewDeps
<1> QED
  BY <1>7, <1>8, <1>10, <1>11, <1>12, <1>13, <1>14, <1>15, <1>16, <1>17, <1>18,
     HostStepPreserves

(* A batch is closed: a barrier packet behind the signals of its queues     *)
(* will lower its final signal.                                             *)
LEMMA LaunchBatchPreserves ==
  ASSUME MaxUnread <= QueueSize, IInv, NEW b \in DOMAIN batch, LaunchBatch(b)
  PROVE  IInv'
<1>b. PICK bp : bp = BarrierPacket(batch[b].perQ, batch[b].final)
  OBVIOUS
<1>1. /\ TypeOK /\ OwnerInv /\ SignalInv /\ NothingLost /\ ClosedInv
      /\ LinkInv /\ ListsTyped /\ PacketsTyped
  BY ListTypes, PacketTypes DEF IInv
<1>2. /\ UNCHANGED <<kind, ring, hsaWrite, readIndex, doorbell, signal, running,
                     mWriteIndex, mCurrQid, task, done>>
      /\ todo = <<>> /\ DOMAIN todo = {} /\ Range(todo) = {}
      /\ Queue' = Queue /\ kind = "unordered"
      /\ \A q \in Queue : Unread(q) < MaxUnread
      /\ batch[b].open
  BY DEF LaunchBatch, CanCall, callSame, Queue, Range
<1>h. /\ todo' = <<PutStep(0, bp)>> \o [i \in 1..NumQs |-> RingStep(i - 1)]
      /\ batch' = [batch EXCEPT ![b].open = FALSE]
  BY <1>b DEF LaunchBatch
<1> HIDE <1>h, <1>b
<1>4. /\ bp \in Packet' /\ bp.type = "barrier" /\ bp.sig = batch[b].final
      /\ bp.deps = Fitting(batch[b].perQ)
  <2>1. batch[b].perQ \in Seq(1..Len(signal')) /\ batch[b].final \in 0..Len(signal')
    BY <1>1, <1>2 DEF ListsTyped
  <2> QED
    BY <1>b, <2>1, NewBarrier
<1>5. /\ todo' \in Seq(Step') /\ 1 \in DOMAIN todo'
      /\ todo'[1].do = "put" /\ todo'[1].q = 0 /\ todo'[1].packet = bp
      /\ \A i \in DOMAIN todo' : i # 1 => todo'[i].do = "ring"
  <2> DEFINE S == Step'
             a == [i \in 1..NumQs |-> RingStep(i - 1)]
             z == PutStep(0, bp)
  <2>1. ASSUME NEW i \in 1..NumQs
        PROVE  RingStep(i - 1) \in S /\ a[i].do = "ring"
    BY QueueFacts DEF RingStep, Step, Queue
  <2>2. z \in S /\ z.do = "put" /\ z.q = 0 /\ z.packet = bp
    BY <1>2, <1>4, QueueFacts DEF PutStep, Step, Queue
  <2>3. todo' = <<z>> \o a
    BY <1>h
  <2> HIDE DEF S
  <2>4. a \in Seq(S) /\ Len(a) = NumQs /\ NumQs \in Nat
    BY <2>1, QueueFacts
  <2> HIDE DEF a, z
  <2>5. <<z>> \in Seq(S) /\ Len(<<z>>) = 1 /\ <<z>>[1] = z
    BY <2>2
  <2>6. /\ todo' \in Seq(S) /\ Len(todo') = 1 + NumQs
        /\ todo'[1] = z
        /\ \A i \in 1..NumQs : todo'[1 + i] = a[i]
    BY <2>3, <2>4, <2>5, ConcatenateLists
  <2>7. DOMAIN todo' = 1..(1 + NumQs)
    BY <2>6
  <2>8. ASSUME NEW i \in DOMAIN todo', i # 1
        PROVE  todo'[i].do = "ring"
    <3>1. i - 1 \in 1..NumQs /\ i = 1 + (i - 1)
      BY <2>4, <2>7, <2>8
    <3>2. todo'[1 + (i - 1)] = a[i - 1]
      BY <2>6, <3>1
    <3> QED
      BY <2>1, <3>1, <3>2
  <2> QED
    BY <2>2, <2>4, <2>6, <2>7, <2>8 DEF S
<1>6. /\ batch \in Seq(BatchType) /\ batch' \in Seq(BatchType) /\ Len(batch') = Len(batch)
      /\ DOMAIN batch' = DOMAIN batch
      /\ ~batch'[b].open
      /\ \A c \in DOMAIN batch :
           /\ batch'[c].perQ = batch[c].perQ
           /\ batch'[c].final = batch[c].final
           /\ batch'[c].dep = batch[c].dep
           /\ c # b => batch'[c].open = batch[c].open
  <2>1. batch \in Seq(BatchType)
    BY <1>1 DEF TypeOK, BatchType
  <2> DEFINE new == [batch[b] EXCEPT !.open = FALSE]
  <2>2. /\ new \in BatchType /\ new.perQ = batch[b].perQ /\ new.final = batch[b].final
        /\ new.dep = batch[b].dep /\ ~new.open
    <3>1. batch[b] \in BatchType
      BY <2>1
    <3> QED
      BY <3>1 DEF BatchType
  <2>3. batch' = [batch EXCEPT ![b] = new]
    BY <1>h
  <2> HIDE DEF new
  <2> QED
    BY <2>1, <2>2, <2>3
<1>7. TypeOK'
  <2>1. BatchType' = BatchType /\ TaskType' = TaskType /\ Packet' = Packet
    BY <1>2, <1>6 DEF BatchType, TaskType, Packet
  <2> QED
    BY <1>1, <1>2, <1>6, <2>1 DEF TypeOK, BatchType, TaskType
<1>8. Extends
  BY <1>2, <1>6 DEF Extends
<1>9. PacketsOf' = PacketsOf \cup {bp}
  <2>1. ASSUME NEW p
        PROVE  InTodo(p)' <=> p \in {bp}
    BY <1>5 DEF InTodo
  <2> QED
    BY <1>2, <1>7, <2>1, CallPackets
<1>10. bp \notin PacketsOf
  BY <1>1, <1>2, <1>4 DEF LinkInv, Linked
<1>11. OnceInv'
  BY <1>2, <1>5, <1>10, OnceStays
<1>12. TodoInv'
  <2>1. hsaWrite'[0] - readIndex'[0] < QueueSize
    <3>1. Unread(0) < MaxUnread /\ 0 \in Queue
      BY <1>2, QueueFacts
    <3>2. hsaWrite[0] \in Nat /\ readIndex[0] \in Nat /\ MaxUnread \in Nat /\ QueueSize \in Nat
      BY <1>1, <3>1, BoundAssumption, SizeAssumption DEF TypeOK
    <3> QED
      BY <1>2, <3>1, <3>2 DEF Unread
  <2>2. ASSUME NEW i \in DOMAIN todo'
        PROVE  /\ todo'[i].do = "put" => i = 1 /\ todo'[i].q = 0
               /\ todo'[i].do # "pick" /\ todo'[i].do # "batch"
    BY <1>5
  <2> QED
    BY <1>5, <2>1, <2>2 DEF TodoInv, Unread
<1>13. OwnerInv'
  <2>1. \A i \in DOMAIN todo' : todo'[i].do # "batch"
    BY <1>5
  <2> QED
    BY <1>1, <1>2, <1>6, <2>1 DEF OwnerInv
<1>14. SignalInv'
  <2>1. Exact(signal, PacketsOf, batch) /\ (SignalInv' <=> Exact(signal, PacketsOf, batch)')
    <3>1. SignalInv' <=> Exact(signal, PacketsOf, batch)'
      BY SignalInvIsExact, PTL
    <3> QED
      BY <1>1, <3>1, SignalInvIsExact
  <2>2. IsFiniteSet(DOMAIN batch) /\ signal \in Seq(Nat)
    BY <1>1, FS_Interval DEF TypeOK, ListsTyped
  <2>3. \E e \in DOMAIN batch :
          /\ batch[e].open /\ bp.sig = batch[e].final /\ ~batch'[e].open
          /\ \A c \in DOMAIN batch :
               batch'[c].final = batch[c].final /\ (c # e => batch'[c].open = batch[c].open)
    BY <1>2, <1>4, <1>6
  <2>4. Exact(signal, PacketsOf \cup {bp}, batch')
    BY <1>6, <1>10, <2>1, <2>2, <2>3, ExactClose
  <2> QED
    BY <1>2, <1>9, <2>1, <2>4
<1>15. NothingLost'
  BY <1>1, <1>2, <1>9 DEF NothingLost
<1>16. ClosedInv'
  <2> SUFFICES ASSUME NEW c \in DOMAIN batch', ~batch'[c].open, NumQs <= BarrierDeps
               PROVE  \/ \E p \in PacketsOf' : p.type = "barrier" /\ p.sig = batch'[c].final
                      \/ \A t \in DOMAIN task' : task'[t].batch = c => t \in done'
    BY <1>2 DEF ClosedInv
  <2>1. CASE c = b
    BY <1>4, <1>6, <1>9, <2>1
  <2>2. CASE c # b
    BY <1>1, <1>2, <1>6, <1>9, <2>2 DEF ClosedInv
  <2> QED
    BY <2>1, <2>2
<1>17. OrderInv'
  BY <1>2 DEF OrderInv
<1>18. \A p \in PacketsOf' : Linked(p)'
  <2>1. Linked(bp)'
    <3>1. ASSUME NEW c \in DOMAIN batch', bp.sig = batch'[c].final
          PROVE  ~batch'[c].open /\ bp.deps = Fitting(batch'[c].perQ)
      <4>1. c = b
        <5>1. batch'[c].final = batch[c].final /\ c \in DOMAIN batch
          BY <1>6
        <5>2. batch[c].final = batch[b].final
          BY <1>4, <3>1, <5>1
        <5> QED
          BY <1>1, <1>4, <5>1, <5>2 DEF OwnerInv
      <4> QED
        BY <1>4, <1>6, <4>1
    <3> QED
      BY <1>2, <1>4, <3>1 DEF Linked, Fitting
  <2>2. ASSUME NEW p \in PacketsOf
        PROVE  Linked(p)'
    BY <1>6, <1>8, LinksStay
  <2> QED
    BY <1>9, <2>1, <2>2
<1>19. NewDeps
  BY <1>5, <1>6 DEF NewDeps
<1> QED
  BY <1>7, <1>8, <1>11, <1>12, <1>13, <1>14, <1>15, <1>16, <1>17, <1>18, <1>19,
     HostStepPreserves

(* The calls.                                                               *)
LEMMA ClientPreserves ==
  ASSUME MaxUnread <= QueueSize, IInv, Client
  PROVE  IInv'
<1>0. kind \in {"ordered", "unordered"} /\ 0 \in 0..Len(batch)
      /\ DOMAIN batch \subseteq 0..Len(batch) /\ 0 \notin DOMAIN batch
  <2>1. TypeOK /\ ListsTyped
    BY ListTypes DEF IInv
  <2>2. kind \in {"ordered", "unordered"}
    BY <2>1 DEF TypeOK
  <2> QED
    BY <2>1, <2>2 DEF ListsTyped
<1>1. ASSUME NEW k \in Kernel, LaunchTask(k)
      PROVE  IInv'
  <2> DEFINE t == Len(task) + 1
             s == Len(signal) + 1
  <2>1. CASE kind = "ordered"
    <3>1. OrderedCall(k, 0, s, t, KernelPacket(t, s))
      BY <1>0, <1>1, <2>1 DEF LaunchTask, OrderedCall
    <3> QED
      BY <3>1, OrderedCallPreserves
  <2>2. CASE kind = "unordered"
    <3>1. PickStarted(k, 0, t, "launch")
      BY <1>0, <1>1, <2>2 DEF LaunchTask, PickStarted
    <3> QED
      BY <3>1, PickStartPreserves
  <2> QED
    BY <1>0, <2>1, <2>2
<1>2. ASSUME NEW k \in Kernel, LaunchAndForget(k)
      PROVE  IInv'
  <2> DEFINE t == Len(task) + 1
  <2>1. CASE kind = "ordered"
    <3>1. OrderedCall(k, 0, NullSignal, t, KernelPacket(t, NullSignal))
      BY <1>0, <1>2, <2>1 DEF LaunchAndForget, OrderedCall
    <3> QED
      BY <3>1, OrderedCallPreserves
  <2>2. CASE kind = "unordered"
    <3>1. PickStarted(k, 0, t, "forget")
      BY <1>0, <1>2, <2>2 DEF LaunchAndForget, PickStarted
    <3> QED
      BY <3>1, PickStartPreserves
  <2> QED
    BY <1>0, <2>1, <2>2
<1>3. ASSUME NEW k \in Kernel, NEW b \in DOMAIN batch, AddToBatch(b, k)
      PROVE  IInv'
  <2> DEFINE t == Len(task) + 1
  <2>1. CASE kind = "ordered"
    <3>1. OrderedCall(k, b, NullSignal, t, KernelPacket(t, NullSignal))
      BY <1>0, <1>3, <2>1 DEF AddToBatch, OrderedCall
    <3> QED
      BY <3>1, OrderedCallPreserves
  <2>2. CASE kind = "unordered"
    <3>1. PickStarted(k, b, t, "batch")
      BY <1>0, <1>3, <2>2 DEF AddToBatch, PickStarted
    <3> QED
      BY <3>1, PickStartPreserves
  <2> QED
    BY <1>0, <2>1, <2>2
<1>4. ASSUME NEW k \in Kernel, NEW b \in DOMAIN batch, FinishBatch(b, k)
      PROVE  IInv'
  <2> DEFINE t == Len(task) + 1
             s == batch[b].final
  <2>1. OrderedCall(k, b, s, t, KernelPacket(t, s))
    BY <1>0, <1>4 DEF FinishBatch, OrderedCall
  <2> QED
    BY <2>1, OrderedCallPreserves
<1> QED
  BY <1>1, <1>2, <1>3, <1>4, StartBatchPreserves, DependentStartPreserves,
     LaunchBatchPreserves DEF Client

(* The steps of the calling thread.                                         *)
LEMMA HostPreserves ==
  ASSUME IInv, Host
  PROVE  IInv'
<1>1. CASE PickNext
  <2>1. CASE \E q \in Queue : \E t, b, s, pk : Picked(q, t, b, s, pk)
    BY <2>1, PickedPreserves
  <2>2. CASE /\ mCurrQid' \in Queue
             /\ UNCHANGED <<kind, ring, hsaWrite, readIndex, doorbell, signal, running,
                            mWriteIndex, todo, task, done, batch>>
    <3>1. doorbell \in [Queue -> Int] /\ mWriteIndex \in [Queue -> Nat]
      BY DEF IInv, TypeOK
    <3> QED
      BY <2>2, <3>1, QuietStep
  <2> QED
    BY <1>1, <2>1, <2>2, PickHappens
<1> QED
  BY <1>1, PutPreserves, RingPreserves, BatchPreserves DEF Host

-----------------------------------------------------------------------------
(* The device.  A packet that is gone has lowered its signal, which was not *)
(* zero, by one.                                                            *)
LEMMA LoweredSignals ==
  ASSUME IInv, NEW p \in PacketsOf, NEW new, new = Lowered(signal, p.sig)
  PROVE  /\ new \in Seq(Nat) /\ Len(new) = Len(signal)
         /\ \A s \in DOMAIN signal : signal[s] = 0 => new[s] = 0
         /\ p.sig # NullSignal => Exact(new, PacketsOf \ {p}, batch)
         /\ p.sig = NullSignal => Exact(new, PacketsOf, batch)
<1>1. /\ TypeOK /\ SignalInv /\ ListsTyped /\ PacketsTyped
  BY PacketTypes, ListTypes DEF IInv
<1>2. /\ signal \in Seq(Nat) /\ Len(signal) \in Nat /\ DOMAIN signal = 1..Len(signal)
      /\ IsFiniteSet(DOMAIN batch) /\ p.sig \in 0..Len(signal)
  <2>1. p.sig \in 0..Len(signal)
    BY <1>1, PacketFields DEF PacketsTyped
  <2>2. IsFiniteSet(DOMAIN batch)
    <3>1. Len(batch) \in Nat /\ DOMAIN batch = 1..Len(batch)
      BY <1>1 DEF ListsTyped
    <3>2. 1 \in Int /\ Len(batch) \in Int
      BY <3>1
    <3> QED
      BY <3>1, <3>2, FS_Interval
  <2> QED
    BY <1>1, <2>1, <2>2 DEF TypeOK, ListsTyped
<1>3. Exact(signal, PacketsOf, batch)
  BY <1>1, SignalInvIsExact
<1>4. CASE p.sig = NullSignal
  BY <1>2, <1>3, <1>4 DEF Lowered
<1>5. CASE p.sig # NullSignal
  <2>1. p.sig \in DOMAIN signal
    BY <1>2, <1>5 DEF NullSignal
  <2>2. new = [signal EXCEPT ![p.sig] = @ - 1]
    BY <1>5 DEF Lowered
  <2> DEFINE Q == PacketsOf \ {p}
  <2>3. \A y : y.sig # 0 => (y \in Q <=> y \in PacketsOf /\ y # p)
    OBVIOUS
  <2> HIDE DEF Q
  <2>4. signal[p.sig] # 0 /\ new \in Seq(Nat) /\ Exact(new, Q, batch)
    <3>1. /\ signal[p.sig] # 0
          /\ [signal EXCEPT ![p.sig] = @ - 1] \in Seq(Nat)
          /\ Exact([signal EXCEPT ![p.sig] = @ - 1], Q, batch)
      <4>1. signal \in Seq(Nat) /\ IsFiniteSet(DOMAIN batch)
        BY <1>2
      <4> QED
        BY <1>3, <2>1, <2>3, <4>1, ExactDrop
    <3> QED
      BY <2>2, <3>1, Zenon
  <2>5. Len(new) = Len(signal)
    BY <1>2, <2>1, <2>2, <2>4
  <2>6. ASSUME NEW s \in DOMAIN signal, signal[s] = 0
        PROVE  new[s] = 0
    BY <2>1, <2>2, <2>4, <2>6
  <2> QED
    BY <1>5, <2>4, <2>5, <2>6 DEF Q
<1> QED
  BY <1>4, <1>5

(* A step of the device: packets p are gone at most, signals go down, and   *)
(* what is read from a ring is at its head.                                 *)
DeviceEffect ==
  /\ UNCHANGED hostVars
  /\ signal' \in Seq(Nat) /\ Len(signal') = Len(signal)
  /\ \A s \in DOMAIN signal : signal[s] = 0 => signal'[s] = 0
  /\ done \subseteq done'
  /\ \A r \in Queue :
       /\ readIndex'[r] >= readIndex[r]
       /\ Index(r)' \subseteq Index(r)
       /\ \A j \in Index(r)' : ring'[r][Slot(j)] = ring[r][Slot(j)]
       /\ \A j \in Index(r) \ Index(r)' : \A s \in ring[r][Slot(j)].deps : signal[s] = 0

LEMMA DeviceGuards ==
  ASSUME DeviceEffect, NEW r \in Queue, NEW s \in DOMAIN signal, NEW b, Guarded(r, s, b)
  PROVE  Guarded(r, s, b)'
<1>1. signal[s] = 0 => signal'[s] = 0
  BY DEF DeviceEffect
<1>2. CASE signal[s] = 0
  BY <1>1, <1>2, SMTT(30) DEF Guarded
<1>3. CASE signal[s] # 0
  <2>1. PICK i \in Index(r) :
          /\ ring[r][Slot(i)].type = "barrier"
          /\ s \in ring[r][Slot(i)].deps
          /\ \A j \in Index(r) :
               j <= i /\ ring[r][Slot(j)].type = "kernel"
                 => task[ring[r][Slot(j)].task].batch # b
    BY <1>3 DEF Guarded
  <2>2. i \in Index(r)'
    BY <1>3, <2>1 DEF DeviceEffect
  <2>3. /\ \A j \in Index(r)' : j \in Index(r) /\ ring'[r][Slot(j)] = ring[r][Slot(j)]
        /\ task' = task
    BY DEF DeviceEffect, hostVars
  <2> QED
    BY <2>1, <2>2, <2>3 DEF Guarded
<1> QED
  BY <1>2, <1>3

LEMMA DeviceStepPreserves ==
  ASSUME IInv, DeviceEffect, TypeOK', RingInv', OnceInv', SignalInv', NothingLost',
         ClosedInv', OrderInv', PacketsOf' \subseteq PacketsOf,
         \A q \in Queue : \A p \in running'[q] : p.type = "kernel",
         \A t \in Running' \cup done' :
            t \in Running \cup done
              \/ LET b == task[t].batch
                 IN b # 0 => batch[b].dep = NullSignal \/ signal[batch[b].dep] = 0
  PROVE  IInv'
<1>1. /\ TypeOK /\ TodoInv /\ OwnerInv /\ LinkInv /\ DepInv /\ ListsTyped /\ TodoTyped
      /\ KernelsAreTasks
  BY ListTypes, TodoTypes, KernelTasks DEF IInv
<1>2. /\ UNCHANGED <<kind, hsaWrite, doorbell, mWriteIndex, mCurrQid, todo, task, batch>>
      /\ Len(signal') = Len(signal) /\ signal' \in Seq(Nat)
      /\ Queue' = Queue
  BY DEF DeviceEffect, hostVars, Queue
<1>3. Step' = Step
  BY <1>2 DEF Step, Packet, Queue
<1>4. TodoInv'
  <2>1. ASSUME NEW r \in Queue, Unread(r) < QueueSize
        PROVE  hsaWrite'[r] - readIndex'[r] < QueueSize
    <3>1. readIndex'[r] \in Nat /\ readIndex[r] \in Nat /\ hsaWrite[r] \in Nat
      BY <1>1, <1>2 DEF TypeOK
    <3>2. readIndex'[r] >= readIndex[r]
      BY DEF DeviceEffect
    <3> QED
      BY <1>2, <2>1, <3>1, <3>2, SizeAssumption DEF Unread
  <2>2. \A i \in DOMAIN todo : todo[i].do = "put" => todo[i].q \in Queue
    BY <1>1, StepFields DEF TodoTyped
  <2> QED
    BY <1>1, <1>2, <1>3, <2>1, <2>2 DEF TodoInv, Unread
<1>5. LinkInv'
  BY <1>1, <1>2 DEF LinkInv, Linked, Fitting
<1>6. OwnerInv'
  BY <1>1, <1>2 DEF OwnerInv
<1>7. DepInv'
  <2>1. \A x : x \in 0..Len(signal) /\ x # NullSignal => x \in DOMAIN signal
    BY <1>1 DEF ListsTyped, NullSignal
  <2>2. ASSUME NEW b \in DOMAIN batch, NEW r \in Queue, batch[b].dep # NullSignal,
               NEW s, s = batch[b].dep
        PROVE  Guarded(r, s, b)'
    <3>1. s \in DOMAIN signal
      BY <1>1, <2>1, <2>2 DEF ListsTyped
    <3>2. Guarded(r, s, b)
      BY <1>1, <2>2 DEF DepInv
    <3> QED
      BY <3>1, <3>2, DeviceGuards
  <2>3. ASSUME NEW i \in DOMAIN todo, NEW r \in Queue, todo[i].do = "batch",
               todo[i].dep # NullSignal, NEW s, s = todo[i].dep, NEW c, c = Len(batch) + 1
        PROVE  \/ Guarded(r, s, c)'
               \/ \E j \in DOMAIN todo :
                    /\ j < i
                    /\ todo[j].do = "put"
                    /\ todo[j].q = r
                    /\ todo[j].packet.type = "barrier"
                    /\ s \in todo[j].packet.deps
    <3>1. s \in DOMAIN signal
      <4>1. todo[i] \in Step
        BY <1>1 DEF TodoTyped
      <4> QED
        BY <2>1, <2>3, <4>1, StepFields
    <3>2. CASE Guarded(r, s, c)
      BY <3>1, <3>2, DeviceGuards
    <3>3. CASE ~Guarded(r, s, c)
      BY <1>1, <2>3, <3>3 DEF DepInv
    <3> QED
      BY <3>2, <3>3
  <2>4. DependentBatchWaits'
    <3> SUFFICES ASSUME NEW t \in Running' \cup done', task[t].batch # 0,
                        batch[task[t].batch].dep # NullSignal
                 PROVE  signal'[batch[task[t].batch].dep] = 0
      BY <1>2 DEF DependentBatchWaits
    <3> DEFINE b == task[t].batch
    <3>1. signal[batch[b].dep] = 0
      <4>1. CASE t \in Running \cup done
        BY <1>1, <4>1 DEF DepInv, DependentBatchWaits
      <4> QED
        BY <4>1
    <3>2. b \in DOMAIN batch
      <4>1. t \in DOMAIN task
        <5>2. t \in done' => t \in DOMAIN task
          BY <1>2 DEF TypeOK
        <5>3. t \in Running' => t \in DOMAIN task
          <6> SUFFICES ASSUME t \in Running'
                       PROVE  t \in DOMAIN task
            OBVIOUS
          <6>1. PICK r \in Queue : \E p \in running'[r] : t = p.task
            BY <1>2 DEF Running
          <6>2. PICK p \in running'[r] : t = p.task
            BY <6>1
          <6>3. p.type = "kernel" /\ p \in PacketsOf'
            BY <1>2, <6>2 DEF PacketsOf
          <6> QED
            BY <1>1, <6>2, <6>3 DEF KernelsAreTasks
        <5> QED
          BY <5>2, <5>3
      <4> QED
        BY <1>1, <4>1 DEF ListsTyped
    <3>3. batch[b].dep \in DOMAIN signal
      BY <1>1, <2>1, <3>2 DEF ListsTyped
    <3> QED
      BY <3>1, <3>3 DEF DeviceEffect
  <2> QED
    BY <1>2, <2>2, <2>3, <2>4 DEF DepInv
<1> QED
  BY <1>4, <1>5, <1>6, <1>7 DEF IInv

(* The device reads the packet p at the index i, in the slot x of queue q.  *)
ReadEffect(q, i, x, p) ==
  /\ q \in Queue /\ i \in Nat /\ i = readIndex[q] /\ x = Slot(i) /\ x \in 0..(QueueSize - 1)
  /\ i \in Index(q)
  /\ p = ring[q][x] /\ p \in Packet /\ p \in PacketsOf
  /\ p.barrier => running[q] = {}
  /\ \A s \in p.deps : signal[s] = 0
  /\ ring' = [ring EXCEPT ![q][x] = NoPacket]
  /\ readIndex' = [readIndex EXCEPT ![q] = i + 1]
  /\ UNCHANGED <<hostVars, done>>
  /\ \/ /\ p.type = "kernel"
        /\ running' = [running EXCEPT ![q] = @ \cup {p}]
        /\ UNCHANGED signal
     \/ /\ p.type = "barrier"
        /\ signal' = Lowered(signal, p.sig)
        /\ UNCHANGED running

LEMMA ReadHappens ==
  ASSUME IInv, NEW q \in Queue, Process(q)
  PROVE  \E i, x, p : ReadEffect(q, i, x, p)
<1> DEFINE i == readIndex[q]
           x == Slot(i)
           p == ring[q][x]
<1>1. TypeOK /\ RingInv /\ PacketPlaces
  BY Places DEF IInv
<1>2. i \in Nat /\ hsaWrite[q] \in Nat /\ x \in 0..(QueueSize - 1)
  BY <1>1, SlotIsOne DEF TypeOK
<1>3. p # NoPacket
  BY DEF Process
<1>4. p \in Packet /\ p \in PacketsOf
  <2>1. InRing(p)
    BY <1>2, <1>3 DEF InRing
  <2>2. p \in Packet \cup {NoPacket}
    <3>1. ring \in [Queue -> [0..(QueueSize - 1) -> Packet \cup {NoPacket}]]
      BY <1>1 DEF TypeOK
    <3> QED
      BY <1>2, <3>1
  <2> QED
    BY <1>1, <1>3, <2>1, <2>2 DEF PacketPlaces
<1>5. i \in Index(q)
  <2>1. PICK j \in Index(q) : x = Slot(j)
    BY <1>1, <1>2, <1>3 DEF RingInv
  <2>2. j \in Nat /\ i <= j /\ j < hsaWrite[q] /\ hsaWrite[q] <= i + QueueSize
    BY <1>1, <1>2, <2>1 DEF Index, RingInv
  <2>3. ASSUME i < j
        PROVE  FALSE
    <3>1. j < i + QueueSize
      BY <1>2, <2>2, SizeAssumption
    <3> QED
      BY <1>2, <2>1, <2>2, <2>3, <3>1, SlotsDiffer
  <2>4. j = i
    BY <1>2, <2>2, <2>3
  <2> QED
    BY <2>1, <2>4
<1>6. ReadEffect(q, i, x, p)
  BY <1>2, <1>4, <1>5 DEF ReadEffect, Process
<1> QED
  BY <1>6

(* The rings after it.                                                      *)
LEMMA ReadRings ==
  ASSUME IInv, NEW q, NEW i, NEW x, NEW p, ReadEffect(q, i, x, p)
  PROVE  /\ RingInv'
         /\ ring' \in [Queue -> [0..(QueueSize - 1) -> Packet \cup {NoPacket}]]
         /\ readIndex' \in [Queue -> Nat]
         /\ \A r \in Queue : \A y \in 0..(QueueSize - 1) :
              /\ ring'[r][y] # NoPacket => ring'[r][y] = ring[r][y] /\ ~(r = q /\ y = x)
              /\ ~(r = q /\ y = x) => ring'[r][y] = ring[r][y]
         /\ \A r \in Queue :
              /\ readIndex'[r] >= readIndex[r]
              /\ Index(r)' \subseteq Index(r)
              /\ \A j \in Index(r)' : ring'[r][Slot(j)] = ring[r][Slot(j)]
              /\ \A j \in Index(r) \ Index(r)' : r = q /\ j = i
<1>1. /\ TypeOK /\ RingInv
  BY DEF IInv
<1>2. /\ q \in Queue /\ i \in Nat /\ i = readIndex[q] /\ x = Slot(i)
      /\ x \in 0..(QueueSize - 1) /\ p = ring[q][x]
      /\ ring' = [ring EXCEPT ![q][x] = NoPacket]
      /\ readIndex' = [readIndex EXCEPT ![q] = i + 1]
      /\ hsaWrite' = hsaWrite /\ Queue' = Queue /\ i \in Index(q)
  BY DEF ReadEffect, hostVars, Queue
<1>3. /\ ring \in [Queue -> [0..(QueueSize - 1) -> Packet \cup {NoPacket}]]
      /\ readIndex \in [Queue -> Nat] /\ hsaWrite \in [Queue -> Nat]
  BY <1>1 DEF TypeOK
<1>4. ring' \in [Queue -> [0..(QueueSize - 1) -> Packet \cup {NoPacket}]]
  <2> DEFINE D == 0..(QueueSize - 1)
             V == Packet \cup {NoPacket}
  <2>1. ring \in [Queue -> [D -> V]] /\ NoPacket \in V /\ x \in D
    BY <1>2, <1>3
  <2> HIDE DEF D, V
  <2>2. ring' \in [Queue -> [D -> V]]
    BY <1>2, <2>1
  <2> QED
    BY <2>2 DEF D, V
<1>5. readIndex' \in [Queue -> Nat]
  BY <1>2, <1>3
<1>6. ASSUME NEW r \in Queue, NEW y \in 0..(QueueSize - 1)
      PROVE  /\ ring'[r][y] # NoPacket => ring'[r][y] = ring[r][y] /\ ~(r = q /\ y = x)
             /\ ~(r = q /\ y = x) => ring'[r][y] = ring[r][y]
  BY <1>2, <1>3
<1>7. ASSUME NEW r \in Queue
      PROVE  /\ readIndex'[r] >= readIndex[r]
             /\ \A j : j \in Index(r)' <=> j \in Index(r) /\ ~(r = q /\ j = i)
             /\ \A j \in Index(r) : j \in Nat /\ Slot(j) \in 0..(QueueSize - 1)
  <2>1. readIndex[r] \in Nat /\ hsaWrite[r] \in Nat
    BY <1>3
  <2>2. readIndex'[r] = (IF r = q THEN i + 1 ELSE readIndex[r]) /\ hsaWrite'[r] = hsaWrite[r]
    BY <1>2, <1>3
  <2>3. \A j \in Index(r) : j \in Nat /\ Slot(j) \in 0..(QueueSize - 1)
    BY <2>1, SlotIsOne DEF Index
  <2>4. \A j : j \in Index(r)' <=> j \in Index(r) /\ ~(r = q /\ j = i)
    <3>1. CASE r = q
      BY <1>2, <2>1, <2>2, <3>1 DEF Index
    <3>2. CASE r # q
      BY <2>2, <3>2 DEF Index
    <3> QED
      BY <3>1, <3>2
  <2> QED
    BY <1>2, <2>1, <2>2, <2>3, <2>4
<1>8. ASSUME NEW j \in Index(q), j # i
      PROVE  Slot(j) # x
  <2>1. /\ readIndex[q] \in Nat /\ hsaWrite[q] \in Nat
        /\ hsaWrite[q] <= i + QueueSize
    BY <1>1, <1>2, <1>3 DEF RingInv
  <2>2. j \in Nat /\ i < j /\ j < i + QueueSize
    BY <1>2, <1>8, <2>1, SizeAssumption DEF Index
  <2> QED
    BY <1>2, <2>2, SlotsDiffer
<1>9. ASSUME NEW r \in Queue, NEW j \in Index(r)'
      PROVE  ring'[r][Slot(j)] = ring[r][Slot(j)] /\ ring[r][Slot(j)] # NoPacket
  <2>1. j \in Index(r) /\ ~(r = q /\ j = i) /\ Slot(j) \in 0..(QueueSize - 1)
    BY <1>7, <1>9
  <2>2. ~(r = q /\ Slot(j) = x)
    BY <1>8, <2>1
  <2> QED
    BY <1>1, <1>6, <2>1, <2>2 DEF RingInv
<1>10. RingInv'
  <2>1. ASSUME NEW r \in Queue
        PROVE  readIndex'[r] <= hsaWrite'[r] /\ hsaWrite'[r] <= readIndex'[r] + QueueSize
    <3>1. /\ readIndex[r] \in Nat /\ hsaWrite[r] \in Nat
          /\ readIndex[r] <= hsaWrite[r] /\ hsaWrite[r] <= readIndex[r] + QueueSize
      BY <1>1, <1>3 DEF RingInv
    <3>2. readIndex'[r] = (IF r = q THEN i + 1 ELSE readIndex[r]) /\ hsaWrite'[r] = hsaWrite[r]
      BY <1>2, <1>3
    <3>3. r = q => i < hsaWrite[r]
      BY <1>2, <3>1 DEF Index
    <3> QED
      BY <1>2, <3>1, <3>2, <3>3, SizeAssumption
  <2>2. ASSUME NEW r \in Queue, NEW y \in 0..(QueueSize - 1), ring'[r][y] # NoPacket
        PROVE  \E j \in Index(r)' : y = Slot(j)
    <3>1. ring[r][y] # NoPacket /\ ~(r = q /\ y = x)
      BY <1>6, <2>2
    <3>2. PICK j \in Index(r) : y = Slot(j)
      BY <1>1, <3>1 DEF RingInv
    <3>3. ~(r = q /\ j = i)
      BY <1>2, <3>1, <3>2
    <3> QED
      BY <1>7, <3>2, <3>3
  <2> QED
    BY <1>2, <1>9, <2>1, <2>2 DEF RingInv
<1> QED
  BY <1>4, <1>5, <1>6, <1>7, <1>9, <1>10

(* A packet that lowers a signal is nowhere but in the slot it is read      *)
(* from.                                                                    *)
LEMMA OnlyInSlot ==
  ASSUME IInv, NEW q, NEW i, NEW x, NEW p, ReadEffect(q, i, x, p), p.sig # NullSignal
  PROVE  /\ ~InTodo(p)
         /\ \A r \in Queue : p \notin running[r]
         /\ \A r \in Queue : \A y \in 0..(QueueSize - 1) : ring[r][y] = p => r = q /\ y = x
<1>1. /\ TypeOK /\ OnceInv
      /\ q \in Queue /\ x \in 0..(QueueSize - 1) /\ p = ring[q][x] /\ p \in Packet
  BY DEF IInv, ReadEffect
<1>2. p # NoPacket
  BY <1>1, PacketFields
<1>3. p \in Pending(q)
  <2>1. DOMAIN ring[q] = 0..(QueueSize - 1)
    BY <1>1 DEF TypeOK
  <2> QED
    BY <1>1, <1>2, <2>1 DEF Pending, Range
<1>4. ~InTodo(p)
  BY <1>1, <1>3 DEF OnceInv, InTodo
<1>5. \A r \in Queue : p \notin running[r]
  BY <1>1, <1>3 DEF OnceInv
<1>6. \A r \in Queue : \A y \in 0..(QueueSize - 1) : ring[r][y] = p => r = q /\ y = x
  BY <1>1, <1>2 DEF OnceInv
<1> QED
  BY <1>4, <1>5, <1>6

(* A packet that lowers a signal is still in one place after a packet has   *)
(* been read or a kernel has completed.                                     *)
LEMMA OnceAfterDevice ==
  ASSUME IInv, NEW q \in Queue, NEW p,
         UNCHANGED todo,
         \A r \in Queue : \A y \in 0..(QueueSize - 1) :
            ring'[r][y] # NoPacket => ring'[r][y] = ring[r][y],
         \A r \in Queue : DOMAIN ring[r] = 0..(QueueSize - 1)
                            /\ DOMAIN ring'[r] = 0..(QueueSize - 1),
         \A r \in Queue : running'[r] \subseteq running[r] \cup (IF r = q THEN {p} ELSE {}),
         \/ \A r \in Queue : running'[r] \subseteq running[r]
         \/ p.sig = NullSignal
         \/ /\ ~InTodo(p)
            /\ \A r \in Queue : p \notin running[r]
            /\ \A r \in Queue : \A y \in 0..(QueueSize - 1) : ring'[r][y] # p
  PROVE  OnceInv'
<1>1. OnceInv /\ Queue' = Queue
  BY DEF IInv, Queue
<1>2. ASSUME NEW r \in Queue
      PROVE  Pending(r)' \subseteq Pending(r)
  <2> SUFFICES ASSUME NEW w \in Pending(r)'
               PROVE  w \in Pending(r)
    OBVIOUS
  <2>1. PICK y \in 0..(QueueSize - 1) : w = ring'[r][y] /\ w # NoPacket
    BY DEF Pending, Range
  <2>2. w = ring[r][y]
    BY <2>1
  <2> QED
    BY <2>1, <2>2 DEF Pending, Range
<1>3. ASSUME NEW r \in Queue, NEW w \in running'[r], w.sig # NullSignal
      PROVE  \/ w \in running[r]
             \/ /\ r = q /\ w = p /\ ~InTodo(p)
                /\ \A s \in Queue : p \notin running[s] /\ p \notin Pending(s)'
  <2>1. CASE \A s \in Queue : running'[s] \subseteq running[s]
    BY <1>3, <2>1
  <2>2. CASE p.sig = NullSignal
    BY <1>3, <2>2
  <2>3. CASE /\ ~InTodo(p)
             /\ \A s \in Queue : p \notin running[s]
             /\ \A s \in Queue : \A y \in 0..(QueueSize - 1) : ring'[s][y] # p
    <3>1. \A s \in Queue : p \notin Pending(s)'
      BY <2>3 DEF Pending, Range
    <3> QED
      BY <1>3, <2>3, <3>1
  <2> QED
    BY <2>1, <2>2, <2>3
<1>4. ASSUME NEW k \in DOMAIN todo', todo'[k].do = "put", todo'[k].packet.sig # NullSignal
      PROVE  /\ \A j \in DOMAIN todo' : todo'[j].do = "put" => j = k
             /\ \A r \in Queue : todo'[k].packet \notin Pending(r)' \cup running'[r]
  <2>1. /\ \A j \in DOMAIN todo : todo[j].do = "put" => j = k
        /\ \A r \in Queue : todo[k].packet \notin Pending(r) \cup running[r]
    BY <1>1, <1>4 DEF OnceInv
  <2>2. ASSUME NEW r \in Queue, todo[k].packet \in running'[r]
        PROVE  FALSE
    <3>1. InTodo(todo[k].packet)
      BY <1>4 DEF InTodo
    <3> QED
      BY <1>3, <1>4, <2>1, <2>2, <3>1
  <2> QED
    BY <1>2, <2>1, <2>2
<1>5. ASSUME NEW r \in Queue, NEW s \in Queue,
             NEW y \in 0..(QueueSize - 1), NEW z \in 0..(QueueSize - 1),
             ring'[r][y] # NoPacket, ring'[r][y].sig # NullSignal, ring'[r][y] = ring'[s][z]
      PROVE  r = s /\ y = z
  <2>1. ring'[r][y] = ring[r][y] /\ ring'[s][z] = ring[s][z]
    BY <1>5
  <2>2. ring[r][y] # NoPacket /\ ring[r][y].sig # NullSignal /\ ring[r][y] = ring[s][z]
    BY <1>5, <2>1
  <2>3. \A u, v \in Queue : \A a, b \in 0..(QueueSize - 1) :
          ring[u][a] # NoPacket /\ ring[u][a].sig # NullSignal /\ ring[u][a] = ring[v][b]
            => u = v /\ a = b
    BY <1>1 DEF OnceInv
  <2> QED
    BY <2>2, <2>3
<1>6. ASSUME NEW r \in Queue, NEW s \in Queue, NEW w \in running'[r], w.sig # NullSignal
      PROVE  w \notin Pending(s)' /\ (w \in running'[s] => r = s)
  <2>1. CASE w \in running[r]
    <3>1. w \notin Pending(s)'
      BY <1>1, <1>2, <1>6, <2>1 DEF OnceInv
    <3>2. ASSUME w \in running'[s]
          PROVE  r = s
      <4>1. w \in running[s]
        BY <1>3, <1>6, <2>1, <3>2
      <4> QED
        BY <1>1, <1>6, <2>1, <4>1 DEF OnceInv
    <3> QED
      BY <3>1, <3>2
  <2>2. CASE w \notin running[r]
    <3>1. r = q /\ w = p /\ \A u \in Queue : p \notin running[u] /\ p \notin Pending(u)'
      BY <1>3, <1>6, <2>2
    <3>2. ASSUME w \in running'[s]
          PROVE  r = s
      BY <1>3, <1>6, <3>1, <3>2
    <3> QED
      BY <3>1, <3>2
  <2> QED
    BY <2>1, <2>2
<1> QED
  BY <1>1, <1>4, <1>5, <1>6 DEF OnceInv

(* What is left of the packets when p is gone.                              *)
Gone(p) ==
  /\ p \in PacketsOf
  /\ PacketsOf' \subseteq PacketsOf
  /\ \A y \in PacketsOf : y # p => y \in PacketsOf'
  /\ p.sig # NullSignal => p \notin PacketsOf'
  /\ signal' = Lowered(signal, p.sig)
  /\ UNCHANGED batch

LEMMA GoneSignals ==
  ASSUME IInv, NEW p, Gone(p)
  PROVE  SignalInv'
<1>1. SignalInv' <=> Exact(signal, PacketsOf, batch)'
  BY SignalInvIsExact, PTL
<1>2. p \in PacketsOf /\ signal' = Lowered(signal, p.sig) /\ batch' = batch
  BY DEF Gone
<1>3. /\ signal' \in Seq(Nat)
      /\ p.sig # NullSignal => Exact(signal', PacketsOf \ {p}, batch)
      /\ p.sig = NullSignal => Exact(signal', PacketsOf, batch)
  BY <1>2, LoweredSignals
<1>4. Exact(signal', PacketsOf', batch)
  <2>1. CASE p.sig # NullSignal
    <3> DEFINE Q == PacketsOf \ {p}
    <3>1. \A y : y.sig # 0 => (y \in Q <=> y \in PacketsOf')
      BY <2>1 DEF Gone
    <3>2. Exact(signal', Q, batch)
      BY <1>3, <2>1
    <3> HIDE DEF Q
    <3> QED
      BY <1>3, <3>1, <3>2, ExactNull
  <2>2. CASE p.sig = NullSignal
    <3>1. \A y : y.sig # 0 => (y \in PacketsOf <=> y \in PacketsOf')
      BY <2>2 DEF Gone, NullSignal
    <3> QED
      BY <1>3, <2>2, <3>1, ExactNull
  <2> QED
    BY <2>1, <2>2
<1> QED
  BY <1>1, <1>2, <1>4

LEMMA ReadEffectOnDevice ==
  ASSUME IInv, NEW q, NEW i, NEW x, NEW p, ReadEffect(q, i, x, p)
  PROVE  DeviceEffect /\ TypeOK'
<1>1. /\ TypeOK /\ p \in Packet /\ p \in PacketsOf /\ q \in Queue
      /\ p = ring[q][Slot(i)] /\ \A s \in p.deps : signal[s] = 0
      /\ UNCHANGED <<hostVars, done>>
      /\ \/ running' = [running EXCEPT ![q] = @ \cup {p}] /\ UNCHANGED signal
         \/ signal' = Lowered(signal, p.sig) /\ UNCHANGED running
  BY DEF IInv, ReadEffect
<1>2. /\ ring' \in [Queue -> [0..(QueueSize - 1) -> Packet \cup {NoPacket}]]
      /\ readIndex' \in [Queue -> Nat]
      /\ \A r \in Queue :
           /\ readIndex'[r] >= readIndex[r]
           /\ Index(r)' \subseteq Index(r)
           /\ \A j \in Index(r)' : ring'[r][Slot(j)] = ring[r][Slot(j)]
           /\ \A j \in Index(r) \ Index(r)' : r = q /\ j = i
  BY ReadRings
<1>3. /\ signal' \in Seq(Nat) /\ Len(signal') = Len(signal)
      /\ \A s \in DOMAIN signal : signal[s] = 0 => signal'[s] = 0
  <2>1. CASE UNCHANGED signal
    BY <1>1, <2>1 DEF TypeOK
  <2>2. CASE signal' = Lowered(signal, p.sig)
    BY <1>1, <2>2, LoweredSignals
  <2> QED
    BY <1>1, <2>1, <2>2
<1>4. \A r \in Queue : \A j \in Index(r) \ Index(r)' :
        \A s \in ring[r][Slot(j)].deps : signal[s] = 0
  BY <1>1, <1>2
<1>5. DeviceEffect
  BY <1>1, <1>2, <1>3, <1>4 DEF DeviceEffect
<1>6. Packet' = Packet /\ DOMAIN signal' = DOMAIN signal
  <2>1. DOMAIN signal' = 1..Len(signal') /\ DOMAIN signal = 1..Len(signal)
    BY <1>1, <1>3, ListTypes DEF ListsTyped
  <2> QED
    BY <1>1, <1>3, <2>1 DEF Packet, hostVars
<1>7. running' \in [Queue -> SUBSET Packet]
  <2>1. running \in [Queue -> SUBSET Packet]
    BY <1>1 DEF TypeOK
  <2> QED
    BY <1>1, <2>1
<1>8. TypeOK'
  BY <1>1, <1>2, <1>3, <1>6, <1>7 DEF TypeOK, hostVars, Queue
<1> QED
  BY <1>5, <1>8

(* A kernel packet is read: the kernel begins to run.                       *)
LEMMA ReadKernelPreserves ==
  ASSUME IInv, NEW q, NEW i, NEW x, NEW p, ReadEffect(q, i, x, p), p.type = "kernel"
  PROVE  IInv'
<1>1. /\ TypeOK /\ SignalInv /\ NothingLost /\ ClosedInv /\ OrderInv /\ LinkInv /\ DepInv
      /\ ListsTyped /\ KernelsAreTasks /\ PacketPlaces
  BY ListTypes, KernelTasks, Places DEF IInv
<1>2. /\ q \in Queue /\ i \in Nat /\ i = readIndex[q] /\ x = Slot(i)
      /\ x \in 0..(QueueSize - 1)
      /\ i \in Index(q) /\ p = ring[q][x] /\ p \in Packet /\ p \in PacketsOf
      /\ p.barrier => running[q] = {}
      /\ readIndex' = [readIndex EXCEPT ![q] = i + 1]
      /\ UNCHANGED <<kind, hsaWrite, doorbell, mWriteIndex, mCurrQid, todo, task, batch, done>>
      /\ running' = [running EXCEPT ![q] = @ \cup {p}]
      /\ UNCHANGED signal
      /\ Queue' = Queue
  BY DEF ReadEffect, hostVars, Queue
<1>3. DeviceEffect /\ TypeOK'
  BY ReadEffectOnDevice
<1>4. /\ RingInv'
      /\ \A r \in Queue : \A y \in 0..(QueueSize - 1) :
           /\ ring'[r][y] # NoPacket => ring'[r][y] = ring[r][y] /\ ~(r = q /\ y = x)
           /\ ~(r = q /\ y = x) => ring'[r][y] = ring[r][y]
      /\ \A r \in Queue :
           /\ Index(r)' \subseteq Index(r)
           /\ \A j \in Index(r)' : ring'[r][Slot(j)] = ring[r][Slot(j)]
  BY ReadRings
<1>5. /\ running \in [Queue -> SUBSET Packet]
      /\ \A r \in Queue : running'[r] = running[r] \cup (IF r = q THEN {p} ELSE {})
      /\ p # NoPacket
  <2>1. running \in [Queue -> SUBSET Packet]
    BY <1>1 DEF TypeOK
  <2> QED
    BY <1>2, <2>1, PacketFields
<1>6. PacketsOf' = PacketsOf
  <2>1. PacketPlaces'
    <3>1. TypeOK' => PacketPlaces'
      BY Places, PTL
    <3> QED
      BY <1>3, <3>1
  <2>2. ASSUME NEW y
        PROVE  /\ InRing(y)' => InRing(y)
               /\ InRing(y) => InRing(y)' \/ y = p
               /\ InTodo(y)' <=> InTodo(y)
    BY <1>2, <1>4 DEF InRing, InTodo
  <2>3. InRing(p)
    BY <1>2, <1>5 DEF InRing
  <2>4. \A y : (\E r \in Queue : y \in running'[r]) <=> (\E r \in Queue : y \in running[r]) \/ y = p
    BY <1>2, <1>5
  <2>5. \A y : y \in PacketsOf' <=> y \in PacketsOf
    BY <1>1, <1>2, <2>1, <2>2, <2>3, <2>4 DEF PacketPlaces
  <2> QED
    BY <2>5
<1>7. OnceInv'
  <2>1. \A r \in Queue : DOMAIN ring[r] = 0..(QueueSize - 1)
                           /\ DOMAIN ring'[r] = 0..(QueueSize - 1)
    <3>1. ring' \in [Queue -> [0..(QueueSize - 1) -> Packet \cup {NoPacket}]]
      BY ReadRings
    <3> QED
      BY <1>1, <3>1 DEF TypeOK
  <2>2. \/ p.sig = NullSignal
        \/ /\ ~InTodo(p)
           /\ \A r \in Queue : p \notin running[r]
           /\ \A r \in Queue : \A y \in 0..(QueueSize - 1) : ring'[r][y] # p
    <3> SUFFICES ASSUME p.sig # NullSignal
                 PROVE  /\ ~InTodo(p)
                        /\ \A r \in Queue : p \notin running[r]
                        /\ \A r \in Queue : \A y \in 0..(QueueSize - 1) : ring'[r][y] # p
      OBVIOUS
    <3>1. /\ ~InTodo(p)
          /\ \A r \in Queue : p \notin running[r]
          /\ \A r \in Queue : \A y \in 0..(QueueSize - 1) : ring[r][y] = p => r = q /\ y = x
      BY OnlyInSlot
    <3> QED
      BY <1>4, <1>5, <3>1
  <2>3. \A r \in Queue : running'[r] \subseteq running[r] \cup (IF r = q THEN {p} ELSE {})
    BY <1>5
  <2>4. \A r \in Queue : \A y \in 0..(QueueSize - 1) :
          ring'[r][y] # NoPacket => ring'[r][y] = ring[r][y]
    BY <1>4
  <2>5. q \in Queue /\ UNCHANGED todo
    BY <1>2
  <2>6. \/ \A r \in Queue : running'[r] \subseteq running[r]
        \/ p.sig = NullSignal
        \/ /\ ~InTodo(p)
           /\ \A r \in Queue : p \notin running[r]
           /\ \A r \in Queue : \A y \in 0..(QueueSize - 1) : ring'[r][y] # p
    BY <2>2, Zenon
  <2> HIDE <2>2
  <2> QED
    BY <2>1, <2>3, <2>4, <2>5, <2>6, OnceAfterDevice
<1>8. SignalInv'
  BY <1>1, <1>2, <1>6 DEF SignalInv, SignalsExact, Owing
<1>9. NothingLost'
  BY <1>1, <1>2, <1>6 DEF NothingLost
<1>10. ClosedInv'
  BY <1>1, <1>2, <1>6 DEF ClosedInv
<1>11. \A r \in Queue : \A w \in running'[r] : w.type = "kernel"
  BY <1>1, <1>5 DEF LinkInv
<1>12. OrderInv'
  <2> SUFFICES ASSUME kind = "ordered"
               PROVE  OrderInv'
    BY <1>2 DEF OrderInv
  <2>1. q = 0
    <3>1. readIndex[q] \in Nat /\ hsaWrite[q] > readIndex[q]
      BY <1>1, <1>2 DEF TypeOK, Index
    <3> QED
      BY <1>1, <1>2, <3>1 DEF OrderInv
  <2>2. p.task = i + 1 /\ running[0] = {}
    <3>1. p.barrier
      BY <1>1, <1>2 DEF LinkInv, Linked
    <3> QED
      BY <1>1, <1>2, <2>1, <3>1 DEF OrderInv
  <2>3. running'[0] = {p} /\ readIndex'[0] = i + 1
    <3>1. readIndex \in [Queue -> Nat]
      BY <1>1 DEF TypeOK
    <3> QED
      BY <1>2, <1>5, <2>1, <2>2, <3>1
  <2>4. 1..i \subseteq done /\ done \subseteq 1..i
    BY <1>1, <1>2, <2>1, <2>2 DEF OrderInv
  <2>5. /\ \A w \in running'[0] : w.task = readIndex'[0]
        /\ 1..(readIndex'[0] - 1) \subseteq done'
        /\ running'[0] # {}
        /\ done' \subseteq 1..readIndex'[0]
    <3>1. i \in Nat /\ readIndex'[0] - 1 = i /\ 1..i \subseteq 1..(i + 1)
      BY <1>2, <2>3
    <3>2. \A w \in {p} : w.task = i + 1
      BY <2>2
    <3> QED
      BY <1>2, <2>3, <2>4, <3>1, <3>2
  <2>6. \A j \in Index(0)' : ring'[0][Slot(j)].type = "kernel" /\ ring'[0][Slot(j)].task = j + 1
    <3>1. \A j \in Index(0) : ring[0][Slot(j)].type = "kernel" /\ ring[0][Slot(j)].task = j + 1
      BY <1>1 DEF OrderInv
    <3> QED
      BY <1>2, <1>4, <2>1, <3>1
  <2>7. \A r \in Queue \ {0} : hsaWrite'[r] = 0 /\ running'[r] = {}
    BY <1>1, <1>2, <1>5, <2>1 DEF OrderInv
  <2> QED
    BY <1>1, <1>2, <2>5, <2>6, <2>7 DEF OrderInv
<1>13. ASSUME NEW t \in Running' \cup done'
       PROVE  t \in Running \cup done \/ t = p.task
  <2>1. CASE t \in done'
    BY <1>2, <2>1
  <2>2. CASE t \in Running'
    <3>1. \E r \in Queue : \E w \in running'[r] : t = w.task
      BY <1>2, <2>2 DEF Running
    <3>2. \A r \in Queue : \A w \in running'[r] : w = p \/ w \in running[r]
      BY <1>5
    <3>3. (\E r \in Queue : \E w \in running[r] : t = w.task) \/ t = p.task
      BY <3>1, <3>2, Zenon
    <3> QED
      BY <3>3 DEF Running
  <2> QED
    BY <2>1, <2>2
<1>14. LET b == task[p.task].batch
       IN b # 0 => batch[b].dep = NullSignal \/ signal[batch[b].dep] = 0
  <2> SUFFICES ASSUME NEW b, b = task[p.task].batch, NEW s, s = batch[b].dep,
                      b # 0, s # NullSignal, signal[s] # 0
               PROVE  FALSE
    OBVIOUS
  <2>1. b \in DOMAIN batch
    <3>1. p.task \in DOMAIN task
      BY <1>1, <1>2 DEF KernelsAreTasks
    <3>2. task[p.task].batch \in 0..Len(batch) /\ Len(batch) \in Nat /\ DOMAIN batch = 1..Len(batch)
      BY <1>1, <3>1 DEF ListsTyped
    <3> QED
      BY <3>2
  <2>2. Guarded(q, s, b)
    BY <1>1, <1>2, <2>1 DEF DepInv
  <2>3. \E j \in Index(q) :
          \A l \in Index(q) :
             l <= j /\ ring[q][Slot(l)].type = "kernel" => task[ring[q][Slot(l)].task].batch # b
    BY <2>2 DEF Guarded
  <2>4. PICK j \in Index(q) :
          \A l \in Index(q) :
             l <= j /\ ring[q][Slot(l)].type = "kernel" => task[ring[q][Slot(l)].task].batch # b
    BY <2>3
  <2>5. i <= j
    <3>1. readIndex[q] \in Nat /\ hsaWrite[q] \in Nat
      BY <1>1, <1>2 DEF TypeOK
    <3>2. i = readIndex[q] /\ j \in readIndex[q]..(hsaWrite[q] - 1)
      BY <1>2, <2>4 DEF Index
    <3> HIDE <2>4
    <3> QED
      BY <3>1, <3>2
  <2>6. ring[q][Slot(i)] = p /\ i \in Index(q)
    BY <1>2
  <2> QED
    BY <2>4, <2>5, <2>6
<1> QED
  BY <1>3, <1>4, <1>6, <1>7, <1>8, <1>9, <1>10, <1>11, <1>12, <1>13, <1>14, DeviceStepPreserves

(* Nothing is left that will lower a signal that is zero.                   *)
LEMMA NothingOwed ==
  ASSUME IInv, NEW s \in DOMAIN signal, signal[s] = 0
  PROVE  Owing(s) = {} /\ OpenWith(batch, s) = {}
<1> DEFINE O == Owing(s)
           X == OpenWith(batch, s)
<1>1. /\ SignalInv /\ ListsTyped
  BY ListTypes DEF IInv
<1>2. IsFiniteSet(O) /\ signal[s] = Cardinality(O) + Cardinality(X)
  BY <1>1 DEF SignalInv, SignalsExact, Owing, OpenWith
<1>3. IsFiniteSet(DOMAIN batch)
  <2>1. Len(batch) \in Int /\ 1 \in Int /\ DOMAIN batch = 1..Len(batch)
    BY <1>1 DEF ListsTyped
  <2> QED
    BY <2>1, FS_Interval
<1>4. IsFiniteSet(X) /\ Cardinality(X) \in Nat
  BY <1>3, OpenFinite
<1> HIDE DEF O, X
<1>5. /\ Cardinality(O) \in Nat /\ (Cardinality(O) = 0 <=> O = {})
      /\ Cardinality(X) = 0 <=> X = {}
  BY <1>2, <1>4, FS_CardinalityType, FS_EmptySet
<1>6. O = {} /\ X = {}
  BY <1>2, <1>4, <1>5
<1> QED
  BY <1>6 DEF O, X

(* Once the signals of a closed batch's queues are zero, its kernels are    *)
(* done: a packet holds the signals of all of them.                         *)
LEMMA SharesZero ==
  ASSUME IInv, NumQs <= BarrierDeps, NEW b \in DOMAIN batch, ~batch[b].open,
         kind = "unordered",
         \A s \in Fitting(batch[b].perQ) : signal[s] = 0
  PROVE  \A t \in DOMAIN task : task[t].batch = b => t \in done
<1>1. /\ TypeOK /\ SignalInv /\ NothingLost /\ LinkInv /\ OwnerInv /\ TodoInv /\ ListsTyped
  BY ListTypes DEF IInv
<1>2. Range(batch[b].perQ) \subseteq Fitting(batch[b].perQ)
  <2> DEFINE f == batch[b].perQ
  <2>1. f \in Seq(DOMAIN signal) /\ Len(f) = NumQs
    BY <1>1 DEF ListsTyped, OwnerInv
  <2>2. \A i \in DOMAIN f : i \in 1..BarrierDeps
    BY <2>1, QueueFacts, DepsAssumption
  <2> QED
    BY <2>2 DEF Fitting, Range
<1>3. ASSUME NEW p \in PacketsOf, p.sig \in Range(batch[b].perQ)
      PROVE  FALSE
  <2>1. p.sig \in DOMAIN signal
    <3>1. batch[b].perQ \in Seq(DOMAIN signal)
      BY <1>1 DEF ListsTyped
    <3> QED
      BY <1>3, <3>1 DEF Range
  <2>2. Owing(p.sig) = {}
    BY <1>2, <1>3, <2>1, NothingOwed
  <2> QED
    BY <2>2 DEF Owing
<1> SUFFICES ASSUME NEW t \in DOMAIN task, task[t].batch = b
             PROVE  t \in done
  OBVIOUS
<1>4. ASSUME NEW p \in PacketsOf, p.type = "kernel", p.task = t
      PROVE  FALSE
  <2>1. b # 0
    BY <1>1 DEF ListsTyped
  <2>2. p.sig \in Range(batch[b].perQ)
    BY <1>1, <1>4, <2>1 DEF LinkInv, Linked
  <2> QED
    BY <1>3, <2>2
<1>5. ASSUME NEW s \in Range(todo), s.do = "pick", s.task = t
      PROVE  FALSE
  <2>1. PICK i \in DOMAIN todo : s = todo[i]
    BY DEF Range
  <2>2. b # 0
    BY <1>1 DEF ListsTyped
  <2> QED
    BY <1>1, <1>5, <2>1, <2>2 DEF TodoInv
<1> QED
  BY <1>1, <1>4, <1>5 DEF NothingLost

(* A barrier packet is read.                                                *)
LEMMA ReadBarrierPreserves ==
  ASSUME IInv, NEW q, NEW i, NEW x, NEW p, ReadEffect(q, i, x, p), p.type = "barrier"
  PROVE  IInv'
<1>1. /\ TypeOK /\ SignalInv /\ NothingLost /\ ClosedInv /\ OrderInv /\ LinkInv /\ OwnerInv
      /\ ListsTyped /\ PacketPlaces
  BY ListTypes, Places DEF IInv
<1>2. /\ q \in Queue /\ x \in 0..(QueueSize - 1)
      /\ p = ring[q][x] /\ p \in Packet /\ p \in PacketsOf
      /\ \A s \in p.deps : signal[s] = 0
      /\ UNCHANGED <<kind, hsaWrite, doorbell, mWriteIndex, mCurrQid, todo, task, batch, done>>
      /\ signal' = Lowered(signal, p.sig)
      /\ UNCHANGED running
      /\ Queue' = Queue
  BY DEF ReadEffect, hostVars, Queue
<1>3. DeviceEffect /\ TypeOK'
  BY ReadEffectOnDevice
<1>4. /\ RingInv'
      /\ \A r \in Queue : \A y \in 0..(QueueSize - 1) :
           /\ ring'[r][y] # NoPacket => ring'[r][y] = ring[r][y] /\ ~(r = q /\ y = x)
           /\ ~(r = q /\ y = x) => ring'[r][y] = ring[r][y]
  BY ReadRings
<1>5. p # NoPacket
  BY <1>2, PacketFields
<1>6. Gone(p)
  <2>1. PacketPlaces'
    <3>1. TypeOK' => PacketPlaces'
      BY Places, PTL
    <3> QED
      BY <1>3, <3>1
  <2>2. ASSUME NEW y
        PROVE  /\ InRing(y)' => InRing(y)
               /\ InRing(y) => InRing(y)' \/ y = p
               /\ InTodo(y)' <=> InTodo(y)
    BY <1>2, <1>4 DEF InRing, InTodo
  <2>3. /\ \A y \in PacketsOf' : y \in PacketsOf
        /\ \A y \in PacketsOf : y # p => y \in PacketsOf'
    BY <1>1, <1>2, <2>1, <2>2 DEF PacketPlaces
  <2>4. ASSUME p.sig # NullSignal
        PROVE  p \notin PacketsOf'
    <3>1. /\ ~InTodo(p)
          /\ \A r \in Queue : p \notin running[r]
          /\ \A r \in Queue : \A y \in 0..(QueueSize - 1) : ring[r][y] = p => r = q /\ y = x
      BY <2>4, OnlyInSlot
    <3>2. ~InRing(p)'
      BY <1>2, <1>4, <3>1 DEF InRing
    <3> QED
      BY <1>2, <2>1, <2>2, <3>1, <3>2 DEF PacketPlaces
  <2> QED
    BY <1>2, <2>3, <2>4 DEF Gone
<1>7. OnceInv'
  <2>1. \A r \in Queue : DOMAIN ring[r] = 0..(QueueSize - 1)
                           /\ DOMAIN ring'[r] = 0..(QueueSize - 1)
    <3>1. ring' \in [Queue -> [0..(QueueSize - 1) -> Packet \cup {NoPacket}]]
      BY ReadRings
    <3> QED
      BY <1>1, <3>1 DEF TypeOK
  <2>2. \A r \in Queue : \A y \in 0..(QueueSize - 1) :
          ring'[r][y] # NoPacket => ring'[r][y] = ring[r][y]
    BY <1>4
  <2>3. /\ \A r \in Queue : running'[r] \subseteq running[r]
        /\ \A r \in Queue : running'[r] \subseteq running[r] \cup (IF r = q THEN {p} ELSE {})
        /\ q \in Queue /\ UNCHANGED todo
    BY <1>2
  <2> QED
    BY <2>1, <2>2, <2>3, OnceAfterDevice
<1>8. SignalInv'
  BY <1>6, GoneSignals
<1>9. NothingLost'
  <2>1. \A y \in PacketsOf : y.type = "kernel" => y \in PacketsOf'
    BY <1>6 DEF Gone
  <2> QED
    BY <1>1, <1>2, <2>1 DEF NothingLost
<1>10. ClosedInv'
  <2> SUFFICES ASSUME NEW b \in DOMAIN batch, ~batch[b].open, kind = "unordered",
                      NumQs <= BarrierDeps
               PROVE  \/ \E w \in PacketsOf' : w.type = "barrier" /\ w.sig = batch[b].final
                      \/ \A t \in DOMAIN task : task[t].batch = b => t \in done
    BY <1>1, <1>2 DEF ClosedInv
  <2>1. CASE \A t \in DOMAIN task : task[t].batch = b => t \in done
    BY <2>1
  <2>2. CASE ~(\A t \in DOMAIN task : task[t].batch = b => t \in done)
    <3>1. PICK w \in PacketsOf : w.type = "barrier" /\ w.sig = batch[b].final
      BY <1>1, <2>2 DEF ClosedInv
    <3>2. w # p
      <4> SUFFICES ASSUME w = p
                   PROVE  FALSE
        OBVIOUS
      <4>1. p.deps = Fitting(batch[b].perQ)
        BY <1>1, <3>1 DEF LinkInv, Linked
      <4> QED
        BY <1>2, <2>2, <4>1, SharesZero
    <3> QED
      BY <1>6, <3>1, <3>2 DEF Gone
  <2> QED
    BY <2>1, <2>2
<1>11. \A r \in Queue : \A w \in running'[r] : w.type = "kernel"
  BY <1>1, <1>2 DEF LinkInv
<1>12. OrderInv'
  <2>1. kind = "unordered"
    BY <1>1, <1>2 DEF LinkInv, Linked
  <2> QED
    BY <1>2, <2>1 DEF OrderInv
<1>13. Running' = Running /\ done' = done
  BY <1>2 DEF Running
<1>14. PacketsOf' \subseteq PacketsOf
  BY <1>6 DEF Gone
<1> QED
  BY <1>3, <1>4, <1>7, <1>8, <1>9, <1>10, <1>11, <1>12, <1>13, <1>14, DeviceStepPreserves

(* A kernel completes.                                                      *)
LEMMA CompletePreserves ==
  ASSUME IInv, NEW q \in Queue, NEW p \in running[q], Complete(q, p)
  PROVE  IInv'
<1>1. /\ TypeOK /\ SignalInv /\ NothingLost /\ ClosedInv /\ OrderInv /\ LinkInv /\ OnceInv
      /\ ListsTyped /\ PacketPlaces /\ PacketsTyped /\ RingInv
  BY ListTypes, PacketTypes, Places DEF IInv
<1>2. /\ UNCHANGED <<kind, hsaWrite, doorbell, mWriteIndex, mCurrQid, todo, task, batch,
                     ring, readIndex>>
      /\ running' = [running EXCEPT ![q] = @ \ {p}]
      /\ signal' = Lowered(signal, p.sig)
      /\ done' = done \cup {p.task}
      /\ Queue' = Queue
  BY DEF Complete, hostVars, Queue
<1>3. p \in PacketsOf /\ p \in Packet /\ p.type = "kernel" /\ p.task \in Running
  <2>1. p \in PacketsOf /\ p.type = "kernel" /\ p.task \in Running
    BY <1>1 DEF PacketsOf, LinkInv, Running
  <2> QED
    BY <1>1, <2>1 DEF PacketsTyped
<1>4. /\ signal' \in Seq(Nat) /\ Len(signal') = Len(signal)
      /\ \A s \in DOMAIN signal : signal[s] = 0 => signal'[s] = 0
  BY <1>2, <1>3, LoweredSignals
<1>5. DeviceEffect
  <2>1. \A r \in Queue : Index(r)' = Index(r) /\ readIndex[r] \in Nat
    BY <1>1, <1>2 DEF Index, TypeOK
  <2>2. \A r \in Queue : readIndex'[r] >= readIndex[r]
    BY <1>2, <2>1
  <2> QED
    BY <1>2, <1>4, <2>1, <2>2 DEF DeviceEffect, hostVars
<1>6. /\ running \in [Queue -> SUBSET Packet]
      /\ \A r \in Queue : running'[r] = running[r] \ (IF r = q THEN {p} ELSE {})
  <2>1. running \in [Queue -> SUBSET Packet]
    BY <1>1 DEF TypeOK
  <2> QED
    BY <1>2, <2>1
<1>7. TypeOK'
  <2>1. Packet' = Packet /\ DOMAIN signal' = DOMAIN signal
    <3>1. DOMAIN signal' = 1..Len(signal') /\ DOMAIN signal = 1..Len(signal)
      BY <1>1, <1>4 DEF ListsTyped
    <3> QED
      BY <1>2, <1>4, <3>1 DEF Packet
  <2>2. running' \in [Queue -> SUBSET Packet]
    BY <1>2, <1>6
  <2>3. p.task \in DOMAIN task
    BY <1>3, KernelTasks DEF KernelsAreTasks
  <2> QED
    BY <1>1, <1>2, <1>4, <2>1, <2>2, <2>3 DEF TypeOK
<1>8. RingInv'
  BY <1>1, <1>2 DEF RingInv, Index
<1>9. Gone(p)
  <2>1. PacketPlaces'
    <3>1. TypeOK' => PacketPlaces'
      BY Places, PTL
    <3> QED
      BY <1>7, <3>1
  <2>2. \A y : (InRing(y)' <=> InRing(y)) /\ (InTodo(y)' <=> InTodo(y))
    BY <1>2 DEF InRing, InTodo
  <2>3. /\ \A y : (\E r \in Queue : y \in running'[r]) => (\E r \in Queue : y \in running[r])
        /\ \A y : (\E r \in Queue : y \in running[r]) =>
                     (\E r \in Queue : y \in running'[r]) \/ y = p
    BY <1>6
  <2>4. /\ \A y \in PacketsOf' : y \in PacketsOf
        /\ \A y \in PacketsOf : y # p => y \in PacketsOf'
    BY <1>1, <1>2, <2>1, <2>2, <2>3 DEF PacketPlaces
  <2>5. ASSUME p.sig # NullSignal
        PROVE  p \notin PacketsOf'
    <3>1. ~InTodo(p)
      BY <1>1, <2>5 DEF OnceInv, InTodo
    <3>2. \A r \in Queue : p \notin Pending(r) /\ (p \in running[r] => q = r)
      BY <1>1, <2>5 DEF OnceInv
    <3>3. ~InRing(p)
      <4>1. \A r \in Queue : DOMAIN ring[r] = 0..(QueueSize - 1)
        BY <1>1 DEF TypeOK
      <4> QED
        BY <3>2, <4>1 DEF InRing, Pending, Range
    <3>4. \A r \in Queue : p \notin running'[r]
      BY <1>6, <3>2
    <3> QED
      BY <1>2, <2>1, <2>2, <3>1, <3>3, <3>4 DEF PacketPlaces
  <2> QED
    BY <1>2, <1>3, <2>4, <2>5 DEF Gone
<1>10. OnceInv'
  <2>1. \A r \in Queue : DOMAIN ring[r] = 0..(QueueSize - 1)
                           /\ DOMAIN ring'[r] = 0..(QueueSize - 1)
    BY <1>1, <1>2 DEF TypeOK
  <2>2. \A r \in Queue : \A y \in 0..(QueueSize - 1) :
          ring'[r][y] # NoPacket => ring'[r][y] = ring[r][y]
    BY <1>2
  <2>3. /\ \A r \in Queue : running'[r] \subseteq running[r]
        /\ \A r \in Queue : running'[r] \subseteq running[r] \cup (IF r = q THEN {p} ELSE {})
        /\ UNCHANGED todo
    BY <1>2, <1>6
  <2> QED
    BY <2>1, <2>2, <2>3, OnceAfterDevice
<1>11. SignalInv'
  BY <1>9, GoneSignals
<1>12. NothingLost'
  <2> SUFFICES ASSUME NEW t \in DOMAIN task
               PROVE  \/ t \in done'
                      \/ \E y \in PacketsOf' : y.type = "kernel" /\ y.task = t
                      \/ \E s \in Range(todo) : s.do = "pick" /\ s.task = t
    BY <1>2 DEF NothingLost
  <2>1. CASE \E y \in PacketsOf : y.type = "kernel" /\ y.task = t
    <3>1. PICK y \in PacketsOf : y.type = "kernel" /\ y.task = t
      BY <2>1
    <3>2. CASE y = p
      BY <1>2, <3>1, <3>2
    <3>3. CASE y # p
      BY <1>9, <3>1, <3>3 DEF Gone
    <3> QED
      BY <3>2, <3>3
  <2>2. CASE t \in done \/ \E s \in Range(todo) : s.do = "pick" /\ s.task = t
    BY <1>2, <2>2
  <2> QED
    BY <1>1, <2>1, <2>2 DEF NothingLost
<1>13. ClosedInv'
  <2>1. \A w \in PacketsOf : w.type = "barrier" => w \in PacketsOf'
    BY <1>3, <1>9 DEF Gone
  <2>2. done \subseteq done'
    BY <1>2
  <2> QED
    BY <1>1, <1>2, <2>1, <2>2 DEF ClosedInv
<1>14. \A r \in Queue : \A w \in running'[r] : w.type = "kernel"
  BY <1>1, <1>6 DEF LinkInv
<1>15. OrderInv'
  <2> SUFFICES ASSUME kind = "ordered"
               PROVE  OrderInv'
    BY <1>2 DEF OrderInv
  <2>1. q = 0 /\ p.task = readIndex[0] /\ readIndex[0] \in Nat /\ p.task \in 1..Len(task)
    <3>1. q = 0
      BY <1>1 DEF OrderInv
    <3>2. p.task = readIndex[0]
      BY <1>1, <3>1 DEF OrderInv
    <3>3. readIndex[0] \in Nat
      BY <1>1, <3>1 DEF TypeOK
    <3>4. p.task \in 1..Len(task)
      BY <1>3, PacketFields
    <3> QED
      BY <3>1, <3>2, <3>3, <3>4
  <2>2. 1..(readIndex[0] - 1) \subseteq done /\ done \subseteq 1..readIndex[0]
    BY <1>1 DEF OrderInv
  <2>3. 1..readIndex[0] \subseteq done' /\ done' \subseteq 1..readIndex[0]
        /\ 1..(readIndex[0] - 1) \subseteq done'
    <3> DEFINE n == readIndex[0]
    <3>1. n \in Nat /\ 1 <= n /\ p.task = n /\ 1..(n - 1) \subseteq done /\ done \subseteq 1..n
          /\ done' = done \cup {n}
      <4>1. \A u \in 1..Len(task) : 1 <= u
        OBVIOUS
      <4> QED
        BY <1>2, <2>1, <2>2, <4>1
    <3> HIDE DEF n
    <3>2. n \in 1..n /\ \A u \in 1..n : u \in 1..(n - 1) \/ u = n
      BY <3>1
    <3> QED
      BY <3>1, <3>2 DEF n
  <2>4. \A w \in running'[0] : w \in running[0]
    BY <1>6, <2>1
  <2>5. \A r \in Queue \ {0} : hsaWrite'[r] = 0 /\ running'[r] = {}
    BY <1>1, <1>2, <1>6 DEF OrderInv
  <2>6. Index(0)' = Index(0)
    BY <1>2 DEF Index
  <2> QED
    BY <1>1, <1>2, <2>3, <2>4, <2>5, <2>6 DEF OrderInv
<1>16. ASSUME NEW t \in Running' \cup done'
       PROVE  t \in Running \cup done
  <2>1. CASE t \in done'
    BY <1>2, <1>3, <2>1
  <2>2. CASE t \in Running'
    <3>1. PICK r \in Queue : \E w \in running'[r] : t = w.task
      BY <1>2, <2>2 DEF Running
    <3>2. PICK w \in running'[r] : t = w.task
      BY <3>1
    <3> QED
      BY <1>6, <3>2 DEF Running
  <2> QED
    BY <2>1, <2>2
<1>17. PacketsOf' \subseteq PacketsOf
  BY <1>9 DEF Gone
<1> QED
  BY <1>5, <1>7, <1>8, <1>10, <1>11, <1>12, <1>13, <1>14, <1>15, <1>16, <1>17,
     DeviceStepPreserves

LEMMA DevicePreserves ==
  ASSUME IInv, Device
  PROVE  IInv'
<1>1. PICK q \in Queue : Process(q) \/ \E p \in running[q] : Complete(q, p)
  BY DEF Device
<1>2. CASE Process(q)
  <2>1. PICK i, x, p : ReadEffect(q, i, x, p)
    BY <1>2, ReadHappens
  <2>2. p.type = "kernel" \/ p.type = "barrier"
    BY <2>1 DEF ReadEffect
  <2> QED
    BY <2>1, <2>2, ReadKernelPreserves, ReadBarrierPreserves
<1>3. CASE \E p \in running[q] : Complete(q, p)
  BY <1>3, CompletePreserves
<1> QED
  BY <1>1, <1>2, <1>3

-----------------------------------------------------------------------------
LEMMA NextIInv ==
  ASSUME MaxUnread <= QueueSize, IInv, [Next]_vars
  PROVE  IInv'
<1>1. CASE UNCHANGED vars
  <2>1. /\ UNCHANGED <<kind, ring, hsaWrite, readIndex, signal, running, todo, task, done, batch>>
        /\ doorbell' = doorbell /\ mWriteIndex' = mWriteIndex /\ mCurrQid' = mCurrQid
    BY <1>1 DEF vars
  <2>2. /\ doorbell \in [Queue -> Int] /\ mWriteIndex \in [Queue -> Nat]
        /\ mCurrQid \in Queue
    BY DEF IInv, TypeOK
  <2> QED
    BY <2>1, <2>2, QuietStep
<1> QED
  BY <1>1, ClientPreserves, HostPreserves, DevicePreserves DEF Next

(* The inductive invariant holds of every execution in which the client     *)
(* never lets more packets pile up in a queue than there are slots.  It     *)
(* includes the types of all variables.                                     *)
THEOREM Invariance == MaxUnread <= QueueSize => (Spec => []IInv)
<1> SUFFICES ASSUME MaxUnread <= QueueSize
             PROVE  Spec => []IInv
  OBVIOUS
<1>1. Init => IInv
  BY InitIInv
<1>2. IInv /\ [Next]_vars => IInv'
  BY NextIInv
<1> QED
  BY <1>1, <1>2, PTL DEF Spec

(* No kernel that launchTask, launchAndForget, addToBatch or finishBatch    *)
(* was given is lost: no packet is written over another one (giveOneSlot,   *)
(* ringDoorbell), and none leaves the device before it has completed.       *)
THEOREM KeepsEveryKernel == MaxUnread <= QueueSize => (Spec => []NothingLost)
<1>1. IInv => NothingLost
  BY DEF IInv
<1> QED
  BY <1>1, Invariance, PTL

(* The value of every completion signal is the number of packets that will  *)
(* lower it, and one more for the final signal of an open batch: no signal  *)
(* drops below zero, and none is zero while work behind it is left.         *)
THEOREM SignalsCount == MaxUnread <= QueueSize => (Spec => []SignalsExact)
<1>1. IInv => SignalsExact
  BY DEF IInv, SignalInv
<1> QED
  BY <1>1, Invariance, PTL

(* startBatch with a handle: no kernel of the batch runs before the handle  *)
(* is complete, whichever queues the kernels of the batch go to.            *)
THEOREM BatchesWait == MaxUnread <= QueueSize => (Spec => []DependentBatchWaits)
<1>1. IInv => DependentBatchWaits
  BY DEF IInv, DepInv
<1> QED
  BY <1>1, Invariance, PTL

(* The kernels of an ordered executor run one after the other, in the order *)
(* of the calls that handed them over (the barrier bit of their packets).   *)
LEMMA RunsInOrder == IInv => InLaunchOrder
<1> SUFFICES ASSUME IInv, kind = "ordered", NEW t \in Running \cup done
             PROVE  1..(t - 1) \subseteq done
  BY DEF InLaunchOrder
<1>1. /\ OrderInv /\ readIndex[0] \in Nat /\ done \subseteq 1..readIndex[0]
      /\ 1..(readIndex[0] - 1) \subseteq done
  BY QueueFacts DEF IInv, TypeOK, OrderInv
<1>2. CASE t \in Running
  <2>1. PICK q \in Queue : \E p \in running[q] : t = p.task
    BY <1>2 DEF Running
  <2>2. t = readIndex[0]
    BY <1>1, <2>1 DEF OrderInv
  <2> QED
    BY <1>1, <2>2
<1>3. CASE t \in done
  <2> DEFINE n == readIndex[0]
  <2>1. n \in Nat /\ t \in 1..n
    BY <1>1, <1>3
  <2>2. 1..(n - 1) \subseteq done
    BY <1>1
  <2> HIDE DEF n
  <2>3. 1..(t - 1) \subseteq 1..(n - 1)
    BY <2>1
  <2> QED
    BY <2>2, <2>3
<1> QED
  BY <1>2, <1>3

(* What a handle whose signal is zero stands for is done.                   *)
LEMMA ZeroMeansDone == NumQs <= BarrierDeps /\ IInv => HandleMeansDone
<1> SUFFICES ASSUME NumQs <= BarrierDeps, IInv
             PROVE  HandleMeansDone
  OBVIOUS
<1>1. /\ TypeOK /\ TodoInv /\ LinkInv /\ NothingLost /\ ClosedInv /\ ListsTyped
      /\ InLaunchOrder
  BY ListTypes, RunsInOrder DEF IInv
<1>2. ASSUME NEW t \in DOMAIN task, task[t].sig # NullSignal, signal[task[t].sig] = 0
      PROVE  t \in done
  <2>1. task[t].sig \in DOMAIN signal
    BY <1>1, <1>2 DEF ListsTyped, NullSignal
  <2>2. Owing(task[t].sig) = {}
    BY <1>2, <2>1, NothingOwed
  <2>3. ASSUME NEW p \in PacketsOf, p.type = "kernel", p.task = t
        PROVE  FALSE
    <3>1. p.sig = task[t].sig
      BY <1>1, <1>2, <2>3 DEF LinkInv, Linked
    <3> QED
      BY <2>2, <3>1 DEF Owing
  <2>4. ASSUME NEW s \in Range(todo), s.do = "pick", s.task = t
        PROVE  FALSE
    <3>1. PICK i \in DOMAIN todo : s = todo[i]
      BY DEF Range
    <3> QED
      BY <1>1, <1>2, <2>4, <3>1 DEF TodoInv
  <2> QED
    BY <1>1, <2>3, <2>4 DEF NothingLost
<1>3. ASSUME NEW b \in DOMAIN batch, signal[batch[b].final] = 0,
             NEW t \in DOMAIN task, task[t].batch = b
      PROVE  t \in done
  <2>1. batch[b].final \in DOMAIN signal
    BY <1>1 DEF ListsTyped
  <2>2. Owing(batch[b].final) = {} /\ OpenWith(batch, batch[b].final) = {}
    BY <1>3, <2>1, NothingOwed
  <2>3. ~batch[b].open
    BY <2>2 DEF OpenWith
  <2>4. CASE kind = "unordered"
    <3>1. \A p \in PacketsOf : p.sig # batch[b].final
      BY <2>2 DEF Owing
    <3> QED
      BY <1>1, <1>3, <2>3, <2>4, <3>1 DEF ClosedInv
  <2>5. CASE kind = "ordered"
    <3>1. PICK l \in DOMAIN task :
            /\ task[l].sig = batch[b].final
            /\ \A u \in DOMAIN task : task[u].batch = b => u <= l
      BY <1>1, <2>3, <2>5 DEF ClosedInv
    <3>2. l \in done
      <4>1. task[l].sig # NullSignal
        BY <1>1, <2>1, <3>1 DEF ListsTyped, NullSignal
      <4> QED
        BY <1>2, <1>3, <3>1, <4>1
    <3>3. 1..(l - 1) \subseteq done
      BY <1>1, <2>5, <3>2 DEF InLaunchOrder
    <3>4. t <= l /\ t \in Nat /\ l \in Nat /\ 1 <= t
      BY <1>1, <1>3, <3>1 DEF ListsTyped
    <3>5. t = l \/ t \in 1..(l - 1)
      BY <3>4
    <3> QED
      BY <3>2, <3>3, <3>5
  <2> QED
    BY <1>1, <2>4, <2>5 DEF TypeOK
<1> QED
  BY <1>2, <1>3 DEF HandleMeansDone

(* The kernels of the ordered executor run one after the other, in the      *)
(* order of the calls (the barrier bit its packets have).                   *)
THEOREM OrderedRunsInOrder == MaxUnread <= QueueSize => (Spec => []InLaunchOrder)
BY RunsInOrder, Invariance, PTL

(* A handle the client sees at zero stands for completed work: the kernel   *)
(* of launchTask, or every kernel of a batch, as long as one barrier packet *)
(* holds the signals of all queues.                                         *)
THEOREM HandlesMeanDone ==
  MaxUnread <= QueueSize /\ NumQs <= BarrierDeps => (Spec => []HandleMeansDone)
<1> SUFFICES ASSUME MaxUnread <= QueueSize, NumQs <= BarrierDeps
             PROVE  Spec => []HandleMeansDone
  OBVIOUS
<1>1. IInv => HandleMeansDone
  BY ZeroMeansDone
<1>2. Spec => []IInv
  BY Invariance
<1> QED
  BY <1>1, <1>2, PTL
=============================================================================
