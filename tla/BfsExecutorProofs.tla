-------------------------- MODULE BfsExecutorProofs --------------------------
(***************************************************************************)
(* Proofs about StaticDAGExecutorBFS, for every set of nodes and of graphs *)
(* and every number and size of queues.  What the executor under it does   *)
(* is taken from DagrExecutorProofs.                                       *)
(***************************************************************************)
EXTENDS BfsExecutor, ListLemmas, TLAPS

P == INSTANCE DagrExecutorProofs WITH Kernel <- Node

-----------------------------------------------------------------------------
(* X and P are instances of the same definitions.                          *)

LEMMA SameBasics ==
  /\ X!Queue = P!Queue
  /\ X!NullSignal = P!NullSignal /\ X!NoPacket = P!NoPacket
  /\ \A s : X!Range(s) = P!Range(s)
  /\ \A s : X!Cardinality(s) = P!Cardinality(s)
  /\ \A s : X!IsFiniteSet(s) <=> P!IsFiniteSet(s)
BY DEF X!Queue, P!Queue, X!NullSignal, P!NullSignal, X!NoPacket, P!NoPacket, X!Range, P!Range,
       X!Cardinality, P!Cardinality, X!IsFiniteSet, P!IsFiniteSet

LEMMA SamePackets ==
  /\ X!Packet = P!Packet
  /\ X!PacketsOf = P!PacketsOf
  /\ X!Step = P!Step
  /\ X!Running = P!Running
  /\ \A q : X!Pending(q) = P!Pending(q) /\ X!Index(q) = P!Index(q) /\ X!Unread(q) = P!Unread(q)
  /\ \A i : X!Slot(i) = P!Slot(i)
  /\ \A d : X!Fitting(d) = P!Fitting(d)
<1>1. \A q : X!Pending(q) = P!Pending(q) /\ X!Index(q) = P!Index(q) /\ X!Unread(q) = P!Unread(q)
  BY SameBasics DEF X!Pending, P!Pending, X!Index, P!Index, X!Unread, P!Unread
<1>2. X!Packet = P!Packet
  BY DEF X!Packet, P!Packet
<1>3. X!PacketsOf = P!PacketsOf
  BY SameBasics, <1>1 DEF X!PacketsOf, P!PacketsOf, X!Asked, P!Asked
<1>4. X!Step = P!Step
  BY SameBasics, <1>2 DEF X!Step, P!Step
<1>5. X!Running = P!Running
  BY SameBasics DEF X!Running, P!Running
<1>6. \A i : X!Slot(i) = P!Slot(i)
  BY DEF X!Slot, P!Slot
<1>7. \A d : X!Fitting(d) = P!Fitting(d)
  BY DEF X!Fitting, P!Fitting
<1> QED
  BY <1>1, <1>2, <1>3, <1>4, <1>5, <1>6, <1>7

LEMMA SameTyping == (X!TypeOK <=> P!TypeOK) /\ (X!RingInv <=> P!RingInv) /\ (X!TodoInv <=> P!TodoInv)
<1>1. X!TypeOK <=> P!TypeOK
  BY SameBasics, SamePackets DEF X!TypeOK, P!TypeOK
<1>2. X!RingInv <=> P!RingInv
  BY SameBasics, SamePackets DEF X!RingInv, P!RingInv
<1>3. X!TodoInv <=> P!TodoInv
  BY SameBasics, SamePackets DEF X!TodoInv, P!TodoInv
<1> QED
  BY <1>1, <1>2, <1>3

LEMMA SamePlaces == (X!OnceInv <=> P!OnceInv) /\ (X!LinkInv <=> P!LinkInv) /\ (X!OwnerInv <=> P!OwnerInv)
<1>1. X!OnceInv <=> P!OnceInv
  BY SameBasics, SamePackets DEF X!OnceInv, P!OnceInv
<1>2. \A p : X!Linked(p) <=> P!Linked(p)
  BY SameBasics, SamePackets DEF X!Linked, P!Linked
<1>3. X!LinkInv <=> P!LinkInv
  BY SameBasics, SamePackets, <1>2 DEF X!LinkInv, P!LinkInv
<1>4. X!OwnerInv <=> P!OwnerInv
  BY SameBasics DEF X!OwnerInv, P!OwnerInv
<1> QED
  BY <1>1, <1>3, <1>4

LEMMA SameSignals == (X!SignalInv <=> P!SignalInv) /\ (X!NothingLost <=> P!NothingLost)
<1>1. \A s : X!Owing(s) = P!Owing(s)
  BY SamePackets DEF X!Owing, P!Owing
<1>2. X!SignalsExact <=> P!SignalsExact
  BY SameBasics, SamePackets DEF X!SignalsExact, P!SignalsExact
<1>3. X!SignalInv <=> P!SignalInv
  BY <1>1, <1>2, SameBasics DEF X!SignalInv, P!SignalInv
<1>4. X!NothingLost <=> P!NothingLost
  BY SameBasics, SamePackets DEF X!NothingLost, P!NothingLost
<1> QED
  BY <1>3, <1>4

LEMMA SameBatches ==
  /\ X!DependentBatchWaits <=> P!DependentBatchWaits
  /\ X!DepInv <=> P!DepInv
  /\ X!ClosedInv <=> P!ClosedInv
  /\ X!OrderInv <=> P!OrderInv
<1>1. X!DependentBatchWaits <=> P!DependentBatchWaits
  BY SameBasics, SamePackets DEF X!DependentBatchWaits, P!DependentBatchWaits
<1>2. \A q, s, b : X!Guarded(q, s, b) <=> P!Guarded(q, s, b)
  BY SamePackets DEF X!Guarded, P!Guarded
<1>3. X!DepInv <=> P!DepInv
  BY SameBasics, <1>1, <1>2 DEF X!DepInv, P!DepInv
<1>4. X!ClosedInv <=> P!ClosedInv
  BY SamePackets DEF X!ClosedInv, P!ClosedInv
<1>5. 0 \in P!Queue
  BY ExecutorAssumption DEF P!Queue
<1>6. X!OrderInv <=> P!OrderInv
  BY <1>5, SameBasics, SamePackets DEF X!OrderInv, P!OrderInv
<1> QED
  BY <1>1, <1>3, <1>4, <1>6

LEMMA SameInv == X!IInv <=> P!IInv
BY SameTyping, SamePlaces, SameSignals, SameBatches DEF X!IInv, P!IInv

LEMMA SameNext ==
  /\ X!IInv' <=> P!IInv'
  /\ X!TypeOK' <=> P!TypeOK'
  /\ X!PacketsOf' = P!PacketsOf'
  /\ X!Running' = P!Running'
<1>1. (X!IInv' <=> P!IInv') /\ (X!TypeOK' <=> P!TypeOK')
  BY SameInv, SameTyping, PTL
<1>2. (X!PacketsOf = P!PacketsOf /\ X!Running = P!Running)'
  BY SamePackets, PTL
<1> QED
  BY <1>1, <1>2

LEMMA SameInit == X!Init <=> P!Init
BY DEF X!Init, P!Init, X!Queue, P!Queue, X!NoPacket, P!NoPacket

LEMMA SameVars == X!vars = P!vars
BY DEF X!vars, P!vars

(* The steps a call is cut into are the same ones.                         *)
LEMMA SameStepForms ==
  /\ \A q, p : X!PutStep(q, p) = P!PutStep(q, p)
  /\ \A q : X!RingStep(q) = P!RingStep(q)
  /\ \A t, u, b : X!PickStep(t, u, b) = P!PickStep(t, u, b)
  /\ \A s : X!BatchStep(s) = P!BatchStep(s)
  /\ \A d, s : X!BarrierPacket(d, s) = P!BarrierPacket(d, s)
  /\ \A t, s : X!KernelPacket(t, s) = P!KernelPacket(t, s)
  /\ \A k, b, s : X!NewTask(k, b, s) = P!NewTask(k, b, s)
  /\ \A n, s : X!Lowered(n, s) = P!Lowered(n, s)
BY SamePackets, SameBasics DEF X!PutStep, P!PutStep, X!RingStep, P!RingStep, X!PickStep, P!PickStep,
     X!BatchStep, P!BatchStep, X!BarrierPacket, P!BarrierPacket, X!KernelPacket, P!KernelPacket,
     X!NewTask, P!NewTask, X!Lowered, P!Lowered

LEMMA SameHost ==
  /\ X!PutNext <=> P!PutNext
  /\ X!RingNext <=> P!RingNext
  /\ X!PickNext <=> P!PickNext
  /\ X!BatchNext <=> P!BatchNext
  /\ X!Host <=> P!Host
<1>1. X!PutNext <=> P!PutNext
  BY SamePackets DEF X!PutNext, P!PutNext, X!Put, P!Put, X!Full, P!Full, X!HeadSlot, P!HeadSlot
<1>2. X!RingNext <=> P!RingNext
  BY DEF X!RingNext, P!RingNext, X!Ring, P!Ring
<1>3. X!PickNext <=> P!PickNext
  BY SameStepForms, SameBasics DEF X!PickNext, P!PickNext, X!Full, P!Full, X!Raised, P!Raised
<1>4. X!BatchNext <=> P!BatchNext
  BY DEF X!BatchNext, P!BatchNext, X!BatchSignals, P!BatchSignals
<1> QED
  BY <1>1, <1>2, <1>3, <1>4 DEF X!Host, P!Host

LEMMA SameDevice ==
  /\ \A q : X!Process(q) <=> P!Process(q)
  /\ \A q, p : X!Complete(q, p) <=> P!Complete(q, p)
  /\ X!Device <=> P!Device
<1>1. \A q : X!Process(q) <=> P!Process(q)
  BY SamePackets, SameBasics, SameStepForms
  DEF X!Process, P!Process, X!hostVars, P!hostVars
<1>2. \A q, p : X!Complete(q, p) <=> P!Complete(q, p)
  BY SameStepForms DEF X!Complete, P!Complete, X!hostVars, P!hostVars
<1> QED
  BY <1>1, <1>2, SameBasics DEF X!Device, P!Device

LEMMA SameCalls ==
  /\ X!CanCall <=> P!CanCall
  /\ X!StartBatch <=> P!StartBatch
  /\ \A s : X!StartBatchWithDep(s) <=> P!StartBatchWithDep(s)
  /\ \A b, k : X!AddToBatch(b, k) <=> P!AddToBatch(b, k)
  /\ \A b : X!LaunchBatch(b) <=> P!LaunchBatch(b)
<1>1. X!CanCall <=> P!CanCall
  BY SamePackets, SameBasics DEF X!CanCall, P!CanCall
<1>2. X!CanStart <=> P!CanStart
  BY <1>1 DEF X!CanStart, P!CanStart
<1>3. X!StartBatch <=> P!StartBatch
  BY <1>2, SameStepForms, SameBasics DEF X!StartBatch, P!StartBatch, X!callSame, P!callSame
<1>4. \A s : X!StartBatchWithDep(s) <=> P!StartBatchWithDep(s)
  BY <1>2, SameStepForms, SameBasics DEF X!StartBatchWithDep, P!StartBatchWithDep, X!callSame, P!callSame
<1>5. \A b, k : X!AddToBatch(b, k) <=> P!AddToBatch(b, k)
  BY <1>1, SameStepForms, SameBasics
  DEF X!AddToBatch, P!AddToBatch, X!CanHandOver, P!CanHandOver, X!callSame, P!callSame
<1>6. \A b : X!LaunchBatch(b) <=> P!LaunchBatch(b)
  BY <1>1, SameStepForms DEF X!LaunchBatch, P!LaunchBatch, X!callSame, P!callSame
<1> QED
  BY <1>1, <1>3, <1>4, <1>5, <1>6

-----------------------------------------------------------------------------
(* Steps of this executor are steps of the executor under it.              *)

LEMMA ExecTypes ==
  ASSUME X!TypeOK
  PROVE  /\ task \in Seq([kernel : Node, batch : 0..Len(batch), sig : 0..Len(signal)])
         /\ batch \in Seq([perQ : Seq(DOMAIN signal), final : DOMAIN signal,
                           dep : 0..Len(signal), open : BOOLEAN])
         /\ signal \in Seq(Nat)
         /\ done \subseteq DOMAIN task
         /\ Len(task) \in Nat /\ Len(batch) \in Nat /\ Len(signal) \in Nat
         /\ DOMAIN task = 1..Len(task) /\ DOMAIN batch = 1..Len(batch)
         /\ DOMAIN signal = 1..Len(signal)
         /\ \A t \in DOMAIN task :
              task[t].kernel \in Node /\ task[t].batch \in 0..Len(batch) /\ task[t].sig \in 0..Len(signal)
         /\ \A b \in DOMAIN batch :
              /\ batch[b].final \in 1..Len(signal) /\ batch[b].dep \in 0..Len(signal)
              /\ batch[b].open \in BOOLEAN
<1>1. /\ task \in Seq([kernel : Node, batch : 0..Len(batch), sig : 0..Len(signal)])
      /\ batch \in Seq([perQ : Seq(DOMAIN signal), final : DOMAIN signal,
                        dep : 0..Len(signal), open : BOOLEAN])
      /\ signal \in Seq(Nat)
      /\ done \subseteq DOMAIN task
  BY DEF X!TypeOK
<1>2. P!ListsTyped
  BY SameTyping, P!ListTypes, ExecutorAssumption
<1>3. \A t \in DOMAIN task : task[t].kernel \in Node
  <2> DEFINE T == [kernel : Node, batch : 0..Len(batch), sig : 0..Len(signal)]
  <2>1. task \in Seq(T) /\ \A x \in T : x.kernel \in Node
    BY <1>1
  <2> HIDE DEF T
  <2> QED
    BY <2>1
<1>4. \A b \in DOMAIN batch : batch[b].open \in BOOLEAN
  <2> DEFINE T == [perQ : Seq(DOMAIN signal), final : DOMAIN signal,
                   dep : 0..Len(signal), open : BOOLEAN]
  <2>1. batch \in Seq(T) /\ \A x \in T : x.open \in BOOLEAN
    BY <1>1
  <2> HIDE DEF T
  <2> QED
    BY <2>1
<1> QED
  BY <1>1, <1>2, <1>3, <1>4 DEF P!ListsTyped

LEMMA LastBatch ==
  ASSUME ExecInv, loop = "add", todo = <<>>
  PROVE  /\ Len(batch) \in DOMAIN batch
         /\ batch[Len(batch)].open /\ batch[Len(batch)].dep = WantedDep
         /\ ~Starting
<1>1. ~Starting
  BY DEF Starting
<1>2. /\ batch # <<>> /\ batch[Len(batch)].open /\ batch[Len(batch)].dep = WantedDep
      /\ X!TypeOK
  BY <1>1 DEF ExecInv, BatchInv, TypeOK
<1> QED
  BY <1>1, <1>2, ExecTypes

LEMMA CallsAreCalls ==
  ASSUME ExecInv, StartLevel \/ (\E n \in Node : AddNode(n)) \/ LaunchLevel
  PROVE  P!Client
<1>1. CASE StartLevel
  <2>1. CASE DependsOnPrev
    <3>1. X!StartBatchWithDep(prev) /\ prev # X!NullSignal
      BY <1>1, <2>1 DEF StartLevel, DependsOnPrev
    <3>2. prev \in P!Handles
      BY <3>1 DEF ExecInv, BatchInv, P!Handles
    <3> QED
      BY <3>1, <3>2, SameCalls DEF P!Client
  <2>2. CASE ~DependsOnPrev
    BY <1>1, <2>2, SameCalls DEF StartLevel, P!Client
  <2> QED
    BY <2>1, <2>2
<1>2. ASSUME NEW n \in Node, AddNode(n)
      PROVE  P!Client
  <2>1. loop = "add" /\ X!AddToBatch(Len(batch), n)
    BY <1>2 DEF AddNode
  <2>2. todo = <<>>
    BY <2>1 DEF X!AddToBatch, X!CanHandOver, X!CanCall
  <2> QED
    BY <2>1, <2>2, LastBatch, SameCalls DEF P!Client
<1>3. CASE LaunchLevel
  <2>1. loop = "add" /\ X!LaunchBatch(Len(batch))
    BY <1>3 DEF LaunchLevel
  <2>2. todo = <<>>
    BY <2>1 DEF X!LaunchBatch, X!CanCall
  <2> QED
    BY <2>1, <2>2, LastBatch, SameCalls DEF P!Client
<1> QED
  BY <1>1, <1>2, <1>3

LEMMA ExecNext ==
  ASSUME ExecInv, [Next]_vars
  PROVE  [P!Next]_(P!vars)
<1>1. CASE UNCHANGED vars
  BY <1>1 DEF vars, P!vars
<1>2. CASE \E c \in {"host", "cp"}, g \in Graphs : Execute(c, g)
  BY <1>2 DEF Execute, execVars, P!vars
<1>3. CASE StartLevel \/ (\E n \in Node : AddNode(n)) \/ LaunchLevel
  BY <1>3, CallsAreCalls DEF P!Next
<1>4. CASE WaitLevel \/ Return
  BY <1>4 DEF WaitLevel, Return, execVars, P!vars
<1>5. CASE X!Host \/ X!Device
  BY <1>5, SameHost, SameDevice DEF P!Next
<1> QED
  BY <1>1, <1>2, <1>3, <1>4, <1>5 DEF Next, Host, Device

LEMMA ExecKeeps ==
  ASSUME MaxUnread <= QueueSize, ExecInv, [Next]_vars
  PROVE  X!IInv'
<1>1. P!IInv
  BY SameInv DEF ExecInv
<1>2. P!IInv'
  BY <1>1, ExecNext, P!NextIInv, ExecutorAssumption
<1> QED
  BY <1>2, SameNext

-----------------------------------------------------------------------------
(* What a step of a call changes: nothing the device has, no kernel handed  *)
(* over, and of the packets and the batches at most one is new.             *)

Goes ==
  /\ UNCHANGED batch
  /\ P!PacketsOf' = P!PacketsOf
  /\ \A i \in DOMAIN todo' : todo'[i].do \in {"batch", "pick"} => \E j \in DOMAIN todo : todo[j] = todo'[i]
  /\ Starting' <=> Starting

NewKernel(t, p) ==
  /\ UNCHANGED batch
  /\ \E i \in DOMAIN todo : todo[i].do = "pick" /\ todo[i].task = t
  /\ p.type = "kernel" /\ p.task = t
  /\ P!PacketsOf' = P!PacketsOf \cup {p}
  /\ \A r \in P!PacketsOf : r.type = "kernel" => r.task # t
  /\ \A i \in DOMAIN todo' : todo'[i].do \notin {"batch", "pick"}
  /\ ~Starting

NewBatch(d) ==
  /\ \E i \in DOMAIN todo : todo[i].do = "batch" /\ todo[i].dep = d
  /\ Starting /\ ~Starting'
  /\ P!PacketsOf' = P!PacketsOf
  /\ \A i \in DOMAIN todo' : todo'[i].do \notin {"batch", "pick"}
  /\ Len(batch') = Len(batch) + 1 /\ DOMAIN batch' = DOMAIN batch \cup {Len(batch) + 1}
  /\ \A b \in DOMAIN batch : batch'[b] = batch[b]
  /\ batch'[Len(batch) + 1].dep = d /\ batch'[Len(batch) + 1].open

HostEffect ==
  /\ UNCHANGED <<kind, task, done, running>>
  /\ Goes \/ (\E t, p : NewKernel(t, p)) \/ (\E d : NewBatch(d))

LEMMA PutGoes ==
  ASSUME P!IInv, P!TypeOK', P!PutNext
  PROVE  HostEffect
<1>1. PICK q \in P!Queue, p \in P!Packet : P!PutEffect(q, p)
  BY P!PutHappens, ExecutorAssumption
<1>2. P!PacketsOf' = P!PacketsOf
  BY <1>1, P!PutPackets, ExecutorAssumption
<1>3. /\ UNCHANGED <<kind, task, done, running, batch>>
      /\ \A i \in DOMAIN todo' : i + 1 \in DOMAIN todo /\ todo'[i] = todo[i + 1]
      /\ \A i \in DOMAIN todo : i = 1 \/ (i - 1 \in DOMAIN todo' /\ todo'[i - 1] = todo[i])
      /\ todo[1].do = "put"
  BY <1>1 DEF P!PutEffect
<1>4. Starting' <=> Starting
  BY <1>3 DEF Starting
<1> QED
  BY <1>2, <1>3, <1>4 DEF HostEffect, Goes

LEMMA TodoTail ==
  ASSUME P!IInv, todo # <<>>, todo' = Tail(todo)
  PROVE  /\ 1 \in DOMAIN todo /\ Head(todo) = todo[1]
         /\ \A i \in DOMAIN todo' : i + 1 \in DOMAIN todo /\ todo'[i] = todo[i + 1]
         /\ \A i \in DOMAIN todo : i = 1 \/ (i - 1 \in DOMAIN todo' /\ todo'[i - 1] = todo[i])
<1>1. todo \in Seq(P!Step)
  BY DEF P!IInv, P!TodoInv
<1> QED
  BY <1>1

LEMMA PlacesHold == P!TypeOK => P!PacketPlaces
BY P!Places, ExecutorAssumption

LEMMA RingGoes ==
  ASSUME P!IInv, P!TypeOK', P!RingNext
  PROVE  HostEffect
<1>1. /\ UNCHANGED <<kind, task, done, running, batch, ring>>
      /\ todo # <<>> /\ Head(todo).do = "ring" /\ todo' = Tail(todo)
  BY DEF P!RingNext
<1>2. /\ 1 \in DOMAIN todo /\ todo[1].do = "ring"
      /\ \A i \in DOMAIN todo' : i + 1 \in DOMAIN todo /\ todo'[i] = todo[i + 1]
      /\ \A i \in DOMAIN todo : i = 1 \/ (i - 1 \in DOMAIN todo' /\ todo'[i - 1] = todo[i])
  BY <1>1, TodoTail
<1>3. Starting' <=> Starting
  BY <1>2 DEF Starting
<1>4. P!PacketsOf' = P!PacketsOf
  <2>1. \A p : P!InTodo(p)' <=> P!InTodo(p)
    BY <1>2 DEF P!InTodo
  <2>2. P!PacketPlaces /\ P!PacketPlaces'
    <3>1. P!TypeOK' => P!PacketPlaces'
      BY PlacesHold, PTL
    <3> QED
      BY <3>1, PlacesHold DEF P!IInv
  <2>3. P!Queue' = P!Queue
    BY DEF P!Queue
  <2>4. \A p : P!InRing(p)' <=> P!InRing(p)
    BY <1>1, <2>3 DEF P!InRing, P!NoPacket
  <2>5. \A p : p \in P!PacketsOf' <=> p \in P!PacketsOf
    BY <1>1, <2>1, <2>2, <2>3, <2>4 DEF P!PacketPlaces
  <2> QED
    BY <2>5
<1> QED
  BY <1>1, <1>2, <1>3, <1>4 DEF HostEffect, Goes

LEMMA PickGoes ==
  ASSUME P!IInv, P!TypeOK', P!PickNext, \A t \in DOMAIN task : task[t].batch # 0
  PROVE  HostEffect
<1>1. CASE UNCHANGED <<kind, ring, hsaWrite, readIndex, doorbell, signal, running,
                       mWriteIndex, todo, task, done, batch>>
  <2>1. P!PacketsOf' = P!PacketsOf
    BY <1>1 DEF P!PacketsOf, P!Asked, P!Pending, P!Queue, P!NoPacket
  <2>2. Starting' <=> Starting
    BY <1>1 DEF Starting
  <2> QED
    BY <1>1, <2>1, <2>2 DEF HostEffect, Goes
<1>2. ASSUME NEW q \in P!Queue, NEW t, NEW b, NEW s, NEW p, P!Picked(q, t, b, s, p)
      PROVE  HostEffect
  <2>1. /\ UNCHANGED <<kind, ring, running, done, batch>>
        /\ DOMAIN todo = {1} /\ todo[1].do = "pick" /\ todo[1].task = t
        /\ t \in DOMAIN task /\ task[t].batch = b
        /\ \A r \in P!PacketsOf : r.type = "kernel" => r.task # t
        /\ p = P!KernelPacket(t, s)
        /\ todo' = <<P!PutStep(q, p)>> \/ todo' = <<P!PutStep(q, p), P!RingStep(q)>>
    BY <1>2 DEF P!Picked
  <2>2. UNCHANGED task
    BY <1>2, <2>1 DEF P!Picked
  <2>3. p.type = "kernel" /\ p.task = t
    BY <2>1 DEF P!KernelPacket
  <2>4. \A i \in DOMAIN todo' : todo'[i].do \in {"put", "ring"}
    BY <2>1 DEF P!PutStep, P!RingStep
  <2>5. \A r : P!InTodo(r)' <=> r \in {p}
    BY <2>1 DEF P!InTodo, P!PutStep, P!RingStep
  <2>6. P!PacketsOf' = P!PacketsOf \cup {p}
    BY <2>1, <2>5, P!CallPackets, ExecutorAssumption
  <2>7. ~Starting
    BY <2>1 DEF Starting
  <2>8. NewKernel(t, p)
    BY <2>1, <2>3, <2>4, <2>6, <2>7 DEF NewKernel
  <2> QED
    BY <2>1, <2>2, <2>8 DEF HostEffect
<1>3. \/ \E q \in P!Queue : \E t, b, s, p : P!Picked(q, t, b, s, p)
      \/ UNCHANGED <<kind, ring, hsaWrite, readIndex, doorbell, signal, running,
                     mWriteIndex, todo, task, done, batch>>
  BY P!PickHappens, ExecutorAssumption
<1> QED
  BY <1>1, <1>2, <1>3

LEMMA BatchGoes ==
  ASSUME P!IInv, P!TypeOK', P!BatchNext
  PROVE  HostEffect
<1>1. PICK n, d, c : P!BatchEffect(n, d, c)
  BY P!BatchHappens, ExecutorAssumption
<1>2. /\ UNCHANGED <<kind, task, done, running, ring>>
      /\ todo # <<>> /\ todo' = Tail(todo) /\ Head(todo).do = "batch"
  BY DEF P!BatchNext
<1>3. /\ 1 \in DOMAIN todo /\ todo[1].do = "batch" /\ todo[1].dep = d
      /\ Len(batch') = Len(batch) + 1 /\ DOMAIN batch' = DOMAIN batch \cup {Len(batch) + 1}
      /\ \A b \in DOMAIN batch : batch'[b] = batch[b]
      /\ batch'[Len(batch) + 1].dep = d /\ batch'[Len(batch) + 1].open
  BY <1>1 DEF P!BatchEffect
<1>4. DOMAIN todo = {1} /\ DOMAIN todo' = {}
  <2>1. todo \in Seq(P!Step) /\ 1 = Len(todo)
    BY <1>3 DEF P!IInv, P!TodoInv
  <2> QED
    BY <1>2, <2>1
<1>5. P!PacketsOf' = P!PacketsOf
  BY <1>2, <1>3, <1>4, P!NoNewPackets, ExecutorAssumption
<1>6. Starting /\ ~Starting'
  BY <1>3, <1>4 DEF Starting
<1>7. NewBatch(d)
  BY <1>3, <1>4, <1>5, <1>6 DEF NewBatch
<1> QED
  BY <1>2, <1>7 DEF HostEffect

LEMMA HostSteps ==
  ASSUME P!IInv, P!TypeOK', P!Host, \A t \in DOMAIN task : task[t].batch # 0
  PROVE  HostEffect
BY PutGoes, RingGoes, PickGoes, BatchGoes DEF P!Host

-----------------------------------------------------------------------------
(* What a step of the device changes: a kernel that has not run starts, or  *)
(* one that runs completes, or no kernel does.                              *)

DeviceEffect ==
  /\ UNCHANGED <<kind, todo, task, batch>>
  /\ P!PacketsOf' \subseteq P!PacketsOf
  /\ \/ P!Running' = P!Running /\ UNCHANGED done
     \/ /\ \E t \in DOMAIN task \ (P!Running \cup done) : P!Running' = P!Running \cup {t}
        /\ UNCHANGED done
     \/ \E t \in P!Running \ done :
          /\ P!Running' = P!Running \ {t}
          /\ done' = done \cup {t}
          /\ \A p \in P!PacketsOf' : p.type = "kernel" => p.task # t

(* The kernels of this executor all belong to batches, so that each of      *)
(* their packets lowers a signal, and is in one place.                      *)
LEMMA KernelSignals ==
  ASSUME ExecInv, NEW p \in P!PacketsOf, p.type = "kernel"
  PROVE  p.sig # P!NullSignal /\ p.task \in DOMAIN task
<1>1. /\ P!IInv /\ kind = "unordered" /\ P!TypeOK /\ P!LinkInv
      /\ \A t \in DOMAIN task : task[t].batch # 0
  BY SameInv DEF ExecInv, BatchInv, P!IInv
<1>2. p.task \in DOMAIN task
  BY <1>1, P!KernelTasks, ExecutorAssumption DEF P!KernelsAreTasks
<1> DEFINE b == task[p.task].batch
<1>3. b # 0 /\ p.sig \in P!Range(batch[b].perQ)
  BY <1>1, <1>2 DEF P!LinkInv, P!Linked
<1>4. b \in DOMAIN batch
  BY <1>1, <1>2, <1>3, SameTyping, ExecTypes
<1>5. batch[b].perQ \in Seq(DOMAIN signal) /\ DOMAIN signal = 1..Len(signal)
  <2> DEFINE T == [perQ : Seq(DOMAIN signal), final : DOMAIN signal,
                   dep : 0..Len(signal), open : BOOLEAN]
  <2>1. batch \in Seq(T) /\ \A x \in T : x.perQ \in Seq(DOMAIN signal)
    BY <1>1 DEF P!TypeOK
  <2>2. DOMAIN signal = 1..Len(signal)
    BY <1>1, SameTyping, ExecTypes
  <2> HIDE DEF T
  <2>3. batch[b] \in T
    BY <1>4, <2>1
  <2> QED
    BY <2>1, <2>2, <2>3
<1>6. p.sig \in 1..Len(signal)
  <2> DEFINE S == batch[b].perQ
  <2>1. S \in Seq(1..Len(signal)) /\ p.sig \in {S[i] : i \in DOMAIN S}
    BY <1>3, <1>5 DEF P!Range
  <2> HIDE DEF S
  <2> QED
    BY <2>1
<1> QED
  BY <1>2, <1>6 DEF P!NullSignal

LEMMA PlaceOfPacket ==
  ASSUME ExecInv, NEW p, NEW q \in P!Queue
  PROVE  /\ p \in P!Pending(q) => p \in P!PacketsOf
         /\ p \in running[q] => p \in P!PacketsOf /\ p.type = "kernel" /\ p.task \in P!Running
BY SameInv DEF ExecInv, P!PacketsOf, P!IInv, P!LinkInv, P!Running

LEMMA ReadStep ==
  ASSUME ExecInv, X!IInv', NEW q \in P!Queue, P!Process(q)
  PROVE  DeviceEffect
<1>1. P!IInv /\ P!TypeOK /\ P!TypeOK' /\ P!OnceInv /\ P!PacketPlaces /\ P!PacketPlaces'
  <2>1. P!IInv /\ P!IInv'
    BY SameInv, SameNext DEF ExecInv
  <2>2. P!TypeOK' => P!PacketPlaces'
    BY PlacesHold, PTL
  <2> QED
    BY <2>1, <2>2, PlacesHold DEF P!IInv
<1>2. PICK i, x, p : P!ReadEffect(q, i, x, p)
  BY <1>1, P!ReadHappens, ExecutorAssumption
<1>3. /\ x \in 0..(QueueSize - 1)
      /\ p = ring[q][x] /\ p \in P!PacketsOf /\ p # P!NoPacket
      /\ ring' = [ring EXCEPT ![q][x] = P!NoPacket]
      /\ UNCHANGED <<kind, todo, task, batch, done>>
      /\ \/ p.type = "kernel" /\ running' = [running EXCEPT ![q] = @ \cup {p}]
         \/ UNCHANGED running
  <2>1. p # P!NoPacket
    BY <1>2, P!PacketFields, ExecutorAssumption DEF P!ReadEffect
  <2> QED
    BY <1>2, <2>1 DEF P!ReadEffect, P!hostVars
<1>4. /\ ring \in [P!Queue -> [0..(QueueSize - 1) -> P!Packet \cup {P!NoPacket}]]
      /\ running \in [P!Queue -> SUBSET P!Packet]
      /\ P!Queue' = P!Queue
  BY <1>1 DEF P!TypeOK, P!Queue
<1>5. P!PacketsOf' \subseteq P!PacketsOf
  <2>1. \A y : P!InRing(y)' => P!InRing(y)
    BY <1>3, <1>4 DEF P!InRing, P!NoPacket
  <2>2. \A y : P!InTodo(y)' <=> P!InTodo(y)
    BY <1>3 DEF P!InTodo
  <2>3. \A y : (\E r \in P!Queue : y \in running'[r]) => (\E r \in P!Queue : y \in running[r]) \/ y = p
    BY <1>3, <1>4
  <2>4. \A y \in P!PacketsOf' : y \in P!PacketsOf
    BY <1>1, <1>3, <1>4, <2>1, <2>2, <2>3 DEF P!PacketPlaces
  <2> QED
    BY <2>4
<1>6. CASE UNCHANGED running
  <2>1. P!Running' = P!Running
    BY <1>4, <1>6 DEF P!Running
  <2> QED
    BY <1>3, <1>5, <2>1 DEF DeviceEffect
<1>7. CASE p.type = "kernel" /\ running' = [running EXCEPT ![q] = @ \cup {p}]
  <2>1. p.sig # P!NullSignal /\ p.task \in DOMAIN task
    BY <1>3, <1>7, KernelSignals
  <2>2. p.task \notin done
    BY <1>3, <1>7, SamePackets DEF ExecInv, KernelsOnce
  <2>3. p.task \notin P!Running
    <3>1. SUFFICES ASSUME NEW r \in P!Queue, NEW y \in running[r], y.task = p.task
                   PROVE  FALSE
      BY DEF P!Running
    <3>2. y \in P!PacketsOf /\ y.type = "kernel"
      BY <3>1, PlaceOfPacket
    <3>3. y = p
      BY <1>3, <1>7, <3>1, <3>2, SamePackets DEF ExecInv, KernelsOnce
    <3>4. p \in P!Pending(q)
      BY <1>3, <1>4 DEF P!Pending, P!Range
    <3> QED
      BY <1>1, <2>1, <3>1, <3>3, <3>4 DEF P!OnceInv
  <2>4. P!Running' = P!Running \cup {p.task}
    <3>1. \A r \in P!Queue : running'[r] = running[r] \cup (IF r = q THEN {p} ELSE {})
      BY <1>4, <1>7
    <3>2. \A t : t \in P!Running' <=> t \in P!Running \/ t = p.task
      BY <1>4, <3>1 DEF P!Running
    <3> QED
      BY <3>2
  <2> QED
    BY <1>3, <1>5, <2>1, <2>2, <2>3, <2>4 DEF DeviceEffect
<1> QED
  BY <1>3, <1>6, <1>7

LEMMA CompleteStep ==
  ASSUME ExecInv, X!IInv', NEW q \in P!Queue, NEW p \in running[q], P!Complete(q, p)
  PROVE  DeviceEffect
<1>1. P!IInv /\ P!TypeOK /\ P!TypeOK' /\ P!OnceInv /\ P!PacketPlaces /\ P!PacketPlaces'
  <2>1. P!IInv /\ P!IInv'
    BY SameInv, SameNext DEF ExecInv
  <2>2. P!TypeOK' => P!PacketPlaces'
    BY PlacesHold, PTL
  <2> QED
    BY <2>1, <2>2, PlacesHold DEF P!IInv
<1>2. /\ UNCHANGED <<kind, todo, task, batch, ring>>
      /\ running' = [running EXCEPT ![q] = @ \ {p}]
      /\ done' = done \cup {p.task}
      /\ P!Queue' = P!Queue
  BY DEF P!Complete, P!hostVars, P!Queue
<1>3. running \in [P!Queue -> SUBSET P!Packet]
  BY <1>1 DEF P!TypeOK
<1>4. \A r \in P!Queue : running'[r] = running[r] \ (IF r = q THEN {p} ELSE {})
  BY <1>2, <1>3
<1>5. p \in P!PacketsOf /\ p.type = "kernel" /\ p.task \in P!Running
  BY PlaceOfPacket
<1>6. p.sig # P!NullSignal
  BY <1>5, KernelSignals
<1>7. p.task \notin done
  BY <1>5, SamePackets DEF ExecInv, KernelsOnce
<1>8. \A y : (P!InRing(y)' <=> P!InRing(y)) /\ (P!InTodo(y)' <=> P!InTodo(y))
  BY <1>2 DEF P!InRing, P!InTodo, P!NoPacket
<1>9. P!PacketsOf' \subseteq P!PacketsOf
  <2>1. \A y \in P!PacketsOf' : y \in P!PacketsOf
    BY <1>1, <1>2, <1>4, <1>8 DEF P!PacketPlaces
  <2> QED
    BY <2>1
<1>10. p \notin P!PacketsOf'
  <2>1. ~P!InTodo(p)
    BY <1>1, <1>6 DEF P!OnceInv, P!InTodo
  <2>2. \A r \in P!Queue : p \notin P!Pending(r) /\ (p \in running[r] => q = r)
    BY <1>1, <1>6 DEF P!OnceInv
  <2>3. ~P!InRing(p)
    <3>1. \A r \in P!Queue : DOMAIN ring[r] = 0..(QueueSize - 1)
      BY <1>1 DEF P!TypeOK
    <3> QED
      BY <2>2, <3>1 DEF P!InRing, P!Pending, P!Range
  <2>4. \A r \in P!Queue : p \notin running'[r]
    BY <1>4, <2>2
  <2> QED
    BY <1>1, <1>2, <1>8, <2>1, <2>3, <2>4 DEF P!PacketPlaces
<1>11. \A y \in P!PacketsOf' : y.type = "kernel" => y.task # p.task
  BY <1>5, <1>9, <1>10, SamePackets DEF ExecInv, KernelsOnce
<1>12. P!Running' = P!Running \ {p.task}
  <2>1. ASSUME NEW t \in P!Running'
        PROVE  t \in P!Running /\ t # p.task
    <3>1. PICK r \in P!Queue : \E y \in running'[r] : t = y.task
      BY <1>2 DEF P!Running
    <3>2. PICK y \in running'[r] : t = y.task
      BY <3>1
    <3>3. y \in running[r] /\ ~(r = q /\ y = p)
      BY <1>4
    <3>4. y \in P!PacketsOf /\ y.type = "kernel" /\ t \in P!Running
      BY <3>2, <3>3, PlaceOfPacket
    <3>5. ASSUME t = p.task PROVE FALSE
      <4>1. y = p
        BY <1>5, <3>2, <3>4, <3>5, SamePackets DEF ExecInv, KernelsOnce
      <4> QED
        BY <1>1, <1>6, <3>3, <4>1 DEF P!OnceInv
    <3> QED
      BY <3>4, <3>5
  <2>2. ASSUME NEW t \in P!Running, t # p.task
        PROVE  t \in P!Running'
    <3>1. PICK r \in P!Queue : \E y \in running[r] : t = y.task
      BY DEF P!Running
    <3>2. PICK y \in running[r] : t = y.task
      BY <3>1
    <3>3. y \in running'[r]
      BY <1>4, <2>2, <3>2
    <3> QED
      BY <1>2, <3>2, <3>3 DEF P!Running
  <2> QED
    BY <2>1, <2>2
<1> QED
  BY <1>2, <1>5, <1>7, <1>9, <1>11, <1>12 DEF DeviceEffect

LEMMA DeviceSteps ==
  ASSUME ExecInv, X!IInv', P!Device
  PROVE  DeviceEffect
BY ReadStep, CompleteStep DEF P!Device

-----------------------------------------------------------------------------
(* Every step keeps what holds on any graph.                               *)

LEMMA QuietPackets ==
  ASSUME UNCHANGED execVars
  PROVE  /\ X!PacketsOf' = X!PacketsOf /\ X!Running' = X!Running
         /\ Starting' <=> Starting
         /\ KernelsOnce => KernelsOnce'
<1>1. UNCHANGED <<ring, running, todo, done>>
  BY DEF execVars
<1>2. X!PacketsOf' = X!PacketsOf /\ X!Running' = X!Running
  BY <1>1 DEF X!PacketsOf, X!Asked, X!Pending, X!Queue, X!NoPacket, X!Running
<1> QED
  BY <1>1, <1>2 DEF Starting, KernelsOnce

LEMMA PrevIsSignal ==
  ASSUME X!TypeOK, BatchInv
  PROVE  prev \in 0..Len(signal)
<1>1. CASE prev = X!NullSignal
  BY <1>1, ExecTypes DEF X!NullSignal
<1>2. CASE prev # X!NullSignal
  <2>1. PICK b \in DOMAIN batch : batch[b].final = prev
    BY <1>2 DEF BatchInv
  <2> QED
    <3>1. batch[b].final \in DOMAIN signal
      BY <2>1, ExecTypes
    <3>2. DOMAIN signal = 1..Len(signal) /\ Len(signal) \in Nat
      BY ExecTypes
    <3> QED
      BY <2>1, <3>1, <3>2
<1> QED
  BY <1>1, <1>2

LEMMA PrevIsSignalNext == X!TypeOK' /\ BatchInv' => (prev \in 0..Len(signal))'
<1>1. X!TypeOK /\ BatchInv => prev \in 0..Len(signal)
  BY PrevIsSignal
<1> QED
  BY <1>1, PTL

(* The types of a state that has the rest of the invariant.                *)
LEMMA TypesFollow ==
  ASSUME X!IInv', BatchInv',
         call' \in {"idle", "host", "cp"},
         (edges \subseteq Node \X Node)',
         loop' \in {"idle", "level", "add", "wait"},
         (loop = "idle" <=> call = "idle")',
         (level \subseteq Node)', (left \subseteq level)',
         (before \in 0..Len(task))'
  PROVE  TypeOK'
<1>1. X!TypeOK'
  BY SameNext DEF P!IInv
<1> QED
  BY <1>1, PrevIsSignalNext DEF TypeOK

LEMMA QuietKeeps ==
  ASSUME ExecInv, X!IInv', UNCHANGED vars
  PROVE  ExecInv'
<1>1. UNCHANGED execVars /\ UNCHANGED callVars
  BY DEF vars, execVars, callVars
<1>2. KernelsOnce'
  BY <1>1, QuietPackets DEF ExecInv
<1>3. BatchInv' /\ CallInv'
  BY <1>1, QuietPackets DEF ExecInv, BatchInv, CallInv, WantedDep, DependsOnPrev, execVars, callVars,
                            X!NullSignal
<1>4. TypeOK'
  BY <1>1, <1>3, TypesFollow DEF ExecInv, TypeOK, execVars, callVars
<1> QED
  BY <1>1, <1>2, <1>3, <1>4 DEF ExecInv, execVars

LEMMA ExecuteKeeps ==
  ASSUME ExecInv, X!IInv', NEW c \in {"host", "cp"}, NEW g \in Graphs, Execute(c, g)
  PROVE  ExecInv'
<1>1. /\ call = "idle" /\ call' = c /\ edges' = g /\ loop' = "level"
      /\ level' = {n \in Node : \A e \in g : e[2] # n}
      /\ UNCHANGED execVars /\ UNCHANGED <<left, prev, before>>
  BY DEF Execute
<1>2. /\ loop = "idle" /\ left = {} /\ prev = X!NullSignal /\ before \in 0..Len(task)
      /\ kind = "unordered" /\ ~Starting
  BY <1>1 DEF ExecInv, TypeOK, CallInv, BatchInv
<1>3. KernelsOnce'
  BY <1>1, QuietPackets DEF ExecInv
<1>4. BatchInv'
  BY <1>1, <1>2, QuietPackets DEF ExecInv, BatchInv, execVars, Starting
<1>5. CallInv'
  BY <1>1, <1>2 DEF CallInv, X!NullSignal
<1>6. TypeOK'
  <2>1. (edges \subseteq Node \X Node)'
    BY <1>1, GraphAssumption
  <2> QED
    BY <1>1, <1>2, <1>4, <2>1, TypesFollow DEF execVars
<1> QED
  BY <1>1, <1>2, <1>3, <1>4, <1>5, <1>6 DEF ExecInv, execVars

LEMMA WaitKeeps ==
  ASSUME ExecInv, X!IInv', WaitLevel \/ Return
  PROVE  ExecInv'
<1>1. /\ UNCHANGED execVars /\ UNCHANGED <<level, left>>
      /\ todo = <<>>
      /\ \/ /\ loop = "wait" /\ loop' = "level" /\ call = "host"
            /\ UNCHANGED <<call, edges, prev, before>>
         \/ /\ loop = "level" /\ loop' = "idle" /\ call' = "idle" /\ edges' = {} /\ level = {}
            /\ prev' = X!NullSignal /\ before' = Len(task)
  BY DEF WaitLevel, Return
<1>2. left = {} /\ ~Starting /\ ~Starting'
  BY <1>1, QuietPackets DEF ExecInv, CallInv, Starting
<1>3. KernelsOnce'
  BY <1>1, QuietPackets DEF ExecInv
<1>4. BatchInv'
  BY <1>1, <1>2 DEF ExecInv, BatchInv, execVars, X!NullSignal
<1>5. CallInv'
  BY <1>1, <1>2 DEF ExecInv, CallInv, X!NullSignal, execVars, TypeOK
<1>6. TypeOK'
  <2>1. Len(task) \in Nat
    BY ExecTypes DEF ExecInv, TypeOK
  <2> QED
    BY <1>1, <1>2, <1>4, <2>1, TypesFollow DEF execVars, ExecInv, TypeOK
<1> QED
  BY <1>1, <1>3, <1>4, <1>5, <1>6 DEF ExecInv, execVars

(* Of a call with nothing before it, the packets are those it is to write.  *)
LEMMA CallPackets ==
  ASSUME ExecInv, X!IInv', UNCHANGED <<ring, running>>, todo = <<>>
  PROVE  /\ \A p \in P!PacketsOf' : p \in P!PacketsOf \/ P!InTodo(p)'
         /\ \A p \in P!PacketsOf : p.type = "kernel" => p.task \in DOMAIN task
<1>1. P!IInv /\ P!TypeOK /\ P!TypeOK'
  BY SameInv, SameNext DEF ExecInv, P!IInv
<1>2. P!PacketPlaces /\ P!PacketPlaces'
  <2>1. P!TypeOK' => P!PacketPlaces'
    BY PlacesHold, PTL
  <2> QED
    BY <1>1, <2>1, PlacesHold
<1>3. \A p : P!InRing(p)' <=> P!InRing(p)
  BY DEF P!InRing, P!NoPacket, P!Queue
<1>4. P!Queue' = P!Queue
  BY DEF P!Queue
<1>5. \A p \in P!PacketsOf : p.type = "kernel" => p.task \in DOMAIN task
  BY <1>1, P!KernelTasks, ExecutorAssumption DEF P!KernelsAreTasks
<1> QED
  BY <1>2, <1>3, <1>4, <1>5 DEF P!PacketPlaces

StartSteps ==
  /\ \A i \in DOMAIN todo' :
       \/ todo'[i].do = "put" /\ todo'[i].packet.type = "barrier"
       \/ todo'[i].do = "batch" /\ todo'[i].dep = WantedDep
  /\ \E i \in DOMAIN todo' : todo'[i].do = "batch"

LEMMA StartHappens ==
  ASSUME StartLevel
  PROVE  /\ StartSteps
         /\ UNCHANGED <<kind, ring, running, signal, task, done, batch, call, edges, level, prev, before>>
         /\ todo = <<>> /\ loop = "level" /\ level # {} /\ loop' = "add" /\ left' = level
<1>1. CASE DependsOnPrev
  <2>1. X!StartBatchWithDep(prev)
    BY <1>1 DEF StartLevel
  <2> DEFINE bp == X!BarrierPacket(<<prev>>, X!NullSignal)
             puts == [i \in 1..NumQs |-> X!PutStep(i - 1, bp)]
             last == X!BatchStep(prev)
             S == {puts[i] : i \in 1..NumQs} \cup {last}
  <2>2. /\ todo' = puts \o <<last>>
        /\ UNCHANGED <<kind, ring, running, signal, task, done, batch>>
        /\ todo = <<>>
    BY <2>1 DEF X!StartBatchWithDep, X!callSame, X!CanStart, X!CanCall
  <2>3. /\ bp.type = "barrier"
        /\ last.do = "batch" /\ last.dep = WantedDep
        /\ NumQs \in Nat
    BY <1>1, ExecutorAssumption DEF X!BarrierPacket, X!BatchStep, WantedDep
  <2> HIDE DEF bp, last
  <2>4. \A i \in 1..NumQs : puts[i].do = "put" /\ puts[i].packet.type = "barrier"
    BY <2>3 DEF X!PutStep
  <2>5. /\ puts \in Seq(S) /\ Len(puts) = NumQs
        /\ <<last>> \in Seq(S) /\ Len(<<last>>) = 1 /\ <<last>>[1] = last
    <3>1. (\A i \in 1..NumQs : X!PutStep(i - 1, bp) \in S) /\ last \in S
      OBVIOUS
    <3> HIDE DEF S
    <3> QED
      BY <2>3, <3>1
  <2> HIDE DEF puts, S
  <2>6. /\ DOMAIN todo' = 1..(NumQs + 1)
        /\ \A i \in 1..NumQs : todo'[i] = puts[i]
        /\ todo'[NumQs + 1] = last
        /\ \A i \in DOMAIN todo' : i \in 1..NumQs \/ i = NumQs + 1
    <3>1. todo' \in Seq(S) /\ Len(todo') = NumQs + 1
      BY <2>2, <2>5, ConcatenateLists
    <3>2. (\A i \in 1..NumQs : todo'[i] = puts[i]) /\ todo'[NumQs + 1] = last
      BY <2>2, <2>5, ConcatenateLists
    <3> QED
      BY <2>3, <3>1, <3>2
  <2>7. NumQs + 1 \in DOMAIN todo'
    BY <2>3, <2>6
  <2>8. StartSteps
    BY <2>3, <2>4, <2>6, <2>7 DEF StartSteps
  <2> QED
    BY <2>2, <2>8 DEF StartLevel
<1>2. CASE ~DependsOnPrev
  <2>1. X!StartBatch
    BY <1>2 DEF StartLevel
  <2>2. /\ todo' = <<X!BatchStep(X!NullSignal)>>
        /\ UNCHANGED <<kind, ring, running, signal, task, done, batch>>
        /\ todo = <<>>
    BY <2>1 DEF X!StartBatch, X!callSame, X!CanStart, X!CanCall
  <2>3. StartSteps
    BY <1>2, <2>2 DEF StartSteps, X!BatchStep, WantedDep
  <2> QED
    BY <2>2, <2>3 DEF StartLevel
<1> QED
  BY <1>1, <1>2

LEMMA StartKeeps ==
  ASSUME ExecInv, X!IInv', StartLevel
  PROVE  ExecInv'
<1>1. /\ StartSteps
      /\ UNCHANGED <<kind, ring, running, signal, task, done, batch, call, edges, level, prev, before>>
      /\ todo = <<>> /\ loop = "level" /\ level # {} /\ loop' = "add" /\ left' = level
  BY StartHappens
<1>2. \A p \in P!PacketsOf' : p.type = "kernel" => p \in P!PacketsOf
  BY <1>1, CallPackets DEF StartSteps, P!InTodo
<1>3. KernelsOnce'
  <2>1. \A i \in DOMAIN todo' : todo'[i].do # "pick"
    BY <1>1 DEF StartSteps
  <2> QED
    BY <1>1, <1>2, <2>1, SamePackets, SameNext DEF ExecInv, KernelsOnce
<1>4. Starting' /\ WantedDep' = WantedDep
  BY <1>1 DEF StartSteps, Starting, WantedDep, DependsOnPrev, X!NullSignal
<1>5. BatchInv'
  <2>1. \A i \in DOMAIN todo' : todo'[i].do = "batch" => todo'[i].dep = WantedDep
    BY <1>1 DEF StartSteps
  <2> QED
    BY <1>1, <1>4, <2>1 DEF ExecInv, BatchInv, X!NullSignal
<1>6. CallInv'
  BY <1>1 DEF ExecInv, CallInv, X!NullSignal
<1>7. TypeOK'
  BY <1>1, <1>5, TypesFollow DEF ExecInv, TypeOK
<1> QED
  BY <1>1, <1>3, <1>5, <1>6, <1>7 DEF ExecInv

LEMMA AddHappens ==
  ASSUME ExecInv, NEW n \in Node, AddNode(n)
  PROVE  /\ UNCHANGED <<kind, ring, running, signal, done, batch, call, edges, level, prev, before, loop>>
         /\ todo = <<>> /\ loop = "add" /\ n \in left /\ left' = left \ {n}
         /\ Len(task') = Len(task) + 1 /\ DOMAIN task' = DOMAIN task \cup {Len(task) + 1}
         /\ Len(task) + 1 \notin DOMAIN task
         /\ \A t \in DOMAIN task : task'[t] = task[t]
         /\ task'[Len(task) + 1].kernel = n /\ task'[Len(task) + 1].batch = Len(batch)
         /\ \A i \in DOMAIN todo' : todo'[i].do = "pick" /\ todo'[i].task = Len(task) + 1
         /\ Len(batch) \in DOMAIN batch /\ batch[Len(batch)].open /\ batch[Len(batch)].dep = WantedDep
         /\ ~Starting /\ ~Starting'
<1>1. /\ X!AddToBatch(Len(batch), n)
      /\ UNCHANGED <<call, edges, loop, level, prev, before>>
      /\ loop = "add" /\ n \in left /\ left' = left \ {n}
  BY DEF AddNode
<1>2. /\ task' = Append(task, X!NewTask(n, Len(batch), X!NullSignal))
      /\ todo = <<>> /\ kind = "unordered"
      /\ todo' = <<X!PickStep(Len(task) + 1, "batch", Len(batch))>>
      /\ UNCHANGED <<kind, ring, running, signal, done, batch>>
  BY <1>1 DEF X!AddToBatch, X!CanHandOver, X!CanCall, X!callSame, ExecInv
<1>3. \A i \in DOMAIN todo' : todo'[i].do = "pick" /\ todo'[i].task = Len(task) + 1
  BY <1>2 DEF X!PickStep
<1>4. X!TypeOK
  BY DEF ExecInv, TypeOK
<1>5. /\ Len(task') = Len(task) + 1 /\ DOMAIN task' = DOMAIN task \cup {Len(task) + 1}
      /\ Len(task) + 1 \notin DOMAIN task
      /\ \A t \in DOMAIN task : task'[t] = task[t]
      /\ task'[Len(task) + 1] = X!NewTask(n, Len(batch), X!NullSignal)
  <2> DEFINE e == X!NewTask(n, Len(batch), X!NullSignal)
             S == [kernel : Node, batch : 0..Len(batch), sig : 0..Len(signal)]
  <2>1. task \in Seq(S) /\ task' = Append(task, e)
    BY <1>2, <1>4, ExecTypes
  <2> HIDE DEF e, S
  <2>2. task \in Seq(S \cup {e})
    BY <2>1
  <2>3. /\ Len(task') = Len(task) + 1 /\ Len(task) \in Nat
        /\ DOMAIN task = 1..Len(task) /\ DOMAIN task' = 1..(Len(task) + 1)
        /\ \A t \in DOMAIN task : task'[t] = task[t]
        /\ task'[Len(task) + 1] = e
    BY <2>1, <2>2
  <2>4. DOMAIN task' = DOMAIN task \cup {Len(task) + 1} /\ Len(task) + 1 \notin DOMAIN task
    BY <2>3
  <2> QED
    BY <2>3, <2>4 DEF e
<1>6. /\ task'[Len(task) + 1].kernel = n /\ task'[Len(task) + 1].batch = Len(batch)
  BY <1>5 DEF X!NewTask
<1>7. ~Starting /\ ~Starting'
  BY <1>2, <1>3 DEF Starting
<1> QED
  BY <1>1, <1>2, <1>3, <1>5, <1>6, <1>7, LastBatch

LEMMA AddKeeps ==
  ASSUME ExecInv, X!IInv', NEW n \in Node, AddNode(n)
  PROVE  ExecInv'
<1> DEFINE u == Len(task) + 1
<1>1. /\ UNCHANGED <<kind, ring, running, signal, done, batch, call, edges, level, prev, before, loop>>
      /\ todo = <<>> /\ loop = "add" /\ n \in left /\ left' = left \ {n}
      /\ Len(task') = Len(task) + 1 /\ DOMAIN task' = DOMAIN task \cup {u} /\ u \notin DOMAIN task
      /\ \A t \in DOMAIN task : task'[t] = task[t]
      /\ task'[u].batch = Len(batch)
      /\ \A i \in DOMAIN todo' : todo'[i].do = "pick" /\ todo'[i].task = u
      /\ Len(batch) \in DOMAIN batch /\ batch[Len(batch)].open /\ batch[Len(batch)].dep = WantedDep
      /\ ~Starting /\ ~Starting'
  BY AddHappens
<1>2. X!TypeOK
  BY DEF ExecInv, TypeOK
<1>3. done \subseteq DOMAIN task /\ Len(task) \in Nat /\ DOMAIN batch = 1..Len(batch) /\ Len(batch) \in Nat
  BY <1>2, ExecTypes
<1>4. KernelsOnce'
  <2>1. \A p \in P!PacketsOf' : p \in P!PacketsOf
    BY <1>1, CallPackets DEF P!InTodo
  <2>2. u \notin done'
    BY <1>1, <1>3
  <2> QED
    BY <1>1, <2>1, <2>2, SamePackets, SameNext DEF ExecInv, KernelsOnce
<1>5. BatchInv'
  <2>1. Len(batch) # 0 /\ batch # <<>>
    BY <1>1, <1>3
  <2>2. \A t \in DOMAIN task' : task'[t].batch # 0
    BY <1>1, <2>1 DEF ExecInv, BatchInv
  <2>3. WantedDep' = WantedDep
    BY <1>1 DEF WantedDep, DependsOnPrev, X!NullSignal
  <2>4. \A i \in DOMAIN todo' : todo'[i].do # "batch"
    BY <1>1
  <2> QED
    BY <1>1, <2>1, <2>2, <2>3, <2>4 DEF ExecInv, BatchInv, X!NullSignal
<1>6. CallInv'
  <2>1. call # "idle"
    BY <1>1 DEF ExecInv, TypeOK
  <2> QED
    BY <1>1, <2>1 DEF ExecInv, CallInv, X!NullSignal
<1>7. TypeOK'
  <2>1. before \in 0..Len(task) /\ left \subseteq level
    BY DEF ExecInv, TypeOK
  <2>2. before' \in 0..Len(task')
    BY <1>1, <1>3, <2>1
  <2>3. left' \subseteq level'
    BY <1>1, <2>1
  <2> QED
    BY <1>1, <1>5, <2>2, <2>3, TypesFollow DEF ExecInv, TypeOK
<1> QED
  BY <1>1, <1>4, <1>5, <1>6, <1>7 DEF ExecInv

LEMMA LaunchHappens ==
  ASSUME ExecInv, LaunchLevel
  PROVE  /\ UNCHANGED <<kind, ring, running, signal, task, done, call, edges, left, before>>
         /\ todo = <<>> /\ loop = "add" /\ left = {}
         /\ Len(batch) \in DOMAIN batch /\ DOMAIN batch' = DOMAIN batch /\ Len(batch') = Len(batch)
         /\ \A b \in DOMAIN batch :
              /\ b # Len(batch) => batch'[b] = batch[b]
              /\ batch'[b].final = batch[b].final /\ batch'[b].dep = batch[b].dep
         /\ ~batch'[Len(batch)].open
         /\ prev' = batch[Len(batch)].final
         /\ level' = NextLevel
         /\ loop' = IF call = "host" THEN "wait" ELSE "level"
         /\ \A i \in DOMAIN todo' :
              \/ todo'[i].do = "put" /\ todo'[i].packet.type = "barrier"
              \/ todo'[i].do = "ring"
         /\ ~Starting /\ ~Starting'
<1> DEFINE c == Len(batch)
<1>1. /\ X!LaunchBatch(c)
      /\ loop = "add" /\ left = {}
      /\ prev' = batch[c].final
      /\ level' = NextLevel
      /\ loop' = IF call = "host" THEN "wait" ELSE "level"
      /\ UNCHANGED <<call, edges, left, before>>
  BY DEF LaunchLevel
<1> DEFINE bp == X!BarrierPacket(batch[c].perQ, batch[c].final)
           put == X!PutStep(0, bp)
           rings == [i \in 1..NumQs |-> X!RingStep(i - 1)]
           S == {rings[i] : i \in 1..NumQs} \cup {put}
<1>2. /\ batch' = [batch EXCEPT ![c].open = FALSE]
      /\ todo = <<>>
      /\ todo' = <<put>> \o rings
      /\ UNCHANGED <<kind, ring, running, signal, task, done>>
  BY <1>1 DEF X!LaunchBatch, X!CanCall, X!callSame
<1>3. c \in DOMAIN batch /\ ~Starting
  BY <1>1, <1>2, LastBatch
<1>4. \A i \in DOMAIN todo' :
        \/ todo'[i].do = "put" /\ todo'[i].packet.type = "barrier"
        \/ todo'[i].do = "ring"
  <2>1. bp.type = "barrier" /\ NumQs \in Nat
    BY ExecutorAssumption DEF X!BarrierPacket
  <2> HIDE DEF bp
  <2>2. put.do = "put" /\ put.packet.type = "barrier"
    BY <2>1 DEF X!PutStep
  <2> HIDE DEF put
  <2>3. \A i \in 1..NumQs : rings[i].do = "ring"
    BY <2>1 DEF X!RingStep
  <2>4. /\ rings \in Seq(S) /\ Len(rings) = NumQs
        /\ <<put>> \in Seq(S) /\ Len(<<put>>) = 1 /\ <<put>>[1] = put
    <3>1. (\A i \in 1..NumQs : X!RingStep(i - 1) \in S) /\ put \in S
      OBVIOUS
    <3> HIDE DEF S
    <3> QED
      BY <2>1, <3>1
  <2> HIDE DEF rings, S
  <2>5. todo' \in Seq(S) /\ Len(todo') = 1 + NumQs
    BY <1>2, <2>4, ConcatenateLists
  <2>6. todo'[1] = put /\ \A i \in 1..NumQs : todo'[1 + i] = rings[i]
    BY <1>2, <2>4, ConcatenateLists
  <2>7. \A i \in DOMAIN todo' : i = 1 \/ \E j \in 1..NumQs : i = 1 + j
    <3>1. ASSUME NEW i \in DOMAIN todo', i # 1
          PROVE  i - 1 \in 1..NumQs /\ i = 1 + (i - 1)
      BY <2>1, <2>5, <3>1
    <3> QED
      BY <3>1
  <2> QED
    BY <2>2, <2>3, <2>6, <2>7
<1>5. ~Starting'
  BY <1>4 DEF Starting
<1>6. /\ DOMAIN batch' = DOMAIN batch /\ Len(batch') = Len(batch)
      /\ \A b \in DOMAIN batch :
           /\ b # c => batch'[b] = batch[b]
           /\ batch'[b].final = batch[b].final /\ batch'[b].dep = batch[b].dep
      /\ ~batch'[c].open
  <2> DEFINE T == [perQ : Seq(DOMAIN signal), final : DOMAIN signal,
                   dep : 0..Len(signal), open : BOOLEAN]
  <2>1. batch \in Seq(T) /\ DOMAIN batch = 1..Len(batch) /\ Len(batch) \in Nat
    BY ExecTypes DEF ExecInv, TypeOK
  <2>2. \A x \in T : /\ [x EXCEPT !.open = FALSE].final = x.final
                     /\ [x EXCEPT !.open = FALSE].dep = x.dep
                     /\ ~[x EXCEPT !.open = FALSE].open
                     /\ [x EXCEPT !.open = FALSE] \in T
    OBVIOUS
  <2>3. batch' = [batch EXCEPT ![c] = [batch[c] EXCEPT !.open = FALSE]]
    BY <1>2
  <2> HIDE DEF T, c
  <2>4. /\ \A b \in DOMAIN batch : batch[b] \in T
        /\ DOMAIN batch' = DOMAIN batch
        /\ \A b \in DOMAIN batch : b # c => batch'[b] = batch[b]
        /\ batch'[c] = [batch[c] EXCEPT !.open = FALSE]
    BY <1>3, <2>1, <2>3
  <2>5. batch' \in Seq(T)
    BY <1>3, <2>1, <2>2, <2>3, <2>4
  <2>6. Len(batch') = Len(batch)
    BY <2>1, <2>4, <2>5
  <2> QED
    BY <1>3, <2>2, <2>4, <2>6, ZenonT(60)
<1> QED
  BY <1>1, <1>2, <1>3, <1>4, <1>5, <1>6

LEMMA LaunchKeeps ==
  ASSUME ExecInv, X!IInv', LaunchLevel
  PROVE  ExecInv'
<1> DEFINE c == Len(batch)
<1>1. /\ UNCHANGED <<kind, ring, running, signal, task, done, call, edges, left, before>>
      /\ todo = <<>> /\ loop = "add" /\ left = {}
      /\ c \in DOMAIN batch /\ DOMAIN batch' = DOMAIN batch
      /\ \A b \in DOMAIN batch :
           /\ b # c => batch'[b] = batch[b]
           /\ batch'[b].final = batch[b].final /\ batch'[b].dep = batch[b].dep
      /\ ~batch'[c].open
      /\ prev' = batch[c].final
      /\ level' = NextLevel
      /\ loop' = IF call = "host" THEN "wait" ELSE "level"
      /\ \A i \in DOMAIN todo' :
           \/ todo'[i].do = "put" /\ todo'[i].packet.type = "barrier"
           \/ todo'[i].do = "ring"
      /\ ~Starting /\ ~Starting'
  BY LaunchHappens
<1>2. /\ call \in {"host", "cp"} /\ edges \subseteq Node \X Node
      /\ prev' # X!NullSignal
  <2>1. X!TypeOK /\ call \in {"host", "cp"} /\ edges \subseteq Node \X Node
    BY <1>1 DEF ExecInv, TypeOK
  <2>2. batch[c].final \in 1..Len(signal)
    BY <1>1, <2>1, ExecTypes
  <2>3. batch[c].final # 0
    BY <2>2
  <2> QED
    BY <1>1, <2>1, <2>3 DEF X!NullSignal
<1>3. KernelsOnce'
  <2>1. \A p \in P!PacketsOf' : p.type = "kernel" => p \in P!PacketsOf
    BY <1>1, CallPackets DEF P!InTodo
  <2> QED
    BY <1>1, <2>1, SamePackets, SameNext DEF ExecInv, KernelsOnce
<1>4. BatchInv'
  <2>1. \E b \in DOMAIN batch' : ~batch'[b].open /\ batch'[b].final = prev'
    BY <1>1
  <2>2. loop' # "add" /\ \A i \in DOMAIN todo' : todo'[i].do # "batch"
    BY <1>1
  <2> QED
    BY <1>1, <2>1, <2>2 DEF ExecInv, BatchInv, X!NullSignal
<1>5. CallInv'
  BY <1>1, <1>2 DEF ExecInv, CallInv, X!NullSignal
<1>6. TypeOK'
  <2>1. level' \subseteq Node
    BY <1>1, <1>2 DEF NextLevel, Succs
  <2> QED
    BY <1>1, <1>2, <1>4, <2>1, TypesFollow DEF ExecInv, TypeOK
<1> QED
  BY <1>1, <1>3, <1>4, <1>5, <1>6 DEF ExecInv

LEMMA HostKeeps ==
  ASSUME ExecInv, X!IInv', X!Host, UNCHANGED callVars
  PROVE  ExecInv' /\ HostEffect
<1>1. HostEffect
  BY SameInv, SameNext, SameHost, HostSteps DEF ExecInv, BatchInv, P!IInv
<1>2. /\ UNCHANGED <<kind, task, done, running>>
      /\ UNCHANGED <<call, edges, loop, level, left, prev, before>>
  BY <1>1 DEF HostEffect, callVars
<1>3. WantedDep' = WantedDep
  BY <1>2 DEF WantedDep, DependsOnPrev, X!NullSignal
<1>4. KernelsOnce' /\ BatchInv'
  <2>1. CASE Goes
    <3>1. KernelsOnce'
      BY <1>2, <2>1, SamePackets, SameNext DEF ExecInv, KernelsOnce, Goes
    <3>2. \A i \in DOMAIN todo' : todo'[i].do = "batch" => todo'[i].dep = WantedDep
      BY <2>1 DEF Goes, ExecInv, BatchInv
    <3>3. BatchInv'
      BY <1>2, <1>3, <2>1, <3>2 DEF ExecInv, BatchInv, Goes, X!NullSignal
    <3> QED
      BY <3>1, <3>3
  <2>2. ASSUME NEW t, NEW p, NewKernel(t, p)
        PROVE  KernelsOnce' /\ BatchInv'
    <3>1. t \notin done
      BY <2>2 DEF ExecInv, KernelsOnce, NewKernel
    <3>2. KernelsOnce'
      BY <1>2, <2>2, <3>1, SamePackets, SameNext DEF ExecInv, KernelsOnce, NewKernel
    <3>3. ~Starting'
      BY <2>2 DEF NewKernel, Starting
    <3>4. BatchInv'
      BY <1>2, <1>3, <2>2, <3>3 DEF ExecInv, BatchInv, NewKernel, X!NullSignal
    <3> QED
      BY <3>2, <3>4
  <2>3. ASSUME NEW d, NewBatch(d)
        PROVE  KernelsOnce' /\ BatchInv'
    <3>1. KernelsOnce'
      BY <1>2, <2>3, SamePackets, SameNext DEF ExecInv, KernelsOnce, NewBatch
    <3>2. d = WantedDep
      BY <2>3 DEF ExecInv, BatchInv, NewBatch
    <3>3. prev' # X!NullSignal => \E b \in DOMAIN batch' : ~batch'[b].open /\ batch'[b].final = prev'
      BY <1>2, <2>3 DEF ExecInv, BatchInv, NewBatch
    <3>4. batch' # <<>> /\ batch'[Len(batch')].open /\ batch'[Len(batch')].dep = WantedDep
      <4>1. Len(batch) \in Nat
        BY ExecTypes DEF ExecInv, TypeOK
      <4>2. batch' # <<>>
        BY <2>3, <4>1 DEF NewBatch
      <4> QED
        BY <2>3, <3>2, <4>2 DEF NewBatch
    <3>5. BatchInv'
      BY <1>2, <1>3, <2>3, <3>3, <3>4 DEF ExecInv, BatchInv, NewBatch, X!NullSignal
    <3> QED
      BY <3>1, <3>5
  <2> QED
    BY <1>1, <2>1, <2>2, <2>3 DEF HostEffect
<1>5. CallInv'
  BY <1>2 DEF ExecInv, CallInv, X!NullSignal
<1>6. TypeOK'
  BY <1>2, <1>4, TypesFollow DEF ExecInv, TypeOK
<1> QED
  BY <1>1, <1>2, <1>4, <1>5, <1>6 DEF ExecInv

LEMMA DeviceKeeps ==
  ASSUME ExecInv, X!IInv', X!Device, UNCHANGED callVars
  PROVE  ExecInv' /\ DeviceEffect
<1>1. DeviceEffect
  BY SameDevice, DeviceSteps
<1>2. /\ UNCHANGED <<kind, todo, task, batch>>
      /\ UNCHANGED <<call, edges, loop, level, left, prev, before>>
      /\ P!PacketsOf' \subseteq P!PacketsOf
  BY <1>1 DEF DeviceEffect, callVars
<1>3. KernelsOnce'
  <2>1. \A p \in P!PacketsOf' : p.type = "kernel" => p.task \notin done'
    BY <1>1, SamePackets DEF ExecInv, KernelsOnce, DeviceEffect
  <2>2. \A i \in DOMAIN todo' : todo'[i].do = "pick" => todo'[i].task \notin done'
    <3>1. \A i \in DOMAIN todo : todo[i].do = "pick" => todo[i].task \notin P!Running
      <4>1. SUFFICES ASSUME NEW i \in DOMAIN todo, todo[i].do = "pick", todo[i].task \in P!Running
                     PROVE  FALSE
        OBVIOUS
      <4>2. PICK r \in P!Queue : \E p \in running[r] : todo[i].task = p.task
        BY <4>1 DEF P!Running
      <4>3. PICK p \in running[r] : todo[i].task = p.task
        BY <4>2
      <4>4. p \in P!PacketsOf /\ p.type = "kernel"
        BY PlaceOfPacket
      <4>5. P!TodoInv
        BY SameInv DEF ExecInv, P!IInv
      <4> QED
        BY <4>1, <4>3, <4>4, <4>5 DEF P!TodoInv
    <3> QED
      BY <1>1, <1>2, <3>1 DEF ExecInv, KernelsOnce, DeviceEffect
  <2> QED
    BY <1>2, <2>1, <2>2, SamePackets, SameNext DEF ExecInv, KernelsOnce
<1>4. BatchInv'
  BY <1>2 DEF ExecInv, BatchInv, Starting, WantedDep, DependsOnPrev, X!NullSignal
<1>5. CallInv'
  BY <1>2 DEF ExecInv, CallInv, X!NullSignal
<1>6. TypeOK'
  BY <1>2, <1>4, TypesFollow DEF ExecInv, TypeOK
<1> QED
  BY <1>1, <1>2, <1>3, <1>4, <1>5, <1>6 DEF ExecInv

LEMMA ExecInvKept ==
  ASSUME MaxUnread <= QueueSize, ExecInv, [Next]_vars
  PROVE  ExecInv'
<1>1. X!IInv'
  BY ExecKeeps
<1> QED
  BY <1>1, QuietKeeps, ExecuteKeeps, WaitKeeps, StartKeeps, AddKeeps, LaunchKeeps, HostKeeps, DeviceKeeps
  DEF Next, Host, Device

LEMMA InitExec == Init => ExecInv
<1> SUFFICES ASSUME Init
             PROVE  ExecInv
  OBVIOUS
<1>1. P!IInv
  BY SameInit, P!InitIInv, ExecutorAssumption DEF Init
<1>2. X!IInv /\ X!TypeOK
  BY <1>1, SameInv, SameTyping DEF P!IInv
<1>3. /\ kind = "unordered" /\ call = "idle" /\ edges = {} /\ loop = "idle" /\ level = {} /\ left = {}
      /\ prev = X!NullSignal /\ before = 0
      /\ todo = <<>> /\ task = <<>> /\ done = {} /\ batch = <<>>
      /\ running = [q \in X!Queue |-> {}]
      /\ ring = [q \in X!Queue |-> [i \in 0..(QueueSize - 1) |-> X!NoPacket]]
  BY DEF Init, X!Init
<1>4. KernelsOnce
  <2>1. \A q \in X!Queue : X!Pending(q) = {} /\ running[q] = {}
    BY <1>3 DEF X!Pending, X!Range
  <2>2. X!Asked = {} /\ DOMAIN todo = {}
    BY <1>3 DEF X!Asked, X!Range
  <2>3. X!PacketsOf = {}
    BY <2>1, <2>2 DEF X!PacketsOf
  <2> QED
    BY <2>2, <2>3 DEF KernelsOnce
<1>5. BatchInv
  <2>1. DOMAIN todo = {} /\ DOMAIN task = {}
    BY <1>3
  <2> QED
    BY <1>3, <2>1 DEF BatchInv, Starting
<1>6. CallInv /\ TypeOK
  <2>1. Len(task) = 0 /\ prev \in 0..Len(signal)
    BY <1>2, <1>3, ExecTypes DEF X!NullSignal
  <2> QED
    BY <1>2, <1>3, <2>1 DEF CallInv, TypeOK
<1> QED
  BY <1>2, <1>3, <1>4, <1>5, <1>6 DEF ExecInv

(* On any graph, levelled or not, every variable of executeFromHost and     *)
(* executeFromCP keeps its type: the handle waited for is one the executor  *)
(* under it has given out, and only nodes of the level are left to add.     *)
THEOREM TypeCorrect == MaxUnread <= QueueSize => (Spec => []TypeOK)
<1> SUFFICES ASSUME MaxUnread <= QueueSize
             PROVE  Spec => []TypeOK
  OBVIOUS
<1>1. Init => ExecInv
  BY InitExec
<1>2. ExecInv /\ [Next]_vars => ExecInv'
  BY ExecInvKept
<1>3. ExecInv => TypeOK
  BY DEF ExecInv
<1> QED
  BY <1>1, <1>2, <1>3, PTL DEF Spec

-----------------------------------------------------------------------------
(* Depths of nodes.                                                        *)

DepthRule ==
  /\ \A n \in Node : Depth[n] \in Nat
  /\ \A n \in Node : (\A e \in edges : e[2] # n) => Depth[n] = 0
  /\ \A e \in edges : e[1] \in Node /\ e[2] \in Node /\ Depth[e[2]] = Depth[e[1]] + 1

LEMMA DepthFacts == edges \subseteq Node \X Node /\ Depths(edges) # {} => DepthRule
<1> SUFFICES ASSUME edges \subseteq Node \X Node, Depths(edges) # {}
             PROVE  DepthRule
  OBVIOUS
<1>1. Depth \in Depths(edges)
  BY DEF Depth
<1>2. Depth \in [Node -> 0..Cardinality(Node)]
  BY <1>1 DEF Depths
<1>3. \A n \in Node : Depth[n] \in Nat
  BY <1>2
<1> QED
  BY <1>1, <1>3 DEF Depths, DepthRule

(* The sources are the nodes at depth 0, and the successors of the nodes at *)
(* one depth are those at the next.                                        *)
LEMMA Sources ==
  edges \subseteq Node \X Node /\ Depths(edges) # {} =>
    {n \in Node : \A e \in edges : e[2] # n} = {n \in Node : Depth[n] = 0}
<1> SUFFICES ASSUME edges \subseteq Node \X Node, Depths(edges) # {}
             PROVE  {n \in Node : \A e \in edges : e[2] # n} = {n \in Node : Depth[n] = 0}
  OBVIOUS
<1>1. ASSUME NEW n \in Node, NEW e \in edges, e[2] = n
      PROVE  Depth[n] # 0
  <2>1. Depth[e[1]] \in Nat /\ Depth[n] = Depth[e[1]] + 1
    BY <1>1, DepthFacts DEF DepthRule
  <2> QED
    BY <2>1
<1> QED
  BY <1>1, DepthFacts DEF DepthRule

LEMMA Successors ==
  ASSUME edges \subseteq Node \X Node, Depths(edges) # {}, NEW k \in Nat,
         level = {n \in Node : Depth[n] = k}
  PROVE  NextLevel = {n \in Node : Depth[n] = k + 1}
<1>1. ASSUME NEW n \in NextLevel
      PROVE  n \in Node /\ Depth[n] = k + 1
  <2>1. PICK a \in level : n \in Succs(a)
    BY DEF NextLevel
  <2>2. PICK e \in edges : e[1] = a /\ e[2] = n
    BY <2>1 DEF Succs
  <2> QED
    BY <2>1, <2>2, DepthFacts DEF DepthRule
<1>2. ASSUME NEW n \in Node, Depth[n] = k + 1
      PROVE  n \in NextLevel
  <2>1. PICK e \in edges : e[2] = n
    BY <1>2, DepthFacts DEF DepthRule
  <2>2. e[1] \in Node /\ Depth[e[1]] \in Nat /\ Depth[n] = Depth[e[1]] + 1
    BY <2>1, DepthFacts DEF DepthRule
  <2>3. Depth[e[1]] = k
    BY <1>2, <2>2
  <2>4. n \in Succs(e[1])
    BY <2>1 DEF Succs
  <2> QED
    BY <2>2, <2>3, <2>4 DEF NextLevel
<1> QED
  BY <1>1, <1>2

-----------------------------------------------------------------------------
(* Every step keeps what holds when all paths to a node are equally long.   *)

(* The kernels handed over and their batches, as long as nothing is added.  *)
LEMMA LevelStays ==
  ASSUME ExecInv, LevelInv,
         UNCHANGED <<task, call, edges, loop, level, left, prev, before>>,
         done \subseteq done',
         \A b \in DOMAIN batch : batch'[b].final = batch[b].final /\ batch'[b].dep = batch[b].dep,
         Starting \/ (~Starting' /\ Len(batch') = Len(batch)),
         Starting' => Starting
  PROVE  LevelInv'
<1> SUFFICES ASSUME call # "idle"
             PROVE  LevelInv'
  BY DEF LevelInv
<1>1. /\ Depth' = Depth /\ Levels' = Levels
      /\ \A n : TasksOf(n)' = TasksOf(n)
      /\ \A k : HandedOver(k)' = HandedOver(k)
  BY DEF Depth, Levels, TasksOf, HandedOver
<1>2. \A n : \A t \in TasksOf(n) : FinalOf(t)' = FinalOf(t) /\ DepOf(t)' = DepOf(t)
  <2>1. \A t \in DOMAIN task : task[t].batch \in DOMAIN batch
    <3>1. X!TypeOK /\ \A t \in DOMAIN task : task[t].batch # 0
      BY DEF ExecInv, TypeOK, BatchInv
    <3> QED
      BY <3>1, ExecTypes
  <2> QED
    BY <2>1 DEF TasksOf, FinalOf, DepOf
<1>3. PICK k \in Levels : AtLevel(k)
  BY DEF LevelInv
<1>4. AtLevel(k)'
  BY <1>1, <1>2, <1>3 DEF AtLevel, X!NullSignal
<1>5. \A m, n \in Node : \A u \in TasksOf(m)', t \in TasksOf(n)' :
        Depth'[n] = Depth'[m] + 1 =>
          IF call' = "host" THEN u \in done' ELSE DepOf(t)' = FinalOf(u)'
  BY <1>1, <1>2 DEF LevelInv
<1>6. /\ Depths(edges)' # {}
      /\ \A n \in Node : \A t, u \in TasksOf(n)' : t = u
  BY <1>1 DEF LevelInv, Depths
<1> QED
  BY <1>1, <1>4, <1>5, <1>6 DEF LevelInv

LEMMA ExecuteLevel ==
  ASSUME \A g \in Graphs : Depths(g) # {},
         ExecInv, NEW c \in {"host", "cp"}, NEW g \in Graphs, Execute(c, g)
  PROVE  LevelInv'
<1>1. /\ call = "idle" /\ call' = c /\ edges' = g /\ loop' = "level"
      /\ level' = {n \in Node : \A e \in g : e[2] # n}
      /\ UNCHANGED <<task, batch>> /\ UNCHANGED <<left, prev, before>>
  BY DEF Execute, execVars
<1>2. prev = X!NullSignal /\ before = Len(task) /\ DOMAIN task = 1..Len(task) /\ Len(task) \in Nat
  BY <1>1, ExecTypes DEF ExecInv, CallInv, TypeOK
<1>3. \A n : TasksOf(n)' = {}
  BY <1>1, <1>2 DEF TasksOf
<1>4. Depths(edges)' # {} /\ (edges \subseteq Node \X Node)'
  BY <1>1, GraphAssumption DEF Depths
<1>5. DepthRule'
  <2>1. (edges \subseteq Node \X Node)' /\ (Depths(edges) # {})' => DepthRule'
    BY DepthFacts, PTL
  <2> QED
    BY <1>4, <2>1
<1>6. level' = {n \in Node : Depth'[n] = 0}
  <2>1. (edges \subseteq Node \X Node)' /\ (Depths(edges) # {})' =>
          ({n \in Node : \A e \in edges : e[2] # n} = {n \in Node : Depth[n] = 0})'
    BY Sources, PTL
  <2> QED
    BY <1>1, <1>4, <2>1
<1>7. AtLevel(0)'
  <2>1. 0..(0 - 1) = {}
    OBVIOUS
  <2>2. HandedOver(0)' = {}
    BY <1>1, <1>5 DEF HandedOver, DepthRule
  <2> QED
    BY <1>1, <1>2, <1>3, <1>6, <2>1, <2>2 DEF AtLevel, X!NullSignal
<1>8. 0 \in Levels'
  BY DEF Levels
<1> QED
  BY <1>3, <1>4, <1>7, <1>8 DEF LevelInv

LEMMA StartOfLevel ==
  ASSUME ExecInv, LevelInv, StartLevel
  PROVE  LevelInv'
<1>1. /\ UNCHANGED <<task, done, batch, call, edges, level, prev, before>>
      /\ loop = "level" /\ level # {} /\ loop' = "add" /\ left' = level
      /\ call # "idle" /\ edges \subseteq Node \X Node
  BY StartHappens DEF ExecInv, TypeOK
<1>2. Depths(edges) # {} /\ \E k \in Levels : AtLevel(k)
  BY <1>1 DEF LevelInv
<1>3. PICK k \in Levels : AtLevel(k)
  BY <1>2
<1>4. DepthRule
  BY <1>1, <1>2, DepthFacts
<1>5. /\ Depth' = Depth /\ Levels' = Levels
      /\ \A n : TasksOf(n)' = TasksOf(n)
      /\ \A t : FinalOf(t)' = FinalOf(t) /\ DepOf(t)' = DepOf(t)
  BY <1>1 DEF Depth, Levels, TasksOf, FinalOf, DepOf
<1>6. level = {n \in Node : Depth[n] = k}
  BY <1>3 DEF AtLevel
<1>7. HandedOver(k)' = HandedOver(k)
  BY <1>1, <1>5, <1>6 DEF HandedOver
<1>8. \A n \in Node : Depth[n] = k => TasksOf(n) = {}
  <2>1. k \in Int
    BY <1>3, <1>4 DEF Levels, DepthRule
  <2>2. \A n \in Node : Depth[n] = k => n \notin HandedOver(k)
    BY <1>1, <2>1, <1>4 DEF HandedOver
  <2> QED
    BY <1>3, <2>2 DEF AtLevel
<1>9. AtLevel(k)'
  BY <1>1, <1>3, <1>5, <1>6, <1>7, <1>8 DEF AtLevel, X!NullSignal
<1>10. \A m, n \in Node : \A u \in TasksOf(m)', t \in TasksOf(n)' :
         Depth'[n] = Depth'[m] + 1 =>
           IF call' = "host" THEN u \in done' ELSE DepOf(t)' = FinalOf(u)'
  BY <1>1, <1>5 DEF LevelInv
<1> QED
  BY <1>1, <1>2, <1>5, <1>9, <1>10 DEF LevelInv, Depths

LEMMA AddToLevel ==
  ASSUME ExecInv, LevelInv, NEW n \in Node, AddNode(n)
  PROVE  LevelInv'
<1>0. PICK u : u = Len(task) + 1
  OBVIOUS
<1>1. /\ UNCHANGED <<done, batch, call, edges, level, prev, before, loop>>
      /\ loop = "add" /\ n \in left /\ left' = left \ {n}
      /\ DOMAIN task' = DOMAIN task \cup {u} /\ u \notin DOMAIN task
      /\ \A t \in DOMAIN task : task'[t] = task[t]
      /\ task'[u].kernel = n /\ task'[u].batch = Len(batch)
      /\ batch[Len(batch)].dep = WantedDep
      /\ ~Starting'
  BY <1>0, AddHappens
<1>2. /\ call # "idle" /\ left \subseteq level /\ edges \subseteq Node \X Node
      /\ before \in 0..Len(task) /\ Len(task) \in Nat /\ call \in {"host", "cp"}
  <2>1. /\ call # "idle" /\ left \subseteq level /\ edges \subseteq Node \X Node
        /\ before \in 0..Len(task) /\ X!TypeOK /\ call \in {"host", "cp"}
    BY <1>1 DEF ExecInv, TypeOK
  <2> QED
    BY <2>1, ExecTypes
<1>3. Depths(edges) # {} /\ (\E k \in Levels : AtLevel(k))
      /\ \A m : \A t, s \in TasksOf(m) : m \in Node => t = s
  BY <1>2 DEF LevelInv
<1>4. PICK k \in Levels : AtLevel(k)
  BY <1>3
<1>5. DepthRule /\ k \in Nat
  <2>1. DepthRule
    BY <1>2, <1>3, DepthFacts
  <2> QED
    BY <2>1 DEF Levels, DepthRule
<1>6. /\ Depth' = Depth /\ Levels' = Levels
      /\ \A t \in DOMAIN task : FinalOf(t)' = FinalOf(t) /\ DepOf(t)' = DepOf(t)
      /\ FinalOf(u)' = batch[Len(batch)].final /\ DepOf(u)' = WantedDep
  BY <1>1 DEF Depth, Levels, FinalOf, DepOf
<1>7. \A m : TasksOf(m)' = TasksOf(m) \cup (IF m = n THEN {u} ELSE {})
  <2>1. u > before'
    BY <1>0, <1>1, <1>2
  <2> QED
    BY <1>1, <2>1 DEF TasksOf
<1>8. u \notin done /\ \A m : TasksOf(m) \subseteq DOMAIN task
  BY <1>1, ExecTypes DEF ExecInv, TypeOK, TasksOf
<1>9. /\ level = {m \in Node : Depth[m] = k}
      /\ \A d \in 0..(k - 1) : \E m \in Node : Depth[m] = d
      /\ prev = X!NullSignal <=> k = 0
      /\ \A m \in Node : TasksOf(m) # {} <=> m \in HandedOver(k)
      /\ \A m \in Node : \A t \in TasksOf(m) :
           /\ Depth[m] = k - 1 => FinalOf(t) = prev
           /\ Depth[m] = k => task[t].batch = Len(batch) /\ ~Starting
           /\ call = "host" /\ Depth[m] < k => t \in done
  BY <1>1, <1>4 DEF AtLevel
<1>10. Depth[n] = k /\ TasksOf(n) = {}
  <2>1. Depth[n] = k
    BY <1>1, <1>2, <1>9
  <2>2. n \notin HandedOver(k)
    BY <1>1, <1>5, <2>1 DEF HandedOver
  <2> QED
    BY <1>9, <2>1, <2>2
<1>11. HandedOver(k)' = HandedOver(k) \cup {n}
  BY <1>1, <1>6, <1>10 DEF HandedOver
<1>12. \A m \in Node : TasksOf(m)' # {} <=> m \in HandedOver(k)'
  BY <1>7, <1>9, <1>11
<1>13. ASSUME NEW m \in Node, NEW t \in TasksOf(m)'
       PROVE  /\ Depth[m] = k - 1 => FinalOf(t)' = prev
              /\ Depth[m] = k => task'[t].batch = Len(batch)
              /\ call = "host" /\ Depth[m] < k => t \in done
  <2>1. CASE m = n
    <3>1. t = u /\ Depth[m] = k
      BY <1>7, <1>10, <2>1
    <3> QED
      BY <1>0, <1>1, <1>5, <3>1
  <2>2. CASE m # n
    <3>1. t \in TasksOf(m) /\ t \in DOMAIN task
      BY <1>7, <1>8, <2>2
    <3> QED
      BY <1>1, <1>6, <1>9, <3>1
  <2> QED
    BY <2>1, <2>2
<1>14. AtLevel(k)'
  BY <1>1, <1>2, <1>6, <1>9, <1>12, <1>13 DEF AtLevel, X!NullSignal
<1>15. \A m \in Node : \A t, s \in TasksOf(m)' : t = s
  BY <1>3, <1>7, <1>10
<1>16. ASSUME NEW a \in Node, NEW m \in Node, NEW s \in TasksOf(a)', NEW t \in TasksOf(m)',
              Depth[m] = Depth[a] + 1
       PROVE  IF call = "host" THEN s \in done ELSE DepOf(t)' = FinalOf(s)'
  <2>1. Depth[a] \in Nat /\ Depth[m] \in Nat /\ a # m
    BY <1>5, <1>16 DEF DepthRule
  <2>2. CASE m = n
    <3>1. t = u /\ s \in TasksOf(a) /\ s \in DOMAIN task /\ Depth[a] = k - 1 /\ k # 0
      BY <1>5, <1>7, <1>8, <1>10, <1>16, <2>1, <2>2
    <3>2. CASE call = "host"
      BY <1>5, <1>9, <3>1, <3>2
    <3>3. CASE call = "cp"
      <4>1. WantedDep = prev
        BY <1>9, <3>1, <3>3 DEF WantedDep, DependsOnPrev
      <4> QED
        BY <1>6, <1>9, <3>1, <3>3, <4>1
    <3> QED
      BY <1>2, <3>2, <3>3
  <2>3. CASE m # n /\ a # n
    <3>1. t \in TasksOf(m) /\ s \in TasksOf(a) /\ t \in DOMAIN task /\ s \in DOMAIN task
      BY <1>7, <1>8, <2>3
    <3>2. IF call = "host" THEN s \in done ELSE DepOf(t) = FinalOf(s)
      BY <1>2, <1>16, <3>1 DEF LevelInv
    <3> QED
      BY <1>6, <3>1, <3>2
  <2>4. CASE m # n /\ a = n
    <3>1. TasksOf(m) # {}
      BY <1>7, <2>4
    <3>2. m \in HandedOver(k)
      BY <1>9, <3>1
    <3>3. Depth[m] <= k
      BY <1>5, <2>1, <3>2 DEF HandedOver
    <3> QED
      BY <1>5, <1>10, <1>16, <2>1, <2>4, <3>3
  <2> QED
    BY <2>2, <2>3, <2>4
<1> QED
  BY <1>1, <1>3, <1>6, <1>14, <1>15, <1>16 DEF LevelInv, Depths

LEMMA LaunchOfLevel ==
  ASSUME ExecInv, LevelInv, LaunchLevel
  PROVE  LevelInv'
<1> DEFINE c == Len(batch)
<1>1. /\ UNCHANGED <<task, done, call, edges, left, before>>
      /\ loop = "add" /\ left = {}
      /\ c \in DOMAIN batch /\ DOMAIN batch' = DOMAIN batch /\ Len(batch') = c
      /\ \A b \in DOMAIN batch :
           batch'[b].final = batch[b].final /\ batch'[b].dep = batch[b].dep
      /\ prev' = batch[c].final
      /\ level' = NextLevel
      /\ loop' = IF call = "host" THEN "wait" ELSE "level"
      /\ ~Starting'
  BY LaunchHappens
<1>2. /\ call \in {"host", "cp"} /\ edges \subseteq Node \X Node /\ prev' # X!NullSignal
      /\ \A t \in DOMAIN task : task[t].batch \in DOMAIN batch
  <2>1. X!TypeOK /\ call \in {"host", "cp"} /\ edges \subseteq Node \X Node
        /\ \A t \in DOMAIN task : task[t].batch # 0
    BY <1>1 DEF ExecInv, TypeOK, BatchInv
  <2>2. batch[c].final \in 1..Len(signal)
    BY <1>1, <2>1, ExecTypes
  <2>3. batch[c].final # 0
    BY <2>2
  <2>4. \A t \in DOMAIN task : task[t].batch \in DOMAIN batch
    BY <2>1, ExecTypes
  <2> QED
    BY <1>1, <2>1, <2>3, <2>4 DEF X!NullSignal
<1>3. /\ Depths(edges) # {} /\ \E k \in Levels : AtLevel(k)
  BY <1>2 DEF LevelInv
<1>4. PICK k \in Levels : AtLevel(k)
  BY <1>3
<1>5. DepthRule /\ k \in Nat
  <2>1. DepthRule
    BY <1>2, <1>3, DepthFacts
  <2> QED
    BY <2>1 DEF Levels, DepthRule
<1>6. /\ Depth' = Depth /\ Levels' = Levels
      /\ \A n : TasksOf(n)' = TasksOf(n)
      /\ \A t \in DOMAIN task : FinalOf(t)' = FinalOf(t) /\ DepOf(t)' = DepOf(t)
      /\ \A n : TasksOf(n) \subseteq DOMAIN task
  BY <1>1, <1>2 DEF Depth, Levels, TasksOf, FinalOf, DepOf
<1>7. /\ level = {n \in Node : Depth[n] = k} /\ level # {}
      /\ \A d \in 0..(k - 1) : \E n \in Node : Depth[n] = d
      /\ \A n \in Node : TasksOf(n) # {} <=> n \in HandedOver(k)
      /\ \A n \in Node : \A t \in TasksOf(n) :
           /\ Depth[n] = k => task[t].batch = c
           /\ call = "host" /\ Depth[n] < k => t \in done
  BY <1>1, <1>4 DEF AtLevel
<1>8. level' = {n \in Node : Depth[n] = k + 1}
  BY <1>1, <1>2, <1>3, <1>5, <1>7, Successors
<1>9. HandedOver(k + 1)' = HandedOver(k)
  BY <1>1, <1>5, <1>6 DEF HandedOver, DepthRule
<1>10. \A d \in 0..k : \E n \in Node : Depth[n] = d
  BY <1>5, <1>7
<1>11. \A n \in Node : \A t \in TasksOf(n) :
         /\ Depth[n] = k => FinalOf(t)' = prev'
         /\ Depth[n] # k + 1
  <2>1. \A n \in Node : \A t \in TasksOf(n) : Depth[n] = k => FinalOf(t)' = prev'
    BY <1>1, <1>6, <1>7 DEF FinalOf
  <2>2. \A n \in Node : n \in HandedOver(k) => Depth[n] # k + 1
    BY <1>5 DEF HandedOver, DepthRule
  <2> QED
    BY <1>7, <2>1, <2>2
<1>12. AtLevel(k + 1)'
  <2>1. k + 1 - 1 = k /\ k + 1 # 0
    BY <1>5
  <2>2. loop' # "add"
    BY <1>1
  <2>3. \A n \in Node : TasksOf(n)' # {} <=> n \in HandedOver(k + 1)'
    BY <1>6, <1>7, <1>9
  <2>4. call' = "host" => loop' = "wait"
    BY <1>1
  <2>5. \A n \in Node : \A t \in TasksOf(n)' :
          /\ Depth'[n] = (k + 1) - 1 => FinalOf(t)' = prev'
          /\ Depth'[n] # k + 1
          /\ call' = "host" /\ Depth'[n] < (IF loop' = "wait" THEN (k + 1) - 1 ELSE k + 1) => t \in done'
    BY <1>1, <1>5, <1>6, <1>7, <1>11, <2>1, <2>4
  <2>6. \A d \in 0..((k + 1) - 1) : \E n \in Node : Depth'[n] = d
    BY <1>5, <1>6, <1>10, <2>1
  <2> QED
    BY <1>2, <1>6, <1>8, <2>1, <2>2, <2>3, <2>5, <2>6 DEF AtLevel, X!NullSignal
<1>13. k + 1 \in Levels'
  BY <1>6, <1>7 DEF Levels
<1>14. \A m, n \in Node : \A s \in TasksOf(m)', t \in TasksOf(n)' :
         Depth'[n] = Depth'[m] + 1 =>
           IF call' = "host" THEN s \in done' ELSE DepOf(t)' = FinalOf(s)'
  BY <1>1, <1>2, <1>6 DEF LevelInv
<1> QED
  BY <1>1, <1>2, <1>3, <1>6, <1>12, <1>13, <1>14 DEF LevelInv, Depths

(* A handle at zero means that the kernels of the level it stands for are   *)
(* done.                                                                   *)
LEMMA LevelDone ==
  ASSUME NumQs <= BarrierDeps, ExecInv, NEW s \in DOMAIN signal, signal[s] = 0,
         NEW t \in DOMAIN task, FinalOf(t) = s
  PROVE  t \in done
<1>1. P!HandleMeansDone
  BY SameInv, P!ZeroMeansDone, ExecutorAssumption DEF ExecInv
<1>2. task[t].batch \in DOMAIN batch
  <2>1. X!TypeOK /\ task[t].batch # 0
    BY DEF ExecInv, TypeOK, BatchInv
  <2>2. /\ task[t].batch \in 0..Len(batch) /\ DOMAIN batch = 1..Len(batch) /\ Len(batch) \in Nat
    BY <2>1, ExecTypes
  <2> QED
    BY <2>1, <2>2
<1> QED
  BY <1>1, <1>2 DEF P!HandleMeansDone, FinalOf

LEMMA WaitOfLevel ==
  ASSUME NumQs <= BarrierDeps, ExecInv, LevelInv, WaitLevel
  PROVE  LevelInv'
<1>1. /\ UNCHANGED <<todo, task, done, batch, call, edges, left, level, prev, before>>
      /\ loop = "wait" /\ loop' = "level" /\ call = "host" /\ signal[prev] = 0
      /\ edges \subseteq Node \X Node
  BY DEF WaitLevel, execVars, ExecInv, TypeOK
<1>2. prev \in DOMAIN signal
  <2>1. prev # X!NullSignal /\ prev \in 0..Len(signal) /\ DOMAIN signal = 1..Len(signal) /\ Len(signal) \in Nat
    BY <1>1, ExecTypes DEF ExecInv, CallInv, TypeOK
  <2> QED
    BY <2>1 DEF X!NullSignal
<1>3. Depths(edges) # {} /\ \E k \in Levels : AtLevel(k)
  BY <1>1 DEF LevelInv
<1>4. PICK k \in Levels : AtLevel(k)
  BY <1>3
<1>5. DepthRule /\ k \in Nat
  <2>1. DepthRule
    BY <1>1, <1>3, DepthFacts
  <2> QED
    BY <2>1 DEF Levels, DepthRule
<1>6. /\ Depth' = Depth /\ Levels' = Levels
      /\ \A n : TasksOf(n)' = TasksOf(n)
      /\ HandedOver(k)' = HandedOver(k)
      /\ \A t : FinalOf(t)' = FinalOf(t) /\ DepOf(t)' = DepOf(t)
      /\ Starting' <=> Starting
  BY <1>1 DEF Depth, Levels, TasksOf, HandedOver, FinalOf, DepOf, Starting
<1>7. \A n \in Node : \A t \in TasksOf(n) : Depth[n] < k => t \in done
  <2>1. SUFFICES ASSUME NEW n \in Node, NEW t \in TasksOf(n), Depth[n] < k
                 PROVE  t \in done
    OBVIOUS
  <2>2. CASE Depth[n] < k - 1
    BY <1>1, <1>4, <2>2 DEF AtLevel
  <2>3. CASE Depth[n] = k - 1
    <3>1. FinalOf(t) = prev /\ t \in DOMAIN task
      BY <1>4, <2>3 DEF AtLevel, TasksOf
    <3> QED
      BY <1>1, <1>2, <3>1, LevelDone
  <2>4. Depth[n] \in Nat
    BY <1>5 DEF DepthRule
  <2> QED
    BY <1>5, <2>1, <2>2, <2>3, <2>4
<1>8. AtLevel(k)'
  BY <1>1, <1>4, <1>6, <1>7 DEF AtLevel, X!NullSignal
<1>9. \A m, n \in Node : \A s \in TasksOf(m)', t \in TasksOf(n)' :
        Depth'[n] = Depth'[m] + 1 =>
          IF call' = "host" THEN s \in done' ELSE DepOf(t)' = FinalOf(s)'
  BY <1>1, <1>6 DEF LevelInv
<1> QED
  BY <1>1, <1>3, <1>6, <1>8, <1>9 DEF LevelInv, Depths

LEMMA LevelInvKept ==
  ASSUME MaxUnread <= QueueSize, NumQs <= BarrierDeps, \A g \in Graphs : Depths(g) # {},
         IInv, [Next]_vars
  PROVE  IInv'
<1>1. ExecInv /\ LevelInv /\ ExecInv' /\ X!IInv'
  BY ExecInvKept, ExecKeeps DEF IInv
<1>2. CASE UNCHANGED vars
  <2>1. /\ UNCHANGED <<task, done, batch, todo, call, edges, loop, level, left, prev, before>>
    BY <1>2 DEF vars
  <2> QED
    BY <1>1, <2>1, LevelStays DEF IInv, Starting
<1>3. ASSUME NEW c \in {"host", "cp"}, NEW g \in Graphs, Execute(c, g)
      PROVE  IInv'
  BY <1>1, <1>3, ExecuteLevel DEF IInv
<1>4. CASE Return
  BY <1>1, <1>4 DEF Return, IInv, LevelInv
<1>5. CASE X!Host /\ UNCHANGED callVars
  <2>1. HostEffect /\ UNCHANGED <<call, edges, loop, level, left, prev, before>>
    BY <1>1, <1>5, HostKeeps DEF callVars
  <2>2. /\ UNCHANGED <<task, done>>
        /\ \A b \in DOMAIN batch : batch'[b] = batch[b]
        /\ Starting \/ (~Starting' /\ Len(batch') = Len(batch))
        /\ Starting' => Starting
    <3>1. CASE Goes
      BY <2>1, <3>1 DEF HostEffect, Goes
    <3>2. CASE \E t, p : NewKernel(t, p)
      BY <2>1, <3>2 DEF HostEffect, NewKernel, Starting
    <3>3. CASE \E d : NewBatch(d)
      BY <2>1, <3>3 DEF HostEffect, NewBatch
    <3> QED
      BY <2>1, <3>1, <3>2, <3>3 DEF HostEffect
  <2> QED
    BY <1>1, <2>1, <2>2, LevelStays DEF IInv
<1>6. CASE X!Device /\ UNCHANGED callVars
  <2>1. DeviceEffect /\ UNCHANGED <<call, edges, loop, level, left, prev, before>>
    BY <1>1, <1>6, DeviceKeeps DEF callVars
  <2>2. UNCHANGED <<task, batch, todo>> /\ done \subseteq done'
    BY <2>1 DEF DeviceEffect
  <2> QED
    BY <1>1, <2>1, <2>2, LevelStays DEF IInv, Starting
<1>7. CASE StartLevel \/ (\E n \in Node : AddNode(n)) \/ LaunchLevel \/ WaitLevel
  BY <1>1, <1>7, StartOfLevel, AddToLevel, LaunchOfLevel, WaitOfLevel DEF IInv
<1> QED
  BY <1>2, <1>3, <1>4, <1>5, <1>6, <1>7 DEF Next, Host, Device

LEMMA InitIInv == Init => IInv
<1> SUFFICES ASSUME Init
             PROVE  IInv
  OBVIOUS
<1>1. call = "idle"
  BY DEF Init
<1> QED
  BY <1>1, InitExec DEF IInv, LevelInv

(* Where no batch may be overwritten and one barrier packet is enough, the  *)
(* levels of a graph whose paths to a node are all equally long are         *)
(* executed as batches in a row.                                            *)
THEOREM Invariance ==
  /\ MaxUnread <= QueueSize
  /\ NumQs <= BarrierDeps
  /\ \A g \in Graphs : Depths(g) # {}
  => (Spec => []IInv)
<1> SUFFICES ASSUME MaxUnread <= QueueSize, NumQs <= BarrierDeps, \A g \in Graphs : Depths(g) # {}
             PROVE  Spec => []IInv
  OBVIOUS
<1>1. IInv /\ [Next]_vars => IInv'
  BY LevelInvKept
<1> QED
  BY <1>1, InitIInv, PTL DEF Spec

-----------------------------------------------------------------------------
(* The promise of the calls.                                               *)

(* A kernel that runs is not complete, and was handed over.                *)
LEMMA RunningKernels ==
  ASSUME ExecInv
  PROVE  /\ P!Running \cap done = {}
         /\ P!Running \cup done \subseteq DOMAIN task
<1>1. P!IInv
  BY SameInv DEF ExecInv
<1>2. ASSUME NEW t \in P!Running
      PROVE  t \notin done
  <2>1. PICK q \in P!Queue : \E p \in running[q] : t = p.task
    BY DEF P!Running
  <2>2. PICK p \in running[q] : t = p.task
    BY <2>1
  <2>3. p \in P!PacketsOf /\ p.type = "kernel"
    BY PlaceOfPacket
  <2> QED
    BY <2>2, <2>3, SamePackets DEF ExecInv, KernelsOnce
<1> QED
  BY <1>1, <1>2, P!KernelTasks, ExecutorAssumption DEF P!KernelsAreTasks

(* The state of a job is that of the kernels of its node.                  *)
LEMMA SameJobs ==
  ASSUME UNCHANGED <<call, edges>>,
         call # "idle" =>
           \A n \in Node : /\ TasksOf(n)' \cap P!Running' = TasksOf(n) \cap P!Running
                           /\ TasksOf(n)' \cap done' = TasksOf(n) \cap done
  PROVE  UNCHANGED Promise!vars
<1>1. \A n \in Node : JobState(n)' = JobState(n)
  BY SamePackets, SameNext DEF JobState
<1>2. UNCHANGED [n \in Node |-> JobState(n)]
  BY <1>1
<1> QED
  BY <1>2 DEF Promise!vars

(* The steps that put a kernel in a batch or make its packets.             *)
LEMMA HostPromise ==
  ASSUME ExecInv, UNCHANGED <<running, done, call, edges, before>>,
         DOMAIN task \subseteq DOMAIN task', \A t \in DOMAIN task : task'[t] = task[t]
  PROVE  UNCHANGED Promise!vars
<1>1. P!Running' = P!Running
  BY DEF P!Running, P!Queue
<1>2. P!Running \cup done \subseteq DOMAIN task
  BY RunningKernels
<1>3. \A n \in Node : \A t \in P!Running \cup done : t \in TasksOf(n)' <=> t \in TasksOf(n)
  BY <1>2 DEF TasksOf
<1> QED
  BY <1>1, <1>3, SameJobs

LEMMA ExecutePromise ==
  ASSUME ExecInv, NEW c \in {"host", "cp"}, NEW g \in Graphs, Execute(c, g)
  PROVE  Promise!Submit
<1>1. /\ call = "idle" /\ call' = c /\ edges' = g
      /\ UNCHANGED <<task, before>>
  BY DEF Execute, execVars
<1>2. before = Len(task) /\ DOMAIN task = 1..Len(task) /\ Len(task) \in Nat
  BY <1>1, ExecTypes DEF ExecInv, CallInv, TypeOK
<1>3. \A n : TasksOf(n)' = {}
  BY <1>1, <1>2 DEF TasksOf
<1>4. \A n \in Node : JobState(n)' = "waiting"
  BY <1>1, <1>3 DEF JobState
<1>5. edges' \subseteq Node \X Node
  BY <1>1, GraphAssumption
<1> QED
  BY <1>1, <1>4, <1>5 DEF Promise!Submit

(* A kernel is in the batch that depends on that of its predecessors, and   *)
(* a batch waits for the one it depends on.                                *)
LEMMA LevelBefore ==
  ASSUME NumQs <= BarrierDeps, ExecInv, LevelInv, call # "idle",
         NEW m \in Node, NEW n \in Node, NEW u \in TasksOf(m), NEW t \in TasksOf(n),
         Depth[n] = Depth[m] + 1, t \in P!Running \cup done
  PROVE  u \in done
<1>1. CASE call = "host"
  BY <1>1 DEF LevelInv
<1>2. CASE call # "host"
  <2>1. DepOf(t) = FinalOf(u)
    BY <1>2 DEF LevelInv
  <2>2. P!DependentBatchWaits
    BY SameInv DEF ExecInv, P!IInv, P!DepInv
  <2>3. /\ t \in DOMAIN task /\ u \in DOMAIN task
        /\ task[t].batch # 0 /\ task[u].batch # 0 /\ X!TypeOK
    BY DEF TasksOf, ExecInv, BatchInv, TypeOK
  <2>4. task[u].batch \in 0..Len(batch) /\ DOMAIN batch = 1..Len(batch) /\ Len(batch) \in Nat
    BY <2>3, ExecTypes
  <2>5. FinalOf(u) \in 1..Len(signal) /\ DOMAIN signal = 1..Len(signal)
    <3>1. task[u].batch \in DOMAIN batch
      BY <2>3, <2>4
    <3> QED
      BY <2>3, <3>1, ExecTypes DEF FinalOf
  <2>6. DepOf(t) # P!NullSignal
    BY <2>1, <2>5 DEF P!NullSignal
  <2>7. signal[FinalOf(u)] = 0
    BY <2>1, <2>2, <2>3, <2>6 DEF P!DependentBatchWaits, DepOf
  <2> QED
    BY <2>3, <2>5, <2>7, LevelDone
<1> QED
  BY <1>1, <1>2

LEMMA PredsFirst == NumQs <= BarrierDeps /\ IInv => RunsAfterPreds
<1> SUFFICES ASSUME NumQs <= BarrierDeps, IInv,
                    NEW n \in Node, NEW t \in TasksOf(n) \cap (P!Running \cup done), NEW m \in Preds(n)
             PROVE  TasksOf(m) # {} /\ TasksOf(m) \subseteq done
  BY SamePackets DEF RunsAfterPreds
<1>1. ExecInv /\ LevelInv /\ edges \subseteq Node \X Node
  BY DEF IInv, ExecInv, TypeOK
<1>2. <<m, n>> \in edges /\ m \in Node
  BY <1>1 DEF Preds
<1>3. call # "idle"
  BY <1>1, <1>2 DEF ExecInv, CallInv
<1>4. PICK k \in Levels : AtLevel(k)
  BY <1>1, <1>3 DEF LevelInv
<1>5. DepthRule /\ k \in Nat
  <2>1. DepthRule
    BY <1>1, <1>3, DepthFacts DEF LevelInv
  <2> QED
    BY <2>1 DEF Levels, DepthRule
<1>6. Depth[m] \in Nat /\ Depth[n] = Depth[m] + 1
  BY <1>2, <1>5 DEF DepthRule
<1>7. Depth[n] <= k
  BY <1>4, <1>5, <1>6 DEF AtLevel, HandedOver
<1>8. TasksOf(m) # {}
  BY <1>2, <1>4, <1>5, <1>6, <1>7 DEF AtLevel, HandedOver
<1>9. TasksOf(m) \subseteq done
  BY <1>1, <1>2, <1>3, <1>6, LevelBefore
<1> QED
  BY <1>8, <1>9

(* No path is longer than the levels there are.                            *)
LEMMA NoDeeper ==
  ASSUME DepthRule, NEW k \in Nat, \A n \in Node : Depth[n] # k, NEW n \in Node
  PROVE  Depth[n] < k
<1> DEFINE S == {j \in Nat : \A m \in Node : Depth[m] # k + j}
<1>1. 0 \in S
  OBVIOUS
<1>2. ASSUME NEW j \in S
      PROVE  j + 1 \in S
  <2>1. SUFFICES ASSUME NEW m \in Node, Depth[m] = k + (j + 1)
                 PROVE  FALSE
    OBVIOUS
  <2>2. PICK e \in edges : e[2] = m
    BY <2>1 DEF DepthRule
  <2>3. e[1] \in Node /\ Depth[e[1]] \in Nat /\ Depth[m] = Depth[e[1]] + 1
    BY <2>2 DEF DepthRule
  <2>4. Depth[e[1]] = k + j
    BY <2>1, <2>3
  <2> QED
    BY <2>3, <2>4
<1>3. S = Nat
  <2>1. S \in SUBSET Nat
    OBVIOUS
  <2> HIDE DEF S
  <2> QED
    BY <1>1, <1>2, <2>1, NatSetInduction
<1>4. Depth[n] \in Nat
  BY DEF DepthRule
<1>5. SUFFICES ASSUME ~(Depth[n] < k)
               PROVE  FALSE
  OBVIOUS
<1>6. Depth[n] - k \in Nat /\ k + (Depth[n] - k) = Depth[n]
  BY <1>4, <1>5
<1> QED
  BY <1>3, <1>6

(* When the last level has been waited for, every kernel is done: on the    *)
(* device the batch before a complete one is complete, and so on back to    *)
(* the first.                                                              *)
LEMMA AllKernelsDone ==
  ASSUME NumQs <= BarrierDeps, ExecInv, LevelInv, Return, NEW n \in Node
  PROVE  TasksOf(n) # {} /\ TasksOf(n) \subseteq done
<1>1. /\ loop = "level" /\ level = {} /\ (DependsOnPrev => signal[prev] = 0)
      /\ call \in {"host", "cp"} /\ edges \subseteq Node \X Node
  BY DEF Return, ExecInv, TypeOK
<1>2. PICK k \in Levels : AtLevel(k)
  BY <1>1 DEF LevelInv
<1>3. DepthRule /\ k \in Nat
  <2>1. DepthRule
    BY <1>1, DepthFacts DEF LevelInv
  <2> QED
    BY <2>1 DEF Levels, DepthRule
<1>4. \A m \in Node : Depth[m] \in Nat /\ Depth[m] < k
  <2>1. \A m \in Node : Depth[m] # k
    BY <1>1, <1>2 DEF AtLevel
  <2> QED
    BY <1>3, <2>1, NoDeeper DEF DepthRule
<1>5. \A m \in Node : TasksOf(m) # {} /\ TasksOf(m) \subseteq DOMAIN task
  BY <1>1, <1>2, <1>4 DEF AtLevel, HandedOver, TasksOf
<1>6. CASE call = "host"
  BY <1>1, <1>2, <1>4, <1>5, <1>6 DEF AtLevel
<1>7. CASE call = "cp"
  <2> DEFINE S == {j \in Nat : \A m \in Node : Depth[m] = k - 1 - j => TasksOf(m) \subseteq done}
  <2>1. prev # X!NullSignal /\ prev \in DOMAIN signal /\ signal[prev] = 0
    <3>1. k # 0
      BY <1>3, <1>4
    <3>2. prev # X!NullSignal
      BY <1>2, <3>1 DEF AtLevel
    <3>3. signal[prev] = 0
      BY <1>1, <1>7, <3>2 DEF DependsOnPrev
    <3> QED
      BY <3>2, <3>3, PrevIsSignal, ExecTypes DEF ExecInv, TypeOK, X!NullSignal
  <2>2. 0 \in S
    <3>1. \A m \in Node : Depth[m] = k - 1 => \A t \in TasksOf(m) : FinalOf(t) = prev
      BY <1>2 DEF AtLevel
    <3>2. \A m \in Node : Depth[m] = k - 1 => TasksOf(m) \subseteq done
      BY <1>5, <2>1, <3>1, LevelDone
    <3>3. k - 1 - 0 = k - 1
      BY <1>3
    <3> QED
      BY <3>2, <3>3
  <2>3. ASSUME NEW j \in S
        PROVE  j + 1 \in S
    <3>1. SUFFICES ASSUME NEW m \in Node, Depth[m] = k - 1 - (j + 1), NEW u \in TasksOf(m)
                   PROVE  u \in done
      OBVIOUS
    <3>2. k - 1 - j = Depth[m] + 1 /\ k - 1 - j \in 0..(k - 1)
      BY <1>3, <1>4, <3>1
    <3>3. PICK l \in Node : Depth[l] = k - 1 - j
      BY <1>2, <3>2 DEF AtLevel
    <3>4. PICK t : t \in TasksOf(l)
      BY <1>5
    <3>5. t \in done /\ Depth[l] = Depth[m] + 1
      BY <3>2, <3>3, <3>4
    <3> QED
      BY <1>1, <3>4, <3>5, LevelBefore
  <2>4. S = Nat
    <3>1. S \in SUBSET Nat
      OBVIOUS
    <3> HIDE DEF S
    <3> QED
      BY <2>2, <2>3, <3>1, NatSetInduction
  <2>5. (k - 1) - Depth[n] \in Nat /\ Depth[n] = k - 1 - ((k - 1) - Depth[n])
    BY <1>3, <1>4
  <2> QED
    BY <1>5, <2>4, <2>5
<1> QED
  BY <1>1, <1>6, <1>7

LEMMA ReturnPromise ==
  ASSUME NumQs <= BarrierDeps, ExecInv, LevelInv, Return
  PROVE  Promise!Return
<1>1. call # "idle" /\ call' = "idle" /\ edges' = {}
  BY DEF Return, ExecInv, TypeOK
<1>2. \A n \in Node : JobState(n) = "done"
  <2>1. P!Running \cap done = {}
    BY RunningKernels
  <2> QED
    BY <1>1, <2>1, AllKernelsDone, SamePackets DEF JobState
<1>3. \A n \in Node : JobState(n)' = "none"
  BY <1>1 DEF JobState
<1> QED
  BY <1>1, <1>2, <1>3 DEF Promise!Return

(* What the steps of the device show: nothing, a kernel that starts after   *)
(* those before it are complete, or one that completes.                    *)
LEMMA StartPromise ==
  ASSUME NumQs <= BarrierDeps, IInv, IInv',
         UNCHANGED <<task, done, call, edges, level, before>>, call # "idle",
         NEW n \in Node, NEW t \in TasksOf(n), t \notin P!Running \cup done,
         P!Running' = P!Running \cup {t}
  PROVE  Promise!Start(n)
<1>1. \A m \in Node : TasksOf(m)' = TasksOf(m)
  BY DEF TasksOf
<1>2. \A m \in Node : m # n => t \notin TasksOf(m)
  BY DEF TasksOf
<1>3. TasksOf(n) = {t}
  BY DEF IInv, LevelInv
<1>4. JobState(n) = "waiting" /\ JobState(n)' = "running"
  BY <1>1, <1>3, SamePackets, SameNext DEF JobState
<1>5. \A m \in Node \ {n} : JobState(m)' = JobState(m)
  BY <1>1, <1>2, SamePackets, SameNext DEF JobState
<1>6. ASSUME NEW m \in Node, <<m, n>> \in edges
      PROVE  JobState(m) = "done"
  <2>1. RunsAfterPreds'
    <3>1. NumQs <= BarrierDeps /\ IInv' => RunsAfterPreds'
      BY PredsFirst, PTL
    <3> QED
      BY <3>1
  <2>2. m \in Preds(n)' /\ t \in (TasksOf(n) \cap (X!Running \cup done))'
    BY <1>1, <1>6, SameNext DEF Preds
  <2>3. TasksOf(m) # {} /\ TasksOf(m) \subseteq done
    BY <1>1, <2>1, <2>2 DEF RunsAfterPreds
  <2>4. P!Running \cap done = {}
    BY RunningKernels DEF IInv
  <2> QED
    BY <2>3, <2>4, SamePackets DEF JobState
<1>7. [m \in Node |-> JobState(m)]' = [[m \in Node |-> JobState(m)] EXCEPT ![n] = "running"]
  BY <1>4, <1>5
<1> QED
  BY <1>4, <1>6, <1>7 DEF Promise!Start

LEMMA FinishPromise ==
  ASSUME ExecInv, LevelInv, UNCHANGED <<task, call, edges, before>>, call # "idle",
         NEW n \in Node, NEW t \in TasksOf(n), t \in P!Running \ done,
         P!Running' = P!Running \ {t}, done' = done \cup {t}
  PROVE  Promise!Finish(n)
<1>1. \A m \in Node : TasksOf(m)' = TasksOf(m)
  BY DEF TasksOf
<1>2. \A m \in Node : m # n => t \notin TasksOf(m)
  BY DEF TasksOf
<1>3. TasksOf(n) = {t}
  BY DEF LevelInv
<1>4. JobState(n) = "running" /\ JobState(n)' = "done"
  BY <1>1, <1>3, SamePackets, SameNext DEF JobState
<1>5. \A m \in Node \ {n} : JobState(m)' = JobState(m)
  <2>1. ASSUME NEW m \in Node \ {n}
        PROVE  /\ TasksOf(m)' \cap P!Running' = TasksOf(m) \cap P!Running
               /\ TasksOf(m)' \cap done' = TasksOf(m) \cap done
    BY <1>1, <1>2
  <2> QED
    BY <2>1, SamePackets, SameNext DEF JobState
<1>6. [m \in Node |-> JobState(m)]' = [[m \in Node |-> JobState(m)] EXCEPT ![n] = "done"]
  BY <1>4, <1>5
<1> QED
  BY <1>4, <1>6 DEF Promise!Finish

LEMMA DevicePromise ==
  ASSUME NumQs <= BarrierDeps, IInv, IInv', X!Device, UNCHANGED callVars
  PROVE  Promise!Next \/ UNCHANGED Promise!vars
<1>1. ExecInv /\ LevelInv /\ ExecInv' /\ LevelInv' /\ X!IInv'
  BY DEF IInv, ExecInv
<1>2. DeviceEffect
  BY <1>1, DeviceKeeps
<1>3. UNCHANGED <<task, call, edges, level, before>>
  BY <1>2 DEF DeviceEffect, callVars
<1>4. \A n : TasksOf(n)' = TasksOf(n)
  BY <1>3 DEF TasksOf
<1>5. CASE call = "idle"
  BY <1>3, <1>5, SameJobs
<1>6. CASE P!Running' = P!Running /\ UNCHANGED done
  BY <1>3, <1>4, <1>6, SameJobs
<1>7. ASSUME call # "idle", NEW t \in DOMAIN task,
             \A n \in Node : t \notin TasksOf(n),
             P!Running' \in {P!Running \cup {t}, P!Running \ {t}}, done' \in {done, done \cup {t}}
      PROVE  UNCHANGED Promise!vars
  BY <1>3, <1>4, <1>7, SameJobs
<1>8. ASSUME call # "idle", NEW t \in DOMAIN task \ (P!Running \cup done),
             P!Running' = P!Running \cup {t}, UNCHANGED done
      PROVE  Promise!Next \/ UNCHANGED Promise!vars
  <2>1. ASSUME NEW n \in Node, t \in TasksOf(n)
        PROVE  Promise!Start(n)
    BY <1>3, <1>8, <2>1, StartPromise
  <2> QED
    BY <1>7, <1>8, <2>1 DEF Promise!Next
<1>9. ASSUME call # "idle", NEW t \in P!Running \ done,
             P!Running' = P!Running \ {t}, done' = done \cup {t}
      PROVE  Promise!Next \/ UNCHANGED Promise!vars
  <2>1. ASSUME NEW n \in Node, t \in TasksOf(n)
        PROVE  Promise!Finish(n)
    BY <1>1, <1>3, <1>9, <2>1, FinishPromise
  <2>2. t \in DOMAIN task
    BY <1>1, <1>9, RunningKernels
  <2> QED
    BY <1>7, <1>9, <2>1, <2>2 DEF Promise!Next
<1> QED
  BY <1>2, <1>5, <1>6, <1>8, <1>9 DEF DeviceEffect

-----------------------------------------------------------------------------
(* No kernel has two packets, and none is in a packet or about to get one   *)
(* when it is complete: on any graph a kernel handed over runs only once.   *)
THEOREM EachKernelOnce == MaxUnread <= QueueSize => (Spec => []KernelsOnce)
<1> SUFFICES ASSUME MaxUnread <= QueueSize
             PROVE  Spec => []KernelsOnce
  OBVIOUS
<1>1. Init => ExecInv
  BY InitExec
<1>2. ExecInv /\ [Next]_vars => ExecInv'
  BY ExecInvKept
<1>3. ExecInv => KernelsOnce
  BY DEF ExecInv
<1> QED
  BY <1>1, <1>2, <1>3, PTL DEF Spec

(* Executing a graph level by level keeps its order, by both calls: the     *)
(* kernel of a node starts when those of all its predecessors are complete. *)
THEOREM LevelsKeepOrder ==
  /\ MaxUnread <= QueueSize
  /\ NumQs <= BarrierDeps
  /\ \A g \in Graphs : Depths(g) # {}
  => (Spec => []RunsAfterPreds)
<1> SUFFICES ASSUME MaxUnread <= QueueSize, NumQs <= BarrierDeps, \A g \in Graphs : Depths(g) # {}
             PROVE  Spec => []RunsAfterPreds
  OBVIOUS
<1>1. Spec => []IInv
  BY Invariance
<1>2. IInv => RunsAfterPreds
  BY PredsFirst
<1> QED
  BY <1>1, <1>2, PTL

(* executeFromHost and executeFromCP keep the promise of every executor of  *)
(* DAGs: each node runs once and after its predecessors, and both calls     *)
(* return when all nodes are done, although executeFromCP waits for the     *)
(* last level only.                                                        *)
THEOREM Refinement ==
  /\ MaxUnread <= QueueSize
  /\ NumQs <= BarrierDeps
  /\ \A g \in Graphs : Depths(g) # {}
  => (Spec => KeepsPromise)
<1> SUFFICES ASSUME MaxUnread <= QueueSize, NumQs <= BarrierDeps, \A g \in Graphs : Depths(g) # {}
             PROVE  Spec => KeepsPromise
  OBVIOUS
<1>1. Init => Promise!Init
  <2> SUFFICES ASSUME Init PROVE Promise!Init
    OBVIOUS
  <2>1. call = "idle" /\ edges = {}
    BY DEF Init
  <2> QED
    BY <2>1 DEF Promise!Init, JobState
<1>2. IInv /\ IInv' /\ [Next]_vars => [Promise!Next]_(Promise!vars)
  <2> SUFFICES ASSUME IInv, IInv', [Next]_vars
               PROVE  Promise!Next \/ UNCHANGED Promise!vars
    OBVIOUS
  <2>0. ExecInv /\ LevelInv /\ X!IInv'
    BY DEF IInv, ExecInv
  <2>1. ASSUME NEW c \in {"host", "cp"}, NEW g \in Graphs, Execute(c, g)
        PROVE  Promise!Next
    BY <2>0, <2>1, ExecutePromise DEF Promise!Next
  <2>2. CASE StartLevel
    BY <2>0, <2>2, StartHappens, HostPromise
  <2>3. ASSUME NEW n \in Node, AddNode(n)
        PROVE  UNCHANGED Promise!vars
    <3>1. /\ UNCHANGED <<running, done, call, edges, before>>
          /\ DOMAIN task \subseteq DOMAIN task'
          /\ \A t \in DOMAIN task : task'[t] = task[t]
      BY <2>0, <2>3, AddHappens
    <3> QED
      BY <2>0, <3>1, HostPromise
  <2>4. CASE LaunchLevel
    <3>1. UNCHANGED <<running, task, done, call, edges, before>>
      BY <2>0, <2>4, LaunchHappens
    <3> QED
      BY <2>0, <3>1, HostPromise
  <2>5. CASE WaitLevel \/ UNCHANGED vars
    <3>1. UNCHANGED <<running, task, done, call, edges, before>>
      BY <2>5 DEF WaitLevel, execVars, vars
    <3> QED
      BY <2>0, <3>1, HostPromise
  <2>6. CASE Return
    BY <2>0, <2>6, ReturnPromise DEF Promise!Next
  <2>7. CASE X!Host /\ UNCHANGED callVars
    <3>1. UNCHANGED <<running, task, done, call, edges, before>>
      BY <2>0, <2>7, HostKeeps DEF HostEffect, callVars
    <3> QED
      BY <2>0, <3>1, HostPromise
  <2>8. CASE X!Device /\ UNCHANGED callVars
    BY <2>8, DevicePromise
  <2> QED
    BY <2>1, <2>2, <2>3, <2>4, <2>5, <2>6, <2>7, <2>8 DEF Next, Host, Device
<1> QED
  BY <1>1, <1>2, Invariance, PTL DEF Spec, KeepsPromise, Promise!Spec
=============================================================================
