---------------------------- MODULE DagrExecutor ----------------------------
(***************************************************************************)
(* The executors of DAGEE-lib that write AQL packets to HSA user-mode      *)
(* queues themselves: DispatchQueueSerial (dagr/queue.h), the packets of   *)
(* PacketFactory (dagr/kernel.h), SerialOrderedExecutor and                *)
(* SerialUnorderedExecutor (dagr/executor.h).                              *)
(*                                                                         *)
(* The calling thread runs a call of an executor as a list of steps, todo: *)
(* between two of them the device reads packets, runs kernels and lowers   *)
(* signals.  The packet processor of HSA is external.  It takes the        *)
(* packets of a queue in order, up to the index last stored to the         *)
(* doorbell and no further than the first slot without a packet; a packet  *)
(* with the barrier bit waits for everything before it in its queue to     *)
(* complete; a barrier packet also waits for its signals to be zero.       *)
(***************************************************************************)
EXTENDS Integers, Sequences, SequencesExt, Functions, FiniteSets

CONSTANTS
  NumQs,        \* mNumQueues of the unordered executor
  QueueSize,    \* HsaQueue::size
  BarrierDeps,  \* BARRIER_PKT_NUM_PREDS
  Kernel,       \* kernel instances
  MaxTasks,     \* bound: kernels handed to the executor
  MaxBatches,   \* bound: batches started
  MaxUnread     \* bound: packets not read by the device the client lets pile up

ASSUME QueuesAssumption == NumQs \in 1..64
ASSUME SizeAssumption   == QueueSize \in Nat \ {0}
ASSUME DepsAssumption   == BarrierDeps \in Nat \ {0}
ASSUME BoundAssumption  == {MaxTasks, MaxBatches, MaxUnread} \subseteq Nat

VARIABLES
  kind,        \* the executor: "ordered" or "unordered"
  ring,        \* HSA: the packet in each slot of each queue, or NoPacket
  hsaWrite,    \* HSA: the write index of each queue
  readIndex,   \* HSA: the read index of each queue
  doorbell,    \* HSA: the doorbell signal of each queue
  signal,      \* HSA: the values of the signals taken from the pool
  running,     \* HSA: the kernel packets in execution, for each queue
  mWriteIndex, \* of each DispatchQueueSerial
  mCurrQid,    \* of SerialUnorderedExecutor
  todo,        \* the rest of the call in progress, a sequence of steps
  task,        \* history: the kernels handed over, in that order
  done,        \* history: those of them that have completed
  batch        \* the BatchState objects, and what was done with them

deviceVars == <<ring, readIndex, running, signal, done>>
vars == <<kind, ring, hsaWrite, readIndex, doorbell, signal, running,
          mWriteIndex, mCurrQid, todo, task, done, batch>>

Queue == 0..(NumQs - 1)
Used  == IF kind = "ordered" THEN {0} ELSE Queue

NullSignal == 0
NoPacket   == [type |-> "invalid"]

-----------------------------------------------------------------------------
(* Packets.                                                                *)

(* Mutant: the barrier bit of the ordered executor is not set.             *)
MutKernelPacket(t, sig) ==
  [type |-> "kernel", task |-> t, sig |-> sig, deps |-> {}, barrier |-> FALSE]

KernelPacket(t, sig) ==
  [type |-> "kernel", task |-> t, sig |-> sig, deps |-> {},
   barrier |-> kind = "ordered"]

(* Mutant: the signal of the last queue is left out.                       *)
MutFitting(deps) == Range(SubSeq(deps, 1, Len(deps) - 1))

(* PacketFactory::init copies as many signals as fit in the packet.        *)
Fitting(deps) == {deps[i] : i \in DOMAIN deps \cap 1..BarrierDeps}

BarrierPacket(deps, sig) ==
  [type |-> "barrier", sig |-> sig, deps |-> Fitting(deps), barrier |-> TRUE]

Lowered(sigs, s) == IF s = NullSignal THEN sigs ELSE [sigs EXCEPT ![s] = @ - 1]

-----------------------------------------------------------------------------
(* DispatchQueueSerial.                                                    *)

Slot(i) == i % QueueSize
Full(q) == mWriteIndex[q] >= readIndex[q] + QueueSize

(* Packets the device has yet to read.                                     *)
Unread(q) == hsaWrite[q] - readIndex[q]

(* Mutant: the slot is located before the index is advanced.               *)
MutHeadSlot(q) == Slot(mWriteIndex[q])
HeadSlot(q)    == Slot(hsaWrite[q])

(* giveOneSlot busy-waits while the queue is full.  The index of the slot  *)
(* is what hsa_queue_add_write_index returns, the index before the add.    *)
Put(q, packet) ==
  /\ ~Full(q)
  /\ mWriteIndex' = [mWriteIndex EXCEPT ![q] = hsaWrite[q]]
  /\ hsaWrite' = [hsaWrite EXCEPT ![q] = @ + 1]
  /\ ring' = [ring EXCEPT ![q][HeadSlot(q)] = packet]

(* Mutant: the doorbell gets the index before the last packet's.           *)
MutRing(q) == doorbell' = [doorbell EXCEPT ![q] = mWriteIndex[q] - 1]

(* submitPackets.                                                          *)
Ring(q) == doorbell' = [doorbell EXCEPT ![q] = mWriteIndex[q]]

-----------------------------------------------------------------------------
(* Steps of a call.                                                        *)

PutStep(q, packet)  == [do |-> "put", q |-> q, packet |-> packet]
RingStep(q)         == [do |-> "ring", q |-> q]
PickStep(t, use, b) == [do |-> "pick", task |-> t, use |-> use, batch |-> b]
BatchStep(dep)      == [do |-> "batch", dep |-> dep]

PutNext ==
  /\ todo # <<>>
  /\ Head(todo).do = "put"
  /\ Put(Head(todo).q, Head(todo).packet)
  /\ todo' = Tail(todo)
  /\ UNCHANGED <<kind, readIndex, doorbell, signal, running, mCurrQid, task, done, batch>>

RingNext ==
  /\ todo # <<>>
  /\ Head(todo).do = "ring"
  /\ Ring(Head(todo).q)
  /\ todo' = Tail(todo)
  /\ UNCHANGED <<kind, ring, hsaWrite, readIndex, signal, running,
                 mWriteIndex, mCurrQid, task, done, batch>>

(* Mutant: the batch's signal is not raised for the kernel added.          *)
MutRaised(s) == signal

(* hsa_signal_add_relaxed(s, 1).                                           *)
Raised(s) == [signal EXCEPT ![s] = @ + 1]

(* One turn of the loop of nextQid and, if it was the last, the rest of    *)
(* launchTask, launchAndForget or addToBatch.                              *)
PickNext ==
  LET q == (mCurrQid + 1) % NumQs
      s == Head(todo)
      b == batch[s.batch]
  IN /\ todo # <<>>
     /\ s.do = "pick"
     /\ mCurrQid' = q
     /\ \/ /\ Full(q)
           /\ UNCHANGED <<signal, todo, task>>
        \/ /\ ~Full(q)
           /\ s.use = "launch"
           /\ signal' = Append(signal, 1)
           /\ task' = [task EXCEPT ![s.task].sig = Len(signal')]
           /\ todo' = <<PutStep(q, KernelPacket(s.task, Len(signal'))), RingStep(q)>>
        \/ /\ ~Full(q)
           /\ s.use = "forget"
           /\ todo' = <<PutStep(q, KernelPacket(s.task, NullSignal)), RingStep(q)>>
           /\ UNCHANGED <<signal, task>>
        \/ /\ ~Full(q)
           /\ s.use = "batch"
           /\ signal' = Raised(b.perQ[q + 1])
           /\ todo' = <<PutStep(q, KernelPacket(s.task, b.perQ[q + 1]))>>
           /\ UNCHANGED task
     /\ UNCHANGED <<kind, ring, hsaWrite, readIndex, doorbell, running, mWriteIndex, done, batch>>

(* Mutant: the final signal is stored zero as well.                        *)
MutBatchSignals(n) == [i \in 1..(n + 1) |-> 0]
BatchSignals(n)    == [i \in 1..n |-> 0] \o <<1>>

(* The constructor of BatchState.  The signals of the queues start at      *)
(* zero, the final one as it comes from the pool, at one.                  *)
BatchNext ==
  LET n == IF kind = "ordered" THEN 0 ELSE NumQs
  IN /\ todo # <<>>
     /\ Head(todo).do = "batch"
     /\ signal' = signal \o BatchSignals(n)
     /\ batch' = Append(batch, [perQ |-> [i \in 1..n |-> Len(signal) + i],
                                final |-> Len(signal) + n + 1,
                                dep |-> Head(todo).dep,
                                open |-> TRUE])
     /\ todo' = Tail(todo)
     /\ UNCHANGED <<kind, ring, hsaWrite, readIndex, doorbell, running,
                    mWriteIndex, mCurrQid, task, done>>

Host == PutNext \/ RingNext \/ PickNext \/ BatchNext

-----------------------------------------------------------------------------
(* Calls.                                                                  *)

NewTask(k, b, sig) == [kernel |-> k, batch |-> b, sig |-> sig]

CanCall    == todo = <<>> /\ \A q \in Queue : Unread(q) < MaxUnread
CanHandOver == CanCall /\ Len(task) < MaxTasks
CanStart   == CanCall /\ Len(batch) < MaxBatches

(* What no call changes before its first step.                             *)
callSame == <<kind, ring, hsaWrite, readIndex, doorbell, running, mWriteIndex, mCurrQid, done>>

LaunchTask(k) ==
  LET t == Len(task) + 1
      s == Len(signal) + 1
  IN /\ CanHandOver
     /\ \/ /\ kind = "ordered"
           /\ signal' = Append(signal, 1)
           /\ task' = Append(task, NewTask(k, 0, s))
           /\ todo' = <<PutStep(0, KernelPacket(t, s)), RingStep(0)>>
        \/ /\ kind = "unordered"
           /\ task' = Append(task, NewTask(k, 0, NullSignal))
           /\ todo' = <<PickStep(t, "launch", 0)>>
           /\ UNCHANGED signal
     /\ UNCHANGED <<callSame, batch>>

LaunchAndForget(k) ==
  LET t == Len(task) + 1
  IN /\ CanHandOver
     /\ task' = Append(task, NewTask(k, 0, NullSignal))
     /\ todo' = IF kind = "ordered"
                THEN <<PutStep(0, KernelPacket(t, NullSignal)), RingStep(0)>>
                ELSE <<PickStep(t, "forget", 0)>>
     /\ UNCHANGED <<callSame, signal, batch>>

StartBatch ==
  /\ CanStart
  /\ todo' = <<BatchStep(NullSignal)>>
  /\ UNCHANGED <<callSame, signal, task, batch>>

(* Mutant: only the first queue is made to wait.                           *)
MutStartBatchWithDep(s) ==
  /\ CanStart
  /\ kind = "unordered"
  /\ todo' = <<PutStep(0, BarrierPacket(<<s>>, NullSignal)), BatchStep(s)>>
  /\ UNCHANGED <<callSame, signal, task, batch>>

(* A barrier packet in every queue, dependent on the handle s.             *)
StartBatchWithDep(s) ==
  /\ CanStart
  /\ kind = "unordered"
  /\ todo' = [i \in 1..NumQs |-> PutStep(i - 1, BarrierPacket(<<s>>, NullSignal))]
               \o <<BatchStep(s)>>
  /\ UNCHANGED <<callSame, signal, task, batch>>

AddToBatch(b, k) ==
  LET t == Len(task) + 1
  IN /\ CanHandOver
     /\ batch[b].open
     /\ task' = Append(task, NewTask(k, b, NullSignal))
     /\ todo' = IF kind = "ordered"
                THEN <<PutStep(0, KernelPacket(t, NullSignal))>>
                ELSE <<PickStep(t, "batch", b)>>
     /\ UNCHANGED <<callSame, signal, batch>>

(* finishBatch of the ordered executor; that of the unordered one is       *)
(* addToBatch followed by launchBatch.                                     *)
FinishBatch(b, k) ==
  LET t == Len(task) + 1
      s == batch[b].final
  IN /\ CanHandOver
     /\ kind = "ordered"
     /\ batch[b].open
     /\ task' = Append(task, NewTask(k, b, s))
     /\ batch' = [batch EXCEPT ![b].open = FALSE]
     /\ todo' = <<PutStep(0, KernelPacket(t, s)), RingStep(0)>>
     /\ UNCHANGED <<callSame, signal>>

(* Every queue's doorbell is rung, with or without packets of the batch.   *)
LaunchBatch(b) ==
  /\ CanCall
  /\ kind = "unordered"
  /\ batch[b].open
  /\ batch' = [batch EXCEPT ![b].open = FALSE]
  /\ todo' = <<PutStep(0, BarrierPacket(batch[b].perQ, batch[b].final))>>
               \o [i \in 1..NumQs |-> RingStep(i - 1)]
  /\ UNCHANGED <<callSame, signal, task>>

(* The handles the client has been given.                                  *)
Handles ==
  ({task[t].sig : t \in DOMAIN task} \ {NullSignal})
    \cup {batch[b].final : b \in {c \in DOMAIN batch : ~batch[c].open}}

Client ==
  \/ \E k \in Kernel : \/ LaunchTask(k)
                       \/ LaunchAndForget(k)
                       \/ \E b \in DOMAIN batch : AddToBatch(b, k) \/ FinishBatch(b, k)
  \/ StartBatch
  \/ \E s \in Handles : StartBatchWithDep(s)
  \/ \E b \in DOMAIN batch : LaunchBatch(b)

-----------------------------------------------------------------------------
(* The device.                                                             *)

hostVars == <<kind, hsaWrite, doorbell, mWriteIndex, mCurrQid, todo, task, batch>>

Process(q) ==
  LET i == readIndex[q]
      p == ring[q][Slot(i)]
  IN /\ p # NoPacket
     /\ i <= doorbell[q]
     /\ p.barrier => running[q] = {}
     /\ \A s \in p.deps : signal[s] = 0
     /\ ring' = [ring EXCEPT ![q][Slot(i)] = NoPacket]
     /\ readIndex' = [readIndex EXCEPT ![q] = i + 1]
     /\ \/ /\ p.type = "kernel"
           /\ running' = [running EXCEPT ![q] = @ \cup {p}]
           /\ UNCHANGED signal
        \/ /\ p.type = "barrier"
           /\ signal' = Lowered(signal, p.sig)
           /\ UNCHANGED running
     /\ UNCHANGED <<hostVars, done>>

Complete(q, p) ==
  /\ running' = [running EXCEPT ![q] = @ \ {p}]
  /\ signal' = Lowered(signal, p.sig)
  /\ done' = done \cup {p.task}
  /\ UNCHANGED <<hostVars, ring, readIndex>>

Device == \E q \in Queue : Process(q) \/ \E p \in running[q] : Complete(q, p)

-----------------------------------------------------------------------------
Init ==
  /\ kind \in {"ordered", "unordered"}
  /\ ring = [q \in Queue |-> [i \in 0..(QueueSize - 1) |-> NoPacket]]
  /\ hsaWrite = [q \in Queue |-> 0]
  /\ readIndex = [q \in Queue |-> 0]
  /\ doorbell = [q \in Queue |-> -1]
  /\ signal = <<>>
  /\ running = [q \in Queue |-> {}]
  /\ mWriteIndex = [q \in Queue |-> 0]
  /\ mCurrQid = 0
  /\ todo = <<>>
  /\ task = <<>>
  /\ done = {}
  /\ batch = <<>>

Next == Client \/ Host \/ Device

Spec == Init /\ [][Next]_vars

(* A call that has begun goes on; the device reads what the doorbell lets  *)
(* it read, and every kernel ends.                                         *)
FairSpec == Spec /\ WF_vars(Host) /\ WF_vars(Device)

-----------------------------------------------------------------------------
Packet == [type : {"kernel"}, task : 1..Len(task), sig : 0..Len(signal), deps : {{}}, barrier : BOOLEAN]
            \cup [type : {"barrier"}, sig : 0..Len(signal), deps : SUBSET (1..Len(signal)), barrier : {TRUE}]

TypeOK ==
  /\ kind \in {"ordered", "unordered"}
  /\ ring \in [Queue -> [0..(QueueSize - 1) -> Packet \cup {NoPacket}]]
  /\ hsaWrite \in [Queue -> Nat]
  /\ readIndex \in [Queue -> Nat]
  /\ doorbell \in [Queue -> Int]
  /\ signal \in Seq(Nat)
  /\ running \in [Queue -> SUBSET Packet]
  /\ mWriteIndex \in [Queue -> Nat]
  /\ mCurrQid \in Queue
  /\ task \in Seq([kernel : Kernel, batch : 0..Len(batch), sig : 0..Len(signal)])
  /\ done \subseteq DOMAIN task
  /\ batch \in Seq([perQ : Seq(DOMAIN signal), final : DOMAIN signal,
                    dep : 0..Len(signal), open : BOOLEAN])

(* The packets of a queue the device has yet to read.                      *)
Pending(q) == Range(ring[q]) \ {NoPacket}

Asked     == {s \in Range(todo) : s.do = "put"}
PacketsOf == {s.packet : s \in Asked} \cup UNION {Pending(q) \cup running[q] : q \in Queue}

(* A kernel handed to an executor is not lost: it is being handed over, in *)
(* a queue, in execution or complete.                                      *)
NothingLost ==
  \A t \in DOMAIN task :
    \/ t \in done
    \/ \E p \in PacketsOf : p.type = "kernel" /\ p.task = t
    \/ \E s \in Range(todo) : s.do = "pick" /\ s.task = t

(* A signal is as high as the packets that will still lower it: none is    *)
(* lowered twice or below zero, although those of a batch start at zero    *)
(* and kernels of a batch whose queue is rung by another call complete     *)
(* while it is being filled.                                               *)
SignalsExact ==
  \A s \in DOMAIN signal :
    signal[s] = Cardinality({p \in PacketsOf : p.sig = s})
                  + Cardinality({b \in DOMAIN batch : batch[b].open /\ batch[b].final = s})

(* A handle whose signal is zero stands for completed work.                *)
HandleMeansDone ==
  /\ \A t \in DOMAIN task :
       task[t].sig # NullSignal /\ signal[task[t].sig] = 0 => t \in done
  /\ \A b \in DOMAIN batch :
       signal[batch[b].final] = 0 => \A t \in DOMAIN task : task[t].batch = b => t \in done

Running == UNION {{p.task : p \in running[q]} : q \in Queue}

(* No kernel of a dependent batch starts before the handle it depends on   *)
(* is complete.                                                            *)
DependentBatchWaits ==
  \A t \in Running \cup done :
    LET b == task[t].batch
    IN b # 0 => batch[b].dep = NullSignal \/ signal[batch[b].dep] = 0

(* The ordered executor runs its kernels one after the other.              *)
InLaunchOrder ==
  kind = "ordered" => \A t \in Running \cup done : 1..(t - 1) \subseteq done

(* What was launched completes.                                            *)
LaunchedCompletes ==
  /\ \A t \in 1..MaxTasks :
       (t \in DOMAIN task /\ task[t].batch = 0) ~> t \in done
  /\ \A b \in 1..MaxBatches :
       (b \in DOMAIN batch /\ ~batch[b].open)
         ~> (b \in DOMAIN batch /\ signal[batch[b].final] = 0)

-----------------------------------------------------------------------------
(* The inductive invariant, when the client lets no more than a queue of    *)
(* packets pile up (MaxUnread <= QueueSize).                               *)

Index(q) == readIndex[q] .. (hsaWrite[q] - 1)

(* The slots with a packet are those of the indexes not read yet.          *)
RingInv ==
  \A q \in Queue :
    /\ readIndex[q] <= hsaWrite[q]
    /\ hsaWrite[q] <= readIndex[q] + QueueSize
    /\ \A i \in Index(q) : ring[q][Slot(i)] # NoPacket
    /\ \A x \in 0..(QueueSize - 1) :
         ring[q][x] # NoPacket => \E i \in Index(q) : x = Slot(i)

Step == [do : {"put"}, q : Queue, packet : Packet]
          \cup [do : {"ring"}, q : Queue]
          \cup [do : {"pick"}, task : DOMAIN task, use : {"launch", "forget", "batch"},
                batch : 0..Len(batch)]
          \cup [do : {"batch"}, dep : 0..Len(signal)]

(* A call writes at most one packet to a queue, and there is room for it.   *)
(* A batch is started by the last step of a call.                          *)
(* Before a queue is picked there is no packet of the kernel.              *)
TodoInv ==
  /\ todo \in Seq(Step)
  /\ \A i \in DOMAIN todo :
       /\ todo[i].do = "put" =>
            /\ Unread(todo[i].q) < QueueSize
            /\ \A j \in DOMAIN todo :
                 todo[j].do = "put" /\ todo[j].q = todo[i].q => j = i
       /\ todo[i].do = "batch" => i = Len(todo)
       /\ todo[i].do = "pick" =>
            LET t == todo[i].task
                b == todo[i].batch
            IN /\ Len(todo) = 1
               /\ kind = "unordered"
               /\ task[t].batch = b
               /\ task[t].sig = NullSignal
               /\ todo[i].use = "batch" <=> b # 0
               /\ b # 0 => batch[b].open
               /\ \A q \in Queue : Unread(q) < QueueSize
               /\ \A p \in PacketsOf : p.type = "kernel" => p.task # t

(* A packet that lowers a signal is in one place.                          *)
OnceInv ==
  /\ \A i \in DOMAIN todo :
       todo[i].do = "put" /\ todo[i].packet.sig # NullSignal =>
         /\ \A j \in DOMAIN todo : todo[j].do = "put" => j = i
         /\ \A q \in Queue : todo[i].packet \notin Pending(q) \cup running[q]
  /\ \A q, r \in Queue : \A x, y \in 0..(QueueSize - 1) :
       ring[q][x] # NoPacket /\ ring[q][x].sig # NullSignal /\ ring[q][x] = ring[r][y]
         => q = r /\ x = y
  /\ \A q, r \in Queue : \A p \in running[q] :
       p.sig # NullSignal => p \notin Pending(r) /\ (p \in running[r] => q = r)

(* What the signals of a packet are.                                       *)
Linked(p) ==
  /\ p.type = "kernel" =>
       LET t == task[p.task]
       IN /\ p.barrier <=> kind = "ordered"
          /\ t.sig # NullSignal => p.sig = t.sig
          /\ kind = "unordered" /\ t.batch # 0 => p.sig \in Range(batch[t.batch].perQ)
  /\ p.type = "barrier" => kind = "unordered"
  /\ \A b \in DOMAIN batch :
       p.sig = batch[b].final =>
         /\ ~batch[b].open
         /\ p.type = "barrier" => p.deps = Fitting(batch[b].perQ)

LinkInv ==
  /\ \A p \in PacketsOf : Linked(p)
  /\ \A q \in Queue : \A p \in running[q] : p.type = "kernel"

(* Signals are taken from the pool for one purpose each: no handle is the   *)
(* signal of a queue's share of a batch.                                   *)
OwnerInv ==
  /\ \A b \in DOMAIN batch :
       /\ Len(batch[b].perQ) = IF kind = "ordered" THEN 0 ELSE NumQs
       /\ \A c \in DOMAIN batch :
            /\ batch[b].final = batch[c].final => b = c
            /\ batch[b].final \notin Range(batch[c].perQ)
            /\ batch[b].dep \notin Range(batch[c].perQ)
       /\ \A t \in DOMAIN task : task[t].sig \notin Range(batch[b].perQ)
       /\ \A i \in DOMAIN todo : todo[i].do = "batch" => todo[i].dep \notin Range(batch[b].perQ)

Owing(s) == {p \in PacketsOf : p.sig = s}

SignalInv ==
  /\ \A s \in DOMAIN signal : IsFiniteSet(Owing(s))
  /\ SignalsExact

(* Before every kernel of a dependent batch in a queue there is a barrier   *)
(* packet, or the handle is zero already.                                  *)
Guarded(q, s, b) ==
  \/ signal[s] = 0
  \/ \E i \in Index(q) :
       /\ ring[q][Slot(i)].type = "barrier"
       /\ s \in ring[q][Slot(i)].deps
       /\ \A j \in Index(q) :
            j <= i /\ ring[q][Slot(j)].type = "kernel" => task[ring[q][Slot(j)].task].batch # b

DepInv ==
  /\ \A b \in DOMAIN batch : \A q \in Queue :
       batch[b].dep # NullSignal => Guarded(q, batch[b].dep, b)
  /\ \A i \in DOMAIN todo : \A q \in Queue :
       todo[i].do = "batch" /\ todo[i].dep # NullSignal =>
         \/ Guarded(q, todo[i].dep, Len(batch) + 1)
         \/ \E j \in DOMAIN todo :
              /\ j < i
              /\ todo[j].do = "put"
              /\ todo[j].q = q
              /\ todo[j].packet.type = "barrier"
              /\ todo[i].dep \in todo[j].packet.deps
  /\ DependentBatchWaits

(* The kernels of a closed batch: done before the barrier packet is gone,   *)
(* or, in an ordered executor, not after the one with the final signal.     *)
ClosedInv ==
  \A b \in DOMAIN batch :
    ~batch[b].open =>
      /\ kind = "unordered" /\ NumQs <= BarrierDeps =>
           \/ \E p \in PacketsOf : p.type = "barrier" /\ p.sig = batch[b].final
           \/ \A t \in DOMAIN task : task[t].batch = b => t \in done
      /\ kind = "ordered" =>
           \E t \in DOMAIN task :
             /\ task[t].sig = batch[b].final
             /\ \A u \in DOMAIN task : task[u].batch = b => u <= t

(* The ordered executor writes its n-th kernel at index n - 1 of queue 0.   *)
OrderInv ==
  kind = "ordered" =>
    /\ \A i \in DOMAIN todo :
         todo[i].do = "put" =>
           /\ todo[i].q = 0
           /\ todo[i].packet.type = "kernel"
           /\ todo[i].packet.task = Len(task)
           /\ hsaWrite[0] + 1 = Len(task)
    /\ (\A i \in DOMAIN todo : todo[i].do # "put") => hsaWrite[0] = Len(task)
    /\ \A i \in Index(0) : ring[0][Slot(i)].type = "kernel" /\ ring[0][Slot(i)].task = i + 1
    /\ \A q \in Queue \ {0} : hsaWrite[q] = 0 /\ running[q] = {}
    /\ \A p \in running[0] : p.task = readIndex[0]
    /\ 1..(readIndex[0] - 1) \subseteq done
    /\ running[0] = {} => 1..readIndex[0] \subseteq done
    /\ done \subseteq 1..readIndex[0]

IInv ==
  /\ TypeOK /\ RingInv /\ TodoInv /\ OnceInv /\ LinkInv /\ OwnerInv
  /\ SignalInv /\ NothingLost /\ DepInv /\ ClosedInv /\ OrderInv
=============================================================================
