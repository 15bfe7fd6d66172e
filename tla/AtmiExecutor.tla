---------------------------- MODULE AtmiExecutor ----------------------------
(***************************************************************************)
(* The front end of DAGEE-lib: what a program does with the GPU, CPU and   *)
(* memory-copy executors of dagee/ATMI*Executor.h.  It registers functions *)
(* and gets KernelInfos, makes task instances of them with arguments,      *)
(* copies and destroys instances, stores them in the nodes of a            *)
(* MixedTaskDag, and launches them, directly or out of a node.             *)
(*                                                                         *)
(* An instance owns the buffer its arguments are packed in, and ATMI is    *)
(* told addresses: a slot of this model is the memory of one instance, its *)
(* buffer included, and may be used again when the instance is destroyed.  *)
(* The arguments are packed by their own types and read back by those of   *)
(* the kernel's parameters, as it was registered (ArgPacking); that they   *)
(* are the same types is the program's duty, which no template checks.     *)
(* A KernelInfo of a CPU function is a kernel shared by all functions of   *)
(* the same type and the function's own address.  ATMI is external: it     *)
(* reads what an address points to when a task is given to it.  The tasks  *)
(* a task requires are passed on to ATMI unchanged; the order they make is *)
(* the subject of DagExecutor.                                             *)
(***************************************************************************)
EXTENDS ArgPacking, FiniteSets, Functions

CONSTANTS
  GpuFunc, CpuFunc,  \* functions of the program
  Wrapper,           \* CPU function |-> its instance of wrappedFunc, one per type
  Copy,              \* copies between buffers the program may ask for
  Signature,         \* function |-> the types of its parameters
  Arg,               \* values of arguments
  ArgLists,          \* bound: function |-> the lists of arguments it is given
  SYNCHRONOUS,       \* kind of executor |-> its tasks are launched synchronously
  Slot,              \* addresses of task instances
  MaxKernels,        \* bound: kernels created
  MaxTasks,          \* bound: tasks launched
  MaxDags            \* bound: DAGs made

ASSUME WrapperAssumption == DOMAIN Wrapper = CpuFunc
ASSUME SlotAssumption    == Slot \subseteq Nat \ {0}

(* wrappedFunc is instantiated once for the types of the parameters.       *)
ASSUME SignatureAssumption ==
  /\ \A f \in GpuFunc \cup CpuFunc :
       /\ Signature[f] \in Seq(ArgTypes)
       /\ ArgLists[f] \subseteq [DOMAIN Signature[f] -> Arg]
  /\ \A f, g \in CpuFunc : Wrapper[f] = Wrapper[g] => Signature[f] = Signature[g]

Kind == <<"gpu", "cpu", "copy">>  \* DataTypes of the MixedTaskDag, in order
Func == GpuFunc \cup CpuFunc
KindOf(f) == IF f \in GpuFunc THEN "gpu" ELSE IF f \in CpuFunc THEN "cpu" ELSE "copy"

VARIABLES
  alive,      \* the kernel executors that exist
  mKernels,   \* kind |-> mGpuKernels or mCpuKernels: key |-> kernel
  kernels,    \* ATMI: every kernel created, its code, and whether it is released
  infos,      \* the program's KernelInfo variables, one for each function
  inst,       \* slot |-> the instance in it, or Free
  temps,      \* the instances that belong to the program itself
  dags,       \* the DAGs made: the node data of each, or Destroyed
  tasks,      \* ATMI: every task launched
  blockedOn   \* the task the calling thread waits for, 0 if none

vars == <<alive, mKernels, kernels, infos, inst, temps, dags, tasks, blockedOn>>

Free == [type |-> "free"]
Destroyed == {<<0, 0>>}  \* no address is 0
NoInfo == [mKern |-> 0]

Init ==
  /\ alive = {}
  /\ mKernels = [k \in {"gpu", "cpu"} |-> <<>>]
  /\ kernels = <<>>
  /\ infos = [f \in Func |-> NoInfo]
  /\ inst = [s \in Slot |-> Free]
  /\ temps = {}
  /\ dags = <<>>
  /\ tasks = <<>>
  /\ blockedOn = 0

Running == blockedOn = 0
LiveDags == {d \in DOMAIN dags : dags[d] # Destroyed}

-----------------------------------------------------------------------------
(* The executors and their tables of kernels.                              *)

NewExecutor(k) ==
  /\ Running
  /\ k \in {"gpu", "cpu"} \ alive
  /\ alive' = alive \cup {k}
  /\ UNCHANGED <<mKernels, kernels, infos, inst, temps, dags, tasks, blockedOn>>

(* finish(): every kernel of the table is released.  The destructor does    *)
(* not wait: that all its tasks have finished is the program's duty, as is *)
(* to drop the KernelInfos and instances it got from the executor.         *)
DestroyExecutor(k) ==
  /\ Running
  /\ k \in alive
  /\ \A h \in DOMAIN tasks : tasks[h].exec = k => tasks[h].status = "done"
  /\ \A s \in temps \cup {p[2] : p \in UNION {dags[d] : d \in LiveDags}} : inst[s].type # k
  /\ alive' = alive \ {k}
  /\ kernels' = [i \in DOMAIN kernels |->
                   IF i \in Range(mKernels[k])
                   THEN [kernels[i] EXCEPT !.released = @ + 1] ELSE kernels[i]]
  /\ mKernels' = [mKernels EXCEPT ![k] = <<>>]
  /\ infos' = [f \in Func |-> IF KindOf(f) = k THEN NoInfo ELSE infos[f]]
  /\ UNCHANGED <<inst, temps, dags, tasks, blockedOn>>

(* The GPU executor's key is the function, the CPU executor's the wrapper. *)
Key(f) == IF f \in GpuFunc THEN f ELSE Wrapper[f]

(* The code of a kernel: for the GPU what the function's name stands for,  *)
(* for the CPU the wrapper.                                                *)
Code(f) == Key(f)

(* Mutant: the new kernel is not entered in the table.                     *)
MutInsert(table, key, kern) == table
Insert(table, key, kern) ==
  [x \in DOMAIN table \cup {key} |-> IF x = key THEN kern ELSE table[x]]

(* Mutant: the function is that of the kernel's first user.                *)
MutInfo(f, kern) == [mKern |-> kern,
                     mFuncPtr |-> CHOOSE g \in CpuFunc \cup {f} : Key(g) = Key(f)]
Info(f, kern) == [mKern |-> kern, mFuncPtr |-> f]

(* What ATMI is told of a kernel: the sizes of its parameters.  Their       *)
(* alignment is known to the code that reads them.                         *)
NewKernel(f) == [code |-> Code(f), params |-> Signature[f], released |-> 0]

RegisterKernel(f) ==
  LET k == KindOf(f)
      found == Key(f) \in DOMAIN mKernels[k]
      kern == IF found THEN mKernels[k][Key(f)] ELSE Len(kernels) + 1
  IN /\ Running
     /\ k \in alive
     /\ kern <= MaxKernels
     /\ infos' = [infos EXCEPT ![f] = Info(f, kern)]
     /\ IF found
        THEN UNCHANGED <<kernels, mKernels>>
        ELSE /\ kernels' = Append(kernels, NewKernel(f))
             /\ mKernels' = [mKernels EXCEPT ![k] = Insert(@, Key(f), kern)]
     /\ UNCHANGED <<alive, inst, temps, dags, tasks, blockedOn>>

-----------------------------------------------------------------------------
(* Task instances.  A copy has the same contents as the original, in its   *)
(* own memory.                                                             *)
FreeSlots == {s \in Slot : inst[s] = Free}

(* Which free address an allocator returns makes no difference to code that *)
(* never compares addresses: it is the lowest one.                         *)
NewSlot(s) == s \in FreeSlots /\ \A r \in FreeSlots : s <= r

(* The instance of function f with the arguments a.                        *)
KernelInstanceOf(f, a, info) ==
  [type |-> KindOf(f), asked |-> <<f, a>>, kinfo |-> info,
   mKernArgOffsets |-> ArgOffsets(Signature[f]), mKernArgs |-> Packed(Signature[f], a)]
Instance(f, a) == KernelInstanceOf(f, a, infos[f])
CopyInstance(c) == [type |-> "copy", asked |-> <<c, c>>]

(* makeTask of a kernel executor, and of the memory-copy executor.         *)
MakeTask(f, a, s) ==
  /\ Running
  /\ infos[f] # NoInfo
  /\ NewSlot(s)
  /\ inst' = [inst EXCEPT ![s] = Instance(f, a)]
  /\ temps' = temps \cup {s}
  /\ UNCHANGED <<alive, mKernels, kernels, infos, dags, tasks, blockedOn>>

MakeCopyTask(c, s) ==
  /\ Running
  /\ NewSlot(s)
  /\ inst' = [inst EXCEPT ![s] = CopyInstance(c)]
  /\ temps' = temps \cup {s}
  /\ UNCHANGED <<alive, mKernels, kernels, infos, dags, tasks, blockedOn>>

DestroyInstance(s) ==
  /\ Running
  /\ s \in temps
  /\ inst' = [inst EXCEPT ![s] = Free]
  /\ temps' = temps \ {s}
  /\ UNCHANGED <<alive, mKernels, kernels, infos, dags, tasks, blockedOn>>

-----------------------------------------------------------------------------
(* MixedTaskDag.  A node's data is a MultiTypePtr: the address of the      *)
(* instance, with the index of its type in DataTypes in the bits that an   *)
(* aligned address leaves free.                                            *)

TypeId(k) == (CHOOSE i \in 1..3 : Kind[i] = k) - 1
MultiTypePtr(k, s) == <<TypeId(k), s>>

(* apply(f): f is called for the type whose index is in the pointer.       *)
TypeAt(p) == {Kind[i] : i \in {j \in DOMAIN Kind : j - 1 = p[1]}}

(* A DAG of the program's own, or one from makeDAG of a DAG executor, whose *)
(* DAGmanager keeps no record of it: nobody destroys that one.             *)
MakeDAG ==
  /\ Running
  /\ Len(dags) < MaxDags
  /\ dags' = Append(dags, {})
  /\ UNCHANGED <<alive, mKernels, kernels, infos, inst, temps, tasks, blockedOn>>

(* Mutant: the node points to the caller's instance t.                     *)
MutAllocateNodeData(t, s) == MultiTypePtr(inst[t].type, t)
AllocateNodeData(t, s) == MultiTypePtr(inst[t].type, s)

(* addNode(instance): the data is a copy, from the allocator of its type.  *)
AddNode(d, t, s) ==
  /\ Running
  /\ d \in LiveDags
  /\ t \in temps
  /\ NewSlot(s)
  /\ inst' = [inst EXCEPT ![s] = inst[t]]
  /\ dags' = [dags EXCEPT ![d] = @ \cup {AllocateNodeData(t, s)}]
  /\ UNCHANGED <<alive, mKernels, kernels, infos, temps, tasks, blockedOn>>

(* clear(): the nodes are destroyed, but not their data, which nothing     *)
(* points to any more.                                                     *)
ClearDAG(d) ==
  /\ Running
  /\ d \in LiveDags
  /\ dags' = [dags EXCEPT ![d] = {}]
  /\ UNCHANGED <<alive, mKernels, kernels, infos, inst, temps, tasks, blockedOn>>

(* ~MixedTaskDag deallocates the data of all nodes, by its type.           *)
Deallocated(data) ==
  [s \in Slot |-> IF \E id \in 0..2 : <<id, s>> \in data THEN Free ELSE inst[s]]

DestroyDAG(d) ==
  /\ Running
  /\ d \in LiveDags
  /\ inst' = Deallocated(dags[d])
  /\ dags' = [dags EXCEPT ![d] = Destroyed]
  /\ UNCHANGED <<alive, mKernels, kernels, infos, temps, tasks, blockedOn>>

-----------------------------------------------------------------------------
(* Launching.  argAddresses() is computed from where the instance is now;  *)
(* read as an instance of kind k, what is there may be something else.     *)
Read(k, s) == IF inst[s].type = k THEN inst[s] ELSE Free

(* What runs: the function a GPU kernel is named for, or, through the      *)
(* wrapper, the function whose address is the first argument.              *)
Called(k, i) == IF i = Free THEN "garbage"
                ELSE IF k = "copy" THEN i.asked[1]
                ELSE IF kernels[i.kinfo.mKern].released > 0 THEN "released"
                ELSE IF k = "gpu" THEN kernels[i.kinfo.mKern].code
                ELSE IF Wrapper[i.kinfo.mFuncPtr] # kernels[i.kinfo.mKern].code THEN "garbage"
                ELSE i.kinfo.mFuncPtr
Given(k, i) == IF i = Free THEN <<"garbage">>
               ELSE IF k = "copy" THEN i.asked[2]
               ELSE Unpacked(i.mKernArgs, i.mKernArgOffsets, kernels[i.kinfo.mKern].params)

LaunchInternalTask(k, s) ==
  /\ Running
  /\ Len(tasks) < MaxTasks
  /\ k \in alive \cup {"copy"}
  /\ tasks' = Append(tasks,
                [exec |-> k, asked |-> inst[s].asked,
                 ran |-> <<Called(k, Read(k, s)), Given(k, Read(k, s))>>,
                 status |-> "launched"])
  /\ blockedOn' = IF SYNCHRONOUS[k] THEN Len(tasks') ELSE 0
  /\ UNCHANGED <<alive, mKernels, kernels, infos, inst, temps, dags>>

(* launchTask of an instance of the program's own.                         *)
LaunchTask(s) == s \in temps /\ LaunchInternalTask(inst[s].type, s)

(* The executor is chosen by the type of a node's data (applyToNodeData).  *)
LaunchNode(d, p) ==
  /\ d \in LiveDags
  /\ p \in dags[d]
  /\ \E k \in TypeAt(p) : LaunchInternalTask(k, p[2])

WaitOnTask(h) ==
  /\ Running
  /\ h \in DOMAIN tasks
  /\ blockedOn' = h
  /\ UNCHANGED <<alive, mKernels, kernels, infos, inst, temps, dags, tasks>>

WaitReturn ==
  /\ blockedOn # 0
  /\ tasks[blockedOn].status = "done"
  /\ blockedOn' = 0
  /\ UNCHANGED <<alive, mKernels, kernels, infos, inst, temps, dags, tasks>>

RunTask(h) ==
  /\ tasks[h].status = "launched"
  /\ tasks' = [tasks EXCEPT ![h].status = "done"]
  /\ UNCHANGED <<alive, mKernels, kernels, infos, inst, temps, dags, blockedOn>>

-----------------------------------------------------------------------------
Next ==
  \/ \E k \in {"gpu", "cpu"} : NewExecutor(k) \/ DestroyExecutor(k)
  \/ \E f \in Func : RegisterKernel(f)
  \/ \E f \in Func : \E a \in ArgLists[f], s \in Slot : MakeTask(f, a, s)
  \/ \E c \in Copy, s \in Slot : MakeCopyTask(c, s)
  \/ \E s \in Slot : DestroyInstance(s)
  \/ MakeDAG
  \/ \E d \in DOMAIN dags :
       \/ \E t, s \in Slot : AddNode(d, t, s)
       \/ ClearDAG(d)
       \/ DestroyDAG(d)
       \/ \E p \in dags[d] : LaunchNode(d, p)
  \/ \E s \in Slot : LaunchTask(s)
  \/ \E h \in DOMAIN tasks : WaitOnTask(h)
  \/ WaitReturn
  \/ \E h \in DOMAIN tasks : RunTask(h)

Spec == Init /\ [][Next]_vars

-----------------------------------------------------------------------------
(* Every task runs the function its instance was made for, on the arguments *)
(* it was made with, each whole and at an aligned address, whatever their  *)
(* sizes, whichever functions share the kernel, however often the instance *)
(* was copied, and whether it was launched directly or out of a node; and  *)
(* never through a kernel that is released.                                *)
RunsWhatWasAsked == \A h \in DOMAIN tasks : tasks[h].ran = tasks[h].asked

(* A kernel is released once, by the executor that created it, and no      *)
(* executor loses one: until released it is in one table, under one key.   *)
KernelsReleasedOnce ==
  \A i \in DOMAIN kernels :
    LET held == {e \in {"gpu", "cpu"} \X (Func \cup Range(Wrapper)) :
                   e[2] \in DOMAIN mKernels[e[1]] /\ mKernels[e[1]][e[2]] = i}
    IN /\ kernels[i].released <= 1
       /\ Cardinality(held) = 1 - kernels[i].released

(* Every node's data is there, is of the type the pointer says, and belongs *)
(* to that node only: it is destroyed once, by the right allocator.        *)
NodeDataOwnedOnce ==
  /\ \A d \in LiveDags : \A p \in dags[d] :
       /\ inst[p[2]] # Free
       /\ TypeId(inst[p[2]].type) = p[1]
       /\ p[1] \in 0..2
       /\ p[2] \notin temps
       /\ \A q \in dags[d] \ {p} : p[2] # q[2]
  /\ \A c, d \in LiveDags : c # d =>
       {p[2] : p \in dags[c]} \cap {p[2] : p \in dags[d]} = {}

-----------------------------------------------------------------------------
(* The inductive invariant behind the safety properties.                   *)

TypeOK ==
  /\ alive \subseteq {"gpu", "cpu"}
  /\ DOMAIN mKernels = {"gpu", "cpu"}
  /\ kernels \in Seq([code : Func \cup Range(Wrapper), params : Seq(ArgTypes), released : Nat])
  /\ DOMAIN infos = Func
  /\ DOMAIN inst = Slot
  /\ temps \subseteq Slot
  /\ dags \in Seq((SUBSET ((0..2) \X Slot)) \cup {Destroyed})
  /\ DOMAIN tasks = 1..Len(tasks) /\ Len(tasks) \in Nat

(* The tables of the executors hold the kernels not released, each under   *)
(* the key it was made for, and only while the executor exists.            *)
Holds(k, x, i) == x \in DOMAIN mKernels[k] /\ mKernels[k][x] = i

KernelInv ==
  /\ \A k \in {"gpu", "cpu"} : \A x \in DOMAIN mKernels[k] :
       /\ k \in alive
       /\ x \in Func \cup Range(Wrapper)
       /\ mKernels[k][x] \in DOMAIN kernels
       /\ kernels[mKernels[k][x]].code = x
       /\ kernels[mKernels[k][x]].released = 0
       /\ \A f \in Func : KindOf(f) = k /\ Key(f) = x =>
            kernels[mKernels[k][x]].params = Signature[f]
  /\ \A k, l \in {"gpu", "cpu"} :
       \A x \in DOMAIN mKernels[k], y \in DOMAIN mKernels[l] :
         mKernels[k][x] = mKernels[l][y] => k = l
  /\ \A i \in DOMAIN kernels :
       \/ kernels[i].released = 1
       \/ \E k \in {"gpu", "cpu"} : Holds(k, kernels[i].code, i)

(* A KernelInfo the program has is that of its function, and of the kernel  *)
(* in the table.                                                           *)
InfoInv ==
  \A f \in Func : infos[f] # NoInfo =>
    \E i \in DOMAIN kernels : Holds(KindOf(f), Key(f), i) /\ infos[f] = Info(f, i)

(* The instances the program or a node has; what a cleared DAG has left     *)
(* behind belongs to nobody.                                               *)
InNode(s) == \E d \in LiveDags : \E p \in dags[d] : p[2] = s
Owned == {s \in Slot : s \in temps \/ InNode(s)}

KernelInstance(i) ==
  \E f \in Func : \E a \in ArgLists[f], kern \in DOMAIN kernels :
    /\ Holds(KindOf(f), Key(f), kern)
    /\ i = KernelInstanceOf(f, a, Info(f, kern))

InstInv ==
  \A s \in Owned : KernelInstance(inst[s]) \/ \E c \in Copy : inst[s] = CopyInstance(c)

IInv ==
  /\ TypeOK /\ KernelInv /\ InfoInv /\ InstInv
  /\ NodeDataOwnedOnce /\ RunsWhatWasAsked
=============================================================================
