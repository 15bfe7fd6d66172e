------------------------------- MODULE Buffers -------------------------------
(***************************************************************************)
(* Who holds the device memory of a program: AllocManagerAtmi              *)
(* (dagee/ATMIalloc.h) and DeviceBufferManager (dagee/DeviceAlloc.h), each *)
(* of which frees in its destructor what it gave out, and PartDeviceData   *)
(* (dagee/Partition.h), the device copy of a partition's blocks, which     *)
(* OutOfCoreATMIexecutor makes and deletes by the slot.                    *)
(*                                                                         *)
(* The runtimes hand out any address that is not in use, so a freed one    *)
(* may come back.  Contents are left to the modules that use the buffers.  *)
(***************************************************************************)
EXTENDS Naturals, FiniteSetsExt, Functions, SequencesExt

CONSTANTS
  Address,    \* addresses the runtimes hand out
  VarName,    \* names of data blocks
  BlockSize,  \* sizes of data blocks in bytes
  MaxSlots    \* bound: device data buffers asked for

NullPtr == "nullptr"

ASSUME BufferAssumption == BlockSize \subseteq Nat /\ NullPtr \notin Address

VARIABLES
  live,        \* address |-> the allocator it is from, while not freed
  mBufs,       \* of an AllocManagerAtmi
  mDevBufs, mHostBufs,  \* of a DeviceBufferManager
  mDataBlocks, \* of a PartHostData: name |-> size of the block
  mDeviceDataSlots,     \* PartDeviceData objects of an out-of-core executor
  partBufs     \* history: allocations of PartDeviceData's constructor

managerVars == <<mBufs, mDevBufs, mHostBufs>>
partVars    == <<mDataBlocks, mDeviceDataSlots, partBufs>>
bufVars     == <<live, managerVars, partVars>>

-----------------------------------------------------------------------------
(* The allocators.  HIP gives no memory for zero bytes, and frees a null   *)
(* pointer without doing anything.                                         *)
Fresh(mem) == Address \ DOMAIN mem

Allocated(mem, a, by) == [b \in DOMAIN mem \cup {a} |-> IF b = a THEN by ELSE mem[b]]
Freed(mem, as)        == [b \in DOMAIN mem \ as |-> mem[b]]

(* makeDeviceCopy and makeSharedCopy of each manager: the caller gets the  *)
(* address, and may copy into and out of it until the manager is gone.     *)
AtmiCopy ==
  \E a \in Fresh(live) :
    /\ live' = Allocated(live, a, "atmi")
    /\ mBufs' = Append(mBufs, a)
    /\ UNCHANGED <<mDevBufs, mHostBufs, partVars>>

MakeDeviceCopy ==
  \E a \in Fresh(live) :
    /\ live' = Allocated(live, a, "hipMalloc")
    /\ mDevBufs' = Append(mDevBufs, a)
    /\ UNCHANGED <<mBufs, mHostBufs, partVars>>

MakeSharedCopy ==
  \E a \in Fresh(live) :
    /\ live' = Allocated(live, a, "hipHostMalloc")
    /\ mHostBufs' = Append(mHostBufs, a)
    /\ UNCHANGED <<mBufs, mDevBufs, partVars>>

(* The destructors; a program may then make another manager.               *)
DestroyAtmiManager ==
  /\ live' = Freed(live, Range(mBufs))
  /\ mBufs' = <<>>
  /\ UNCHANGED <<mDevBufs, mHostBufs, partVars>>

(* Mutant: only the device buffers are freed.                              *)
MutHipBuffers == Range(mDevBufs)
HipBuffers    == Range(mDevBufs) \cup Range(mHostBufs)

DestroyHipManager ==
  /\ live' = Freed(live, HipBuffers)
  /\ mDevBufs' = <<>>
  /\ mHostBufs' = <<>>
  /\ UNCHANGED <<mBufs, partVars>>

-----------------------------------------------------------------------------
(* PartHostData.  A name added again keeps its first block; asking for the *)
(* pointer of a name that is not there adds an empty block.                *)
WithBlock(blocks, name, size) ==
  [n \in DOMAIN blocks \cup {name} |-> IF n \in DOMAIN blocks THEN blocks[n] ELSE size]

AddDataBlock(name, size) ==
  /\ mDataBlocks' = WithBlock(mDataBlocks, name, size)
  /\ UNCHANGED <<live, managerVars, mDeviceDataSlots, partBufs>>

BlkPtr(name) ==
  /\ mDataBlocks' = WithBlock(mDataBlocks, name, 0)
  /\ UNCHANGED <<live, managerVars, mDeviceDataSlots, partBufs>>

totalBytes(blocks) == SumFunctionOnSet(blocks, DOMAIN blocks)

(* Mutant: a block begins where the one before it does.                    *)
MutBlkBegin(blocks, order, i) == totalBytes(Restrict(blocks, {order[j] : j \in 1..(i - 2)}))

(* The blocks of a PartDeviceData lie one behind the other in the order    *)
(* the hash map of the template has, whatever that is.                     *)
BlkBegin(blocks, order, i) == totalBytes(Restrict(blocks, {order[j] : j \in 1..(i - 1)}))

(* The constructor.  The address goes into a local variable mDeviceDataPtr *)
(* (Partition.h:104), and the member of that name stays null.              *)
PartDeviceData(a, order) ==
  [mDeviceDataPtr |-> NullPtr,
   blocks |-> [n \in Range(order) |->
                 LET i == CHOOSE j \in DOMAIN order : order[j] = n
                 IN [ptr |-> <<a, BlkBegin(mDataBlocks, order, i)>>, size |-> mDataBlocks[n]]]]

(* freeDeviceData deletes the slots; each frees what its member points to. *)
SlotsFreed == Freed(live, {s.mDeviceDataPtr : s \in Range(mDeviceDataSlots)})

(* makeDeviceDataBuffers frees the slots there are and makes numBuffers.   *)
MakeDeviceDataBuffers(numBuffers) ==
  \E order \in SetToSeqs(DOMAIN mDataBlocks) :
  \E addrs \in IF totalBytes(mDataBlocks) = 0 THEN {[i \in 1..numBuffers |-> NullPtr]}
            ELSE {s \in [1..numBuffers -> Fresh(SlotsFreed)] : IsInjective(s)} :
    /\ mDeviceDataSlots' = [i \in 1..numBuffers |-> PartDeviceData(addrs[i], order)]
    /\ partBufs' = partBufs \cup (Range(addrs) \ {NullPtr})
    /\ live' = [a \in DOMAIN SlotsFreed \cup (Range(addrs) \ {NullPtr}) |->
                 IF a \in Range(addrs) THEN "hipMalloc" ELSE SlotsFreed[a]]
    /\ UNCHANGED <<managerVars, mDataBlocks>>

(* ~OutOfCoreATMIexecutor.                                                 *)
FreeDeviceData ==
  /\ live' = SlotsFreed
  /\ mDeviceDataSlots' = <<>>
  /\ UNCHANGED <<managerVars, mDataBlocks, partBufs>>

-----------------------------------------------------------------------------
BufInit ==
  /\ live = <<>>
  /\ mBufs = <<>> /\ mDevBufs = <<>> /\ mHostBufs = <<>>
  /\ mDataBlocks = <<>> /\ mDeviceDataSlots = <<>> /\ partBufs = {}

BufNext ==
  \/ AtmiCopy \/ MakeDeviceCopy \/ MakeSharedCopy
  \/ DestroyAtmiManager \/ DestroyHipManager
  \/ \E n \in VarName : BlkPtr(n) \/ \E size \in BlockSize : AddDataBlock(n, size)
  \/ \E n \in 0..MaxSlots : MakeDeviceDataBuffers(n)
  \/ FreeDeviceData

BufSpec == BufInit /\ [][BufNext]_bufVars

-----------------------------------------------------------------------------
(* Every allocation in use is on one list, once, of the manager that frees *)
(* it with the function that goes with its allocator, or was made by a     *)
(* PartDeviceData; nothing freed is on a list.  What PartDeviceData        *)
(* allocates is never freed: its destructor passes the null member.        *)
Owned(s, allocator) ==
  /\ IsInjective(s)
  /\ \A a \in Range(s) : a \in DOMAIN live /\ live[a] = allocator

AllocationsOwned ==
  /\ Owned(mBufs, "atmi") /\ Owned(mDevBufs, "hipMalloc") /\ Owned(mHostBufs, "hipHostMalloc")
  /\ Range(mDevBufs) \cap partBufs = {}
  /\ DOMAIN live = Range(mBufs) \cup Range(mDevBufs) \cup Range(mHostBufs) \cup partBufs

(* The blocks of the slots are apart, each slot's inside an allocation of  *)
(* its own that is in use.                                                 *)
BlkBytes(blk) == {<<blk.ptr[1], blk.ptr[2] + i>> : i \in 0..(blk.size - 1)}
SlotBlocks == {b \in (DOMAIN mDeviceDataSlots) \X VarName :
                 b[2] \in DOMAIN mDeviceDataSlots[b[1]].blocks}
Blk(b) == mDeviceDataSlots[b[1]].blocks[b[2]]

SlotsApart ==
  /\ \A b, c \in SlotBlocks : b # c => BlkBytes(Blk(b)) \cap BlkBytes(Blk(c)) = {}
  /\ \A b \in SlotBlocks : Blk(b).size > 0 =>
       /\ Blk(b).ptr[1] \in DOMAIN live
       /\ Blk(b).ptr[2] + Blk(b).size <=
            MapThenSumSet(LAMBDA c : Blk(c).size, {c \in SlotBlocks : c[1] = b[1]})

BuffersAccounted == AllocationsOwned /\ SlotsApart
=============================================================================
