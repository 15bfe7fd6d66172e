------------------------------- MODULE HsaBase -------------------------------
(***************************************************************************)
(* What dagr reads of the HSA runtime and writes for its packet processor: *)
(* RuntimeState (the agents of the machine), AgentRegionState (the memory  *)
(* regions of an agent), the packet header, and the number of barrier      *)
(* packets of a reduction.  HSA enumerates agents and regions in an order  *)
(* of its own; the constructors go through them once.                      *)
(*                                                                         *)
(* An agent is [deviceKind, regions]; a region is [segment, flags].        *)
(***************************************************************************)
EXTENDS Integers, SequencesExt

(* addNewAgent, called for each agent; any other kind of device aborts.    *)
AddNewAgent(rt, agent) ==
  CASE agent.deviceKind = "CPU" -> [rt EXCEPT !.mCpuAgents = Append(@, agent)]
    [] agent.deviceKind = "GPU" -> [rt EXCEPT !.mGpuAgents = Append(@, agent)]
    [] OTHER -> [rt EXCEPT !.alive = FALSE]

RuntimeState(agents) ==
  FoldLeft(AddNewAgent, [alive |-> TRUE, mGpuAgents |-> <<>>, mCpuAgents |-> <<>>], agents)

-----------------------------------------------------------------------------
isGlobal(r)      == r.segment = "global"
isKernArg(r)     == "kernarg" \in r.flags
isCoarseGrain(r) == "coarse" \in r.flags
isFineGrain(r)   == "fine" \in r.flags

(* Mutant: grain is asked for first.                                       *)
MutRegisterRegion(st, r) ==
  CASE ~isGlobal(r)     -> st
    [] isFineGrain(r)   -> [st EXCEPT !.mFineRegions = Append(@, r)]
    [] isCoarseGrain(r) -> [st EXCEPT !.mCoarseRegions = Append(@, r)]
    [] isKernArg(r)     -> [st EXCEPT !.mKernArgRegions = Append(@, r)]
    [] OTHER -> [st EXCEPT !.alive = FALSE]

(* registerRegion.  A region for kernel arguments is fine-grained as well. *)
RegisterRegion(st, r) ==
  IF ~isGlobal(r) THEN st
  ELSE IF isKernArg(r) THEN [st EXCEPT !.mKernArgRegions = Append(@, r)]
  ELSE IF isCoarseGrain(r) THEN [st EXCEPT !.mCoarseRegions = Append(@, r)]
  ELSE IF isFineGrain(r) THEN [st EXCEPT !.mFineRegions = Append(@, r)]
  ELSE [st EXCEPT !.alive = FALSE]

AgentRegionState(agent) ==
  FoldLeft(RegisterRegion,
           [alive |-> TRUE, mKernArgRegions |-> <<>>, mCoarseRegions |-> <<>>, mFineRegions |-> <<>>],
           agent.regions)

(* A GpuExecutionResource on gpuAgent(id): the regions it allocates kernel *)
(* arguments from.  at() outside of a vector ends the program, since       *)
(* gpuAgent and kernArgRegion are noexcept; so the set is empty.           *)
ArgRegion(agents, id) ==
  LET rt == RuntimeState(agents)
      st == AgentRegionState(rt.mGpuAgents[id + 1])
  IN IF rt.alive /\ id < Len(rt.mGpuAgents) /\ st.alive /\ st.mKernArgRegions # <<>>
     THEN {Head(st.mKernArgRegions)}
     ELSE {}

(* The block BackingHeapImpl::allocate takes for the heap of arguments.    *)
ALLOC_SIZE == 4096
BackingBlock(region, ptr) == [region |-> region, mBeg |-> ptr, mEnd |-> ptr + ALLOC_SIZE]

-----------------------------------------------------------------------------
(* Positions of the fields in a packet's first 16 bits (hsa.h).            *)
TYPE     == 0
BARRIER  == 8
SCACQUIRE_FENCE_SCOPE == 9
SCRELEASE_FENCE_SCOPE == 11

PacketKind == [KERNEL_DISPATCH |-> 2, BARRIER_AND |-> 3, BARRIER_OR |-> 5]
FenceScope == [NONE |-> 0, AGENT |-> 1, SYSTEM |-> 2]
BarrierBit == [DISABLE |-> 0, ENABLE |-> 1]

(* The value of a PacketHeader: the scope is that of both fences.          *)
PacketHeader(kind, scope, barrier) ==
  PacketKind[kind] * 2 ^ TYPE
    + FenceScope[scope] * (2 ^ SCACQUIRE_FENCE_SCOPE + 2 ^ SCRELEASE_FENCE_SCOPE)
    + BarrierBit[barrier] * 2 ^ BARRIER

(* How the packet processor reads a field.                                 *)
Field(header, pos, width) == (header \div 2 ^ pos) % 2 ^ width

-----------------------------------------------------------------------------
BARRIER_PKT_NUM_PREDS == 5
CeilDiv(n) == (n + BARRIER_PKT_NUM_PREDS - 1) \div BARRIER_PKT_NUM_PREDS

(* barrierTreeSize: it rounds the packets of a level up, but goes on to    *)
(* the next with the quotient rounded down.                                *)
barrierTreeSize(numPreds) ==
  LET size[n \in 0..numPreds] ==
        IF n = 0 THEN 0 ELSE CeilDiv(n) + size[n \div BARRIER_PKT_NUM_PREDS]
  IN size[numPreds]

(* The packets makeBarrierTree writes: one for every five signals of a     *)
(* level, until one is left.                                               *)
TreePackets(numPreds) ==
  LET need[n \in 0..numPreds] == IF n < 2 THEN 0 ELSE CeilDiv(n) + need[CeilDiv(n)]
  IN need[numPreds]

-----------------------------------------------------------------------------
(* A resource comes up exactly on a machine of CPUs and GPUs with that GPU, *)
(* all of whose global regions are of a known use and one for arguments;   *)
(* and its arguments lie in the first region of its own GPU for them.      *)
ResourceOnRightRegion(agents, id) ==
  LET gpus == SelectSeq(agents, LAMBDA a : a.deviceKind = "GPU")
      mine == gpus[id + 1].regions
      forArgs == SelectSeq(mine, LAMBDA r : isGlobal(r) /\ "kernarg" \in r.flags)
      comesUp == /\ \A a \in Range(agents) : a.deviceKind \in {"GPU", "CPU"}
                 /\ id < Len(gpus)
                 /\ \A r \in Range(mine) : isGlobal(r) => r.flags # {}
                 /\ forArgs # <<>>
  IN ArgRegion(agents, id) = IF comesUp THEN {forArgs[1]} ELSE {}

(* The packet processor reads the fields that were written.                *)
HeaderReadBack(kind, scope, barrier) ==
  LET h == PacketHeader(kind, scope, barrier)
  IN /\ Field(h, TYPE, 8) = PacketKind[kind]
     /\ Field(h, BARRIER, 1) = BarrierBit[barrier]
     /\ Field(h, SCACQUIRE_FENCE_SCOPE, 2) = FenceScope[scope]
     /\ Field(h, SCRELEASE_FENCE_SCOPE, 2) = FenceScope[scope]
     /\ h < 2 ^ 16
=============================================================================
