----------------------------- MODULE LaunchGrid -----------------------------
(***************************************************************************)
(* The threads a kernel is launched over, in one of three dimensions: the  *)
(* launch parameters for ATMI and the dispatch packets of dagr, both made  *)
(* of the dim3 members blocks and threads of a task instance.              *)
(***************************************************************************)
EXTENDS Naturals

CONSTANT HALF_BITS  \* bits of a workgroup size in a packet; a dim3 member and
                    \* a grid size have twice as many: 16 and 32

Size32 == 0..(2 ^ (2 * HALF_BITS) - 1)
Wrap16(n) == n % 2 ^ HALF_BITS
Wrap32(n) == n % 2 ^ (2 * HALF_BITS)

(* initLaunchParam.  ATMI's dimensions are longer than those of a dim3,    *)
(* but the product is one of dim3's members, and wraps before it is stored. *)
GpuLaunchParam(blocks, threads) == [groupDim |-> threads, gridDim |-> Wrap32(threads * blocks)]
CpuLaunchParam(threads)         == [groupDim |-> 1, gridDim |-> threads]

(* PacketFactory::init.  A workgroup size is stored in half a word.        *)
KernelDispatch(blocks, threads) ==
  [groupDim |-> Wrap16(threads), gridDim |-> Wrap32(blocks * threads)]

(* GpuExecutorAtmi::makeTask without blocks: a single one.                 *)
OneBlock(threads) == GpuLaunchParam(1, threads)

(* What the runtimes make of the dimensions: workgroups of groupDim, the   *)
(* last of which may be smaller.                                           *)
Workgroups(lp) == (lp.gridDim + lp.groupDim - 1) \div lp.groupDim
Launches(lp, blocks, threads) == lp.groupDim = threads /\ Workgroups(lp) = blocks

-----------------------------------------------------------------------------
(* A kernel runs with the blocks and threads asked for exactly while their *)
(* product fits a word and, in a packet, the threads half of one; a single *)
(* block and a function of the processor always do.                        *)
RunsAsAsked(blocks, threads) ==
  LET fits == blocks * threads \in Size32
  IN /\ Launches(GpuLaunchParam(blocks, threads), blocks, threads) <=> fits
     /\ Launches(OneBlock(threads), 1, threads)
     /\ Launches(CpuLaunchParam(threads), threads, 1)
     /\ (Wrap16(threads) # 0 /\ Launches(KernelDispatch(blocks, threads), blocks, threads))
          <=> (fits /\ threads < 2 ^ HALF_BITS)
=============================================================================
