--------------------------- MODULE MCGpuResources ---------------------------
EXTENDS GpuResources, TLC

MCFuncs == {"f"}
MCName == [f \in MCFuncs |-> "both"]
MCKernels == {"both", "second"}

(* A kernel in two code objects, one in the second only.                    *)
MCExecutables == <<{"both"}, {"both", "second"}>>

(* One block of the smallest size, two of them, and three: the last leaves a *)
(* rest of the big block unused.                                            *)
MCSizes == {3, 5, 10}
Symm == Permutations(BigBlocks) \cup Permutations(Execs)
=============================================================================
