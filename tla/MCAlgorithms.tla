---------------------------- MODULE MCAlgorithms ----------------------------
(* dagr's level-by-level executor, the walks of ProgInfo over a set of     *)
(* processes, the buffer managers, and the algorithms without state, each  *)
(* for all the inputs of a small size.  A behaviour is that of one of      *)
(* them; the others stay where they begin.                                 *)
EXTENDS MCBfsExecutor, ProgInfo, Buffers

VARIABLE
  input   \* of an algorithm without state, or what the behaviour is of:
          \* [of |-> "levels"], [of |-> "walk"] or [of |-> "buffers"]

Bits == INSTANCE BitUtil WITH NUM_BITS <- 4
Mat == INSTANCE Matrices
Sparse == INSTANCE SparseMatrix
Cmd == INSTANCE CmdLine
Hsa == INSTANCE HsaBase
Tim == INSTANCE Timer
Grid == INSTANCE LaunchGrid WITH HALF_BITS <- 2
Tree == INSTANCE TreeDag
VecSet == INSTANCE VectorSet

-----------------------------------------------------------------------------
(* Objects: GPU code for one or two architectures in each bundle, host     *)
(* entry first or last, bundles padded to 8.                               *)
Kernel(scope, id, stub) == [scope |-> scope, id |-> id, stub |-> stub]
Scopes == {<<>>, <<<<"n">>>>, <<<<"n", "2">>>>, <<<<"n", "0">>>>, <<<<"n", "1", "0">>>>, <<<<"n", "2">>, <<"m">>>>}
Ids == {<<"k">>, <<"k", "1">>, [i \in 1..10 |-> "k"]}

Entry(offset, size, gpu) == [mOffset |-> offset, mSize |-> size, isGPU |-> gpu]
HostFirst(size) == <<Entry(4, 0, FALSE), Entry(4, size, TRUE)>>
TwoGPUs(size) == <<Entry(4, 0, FALSE), Entry(4, size, TRUE), Entry(4 + size, size, TRUE)>>
HostLast(size) == <<Entry(4, size, TRUE), Entry(2, 2, FALSE)>>
Descs == {HostFirst(4), HostFirst(5), TwoGPUs(3), HostLast(7)}

(* Each bundle of a file has all of its kernels.                           *)
WithKernels(desc, kernels) ==
  [i \in DOMAIN desc |->
     [mOffset |-> desc[i].mOffset, mSize |-> desc[i].mSize, isGPU |-> desc[i].isGPU,
      kernels |-> IF desc[i].isGPU THEN {KernelName(k) : k \in kernels} ELSE {}]]
LayOut(descs, kernels) ==
  FoldLeft(LAMBDA r, d : LET b == [beg |-> AlignUp(r.size), desc |-> WithKernels(d, kernels)]
                         IN [bundles |-> r.bundles \cup {b}, size |-> b.beg + BehindLast(b)],
           [bundles |-> {}, size |-> 0], descs)

Symbol(name, value, type, section) ==
  [name |-> name, value |-> value, type |-> type, section |-> section]
FileWith(descs, kernels) ==
  [size |-> LayOut(descs, kernels).size,
   bundles |-> LayOut(descs, kernels).bundles,
   kernels |-> kernels,
   symbols |-> {Symbol(StubName(k), k.stub, "FUNC", ".text") : k \in kernels}
               \cup {Symbol(<<"m", "a", "i", "n">>, 9, "FUNC", ".text"),
                     Symbol(<<"Z", "1", "6", STUB, "d">>, 8, "OBJECT", ".data")}]

NoKernels == FileWith(<<>>, {})
LongName == Kernel(<<<<"n", "2">>>>, [i \in 1..85 |-> "k"], 1)
OneKernel ==
  {FileWith(<<HostFirst(5)>>, {k}) : k \in {Kernel(s, i, 1) : s \in Scopes, i \in Ids} \cup {LongName}}
TwoBundles ==
  {FileWith(<<d, e>>, {Kernel(<<<<"n">>>>, <<"k">>, 1), Kernel(<<>>, <<"l">>, 2)}) : d, e \in Descs}
Library ==
  FileWith(<<TwoGPUs(3)>>, {Kernel(<<<<"b">>>>, <<"k">>, 1), Kernel(<<<<"b">>>>, <<"l">>, 2)})

Loaded(addr, named, f) == [dlpi_addr |-> addr, dlpi_name |-> named, file |-> f]

MCImages ==
  {<<Loaded(addr, FALSE, f)>> \o libs :
     addr \in {0, 16}, f \in OneKernel \cup TwoBundles \cup {NoKernels},
     libs \in {<<>>, <<Loaded(32, TRUE, Library)>>,
               <<Loaded(32, TRUE, NoKernels), Loaded(48, TRUE, Library)>>}}

-----------------------------------------------------------------------------
MaskInputs ==
  {[of |-> "bits", word |-> w, mask |-> m, val |-> v] : w, m, v \in Bits!Word}

MatrixInputs ==
  {[of |-> "matrix", m |-> Mat!NewMatrix(0, r, c, ld, rm), t |-> Mat!NewTiled(r, c, b, rm)] :
     r, c \in 1..4, ld \in {0, 5}, b \in {2, 3}, rm \in BOOLEAN}

(* The lines of a file: a header, up to three edges, and a comment.        *)
EdgeLists == UNION {[1..n -> (1..2) \X (1..2)] : n \in 0..3}
FileOfEdges(header, es, c) ==
  LET lines == <<header>> \o [k \in DOMAIN es |-> Sparse!Triple(es[k][1], es[k][2], k)]
  IN SubSeq(lines, 1, c) \o <<Sparse!Comment>> \o SubSeq(lines, c + 1, Len(lines))
SparseInputs ==
  {[of |-> "sparse", file |-> FileOfEdges(Sparse!Triple(h[1], h[2], n), es, c)] :
     h \in {<<1, 2>>, <<2, 1>>, <<2, 3>>}, n \in 0..3, es \in EdgeLists, c \in 0..1}

Options ==
  ("n" :> [needsVal |-> TRUE, accepts |-> {<<"1">>, <<"-", "1">>}]) @@
  ("s" :> [needsVal |-> TRUE, accepts |-> {<<"w">>, <<"-", "v">>}]) @@
  ("v" :> [needsVal |-> FALSE, accepts |-> {}])
Items ==
  {[is |-> "option", name |-> "n", val |-> v] : v \in {<<"1">>, <<"-", "1">>, <<"w">>}}
    \cup {[is |-> "option", name |-> "s", val |-> v] : v \in {<<"w">>, <<"-", "v">>}}
    \cup {[is |-> "switch", name |-> "v", val |-> <<"true">>], [is |-> "word", val |-> <<"w">>]}
CmdInputs == {[of |-> "cmd", items |-> s] : s \in UNION {[1..n -> Items] : n \in 0..3}}

(* Calls of a timer, 400 nanoseconds or half a second apart, and the last.   *)
SumOf(gaps, i) == FoldLeft(+, 0, SubSeq(gaps, 1, i))
TimerInputs ==
  UNION {{[of |-> "timer", end |-> 5 + SumOf(gaps, n + 1),
           calls |-> [i \in 1..n |-> [what |-> w[i], now |-> 5 + SumOf(gaps, i)]]] :
            w \in [1..n -> {"start", "stop"}], gaps \in [1..(n + 1) -> {400, 500000000}]} : n \in 0..3}

(* Machines: a processor and up to two devices; a region of an agent is    *)
(* the agent's own, and flagged.                                           *)
Region(agent, k, segment, flags) == [of |-> <<agent, k>>, segment |-> segment, flags |-> flags]
RegionLists(agent) ==
  {[k \in DOMAIN s |-> Region(agent, k, s[k][1], s[k][2])] :
     s \in UNION {[1..n -> {<<"global", {"coarse"}>>, <<"global", {"fine", "kernarg"}>>,
                            <<"global", {"fine"}>>, <<"global", {}>>, <<"group", {}>>}] : n \in 0..2}}
Agents(k) == [deviceKind : {"GPU"}, regions : RegionLists(k)]
               \cup {[deviceKind |-> d, regions |-> <<Region(k, 1, "global", {"fine"})>>] : d \in {"CPU", "DSP"}}
MachineInputs ==
  {[of |-> "machine", agents |-> <<a, b>>, id |-> i] : a \in Agents(1), b \in Agents(2), i \in 0..2}
HeaderInputs ==
  {[of |-> "header", kind |-> k, scope |-> s, barrier |-> b] :
     k \in DOMAIN Hsa!PacketKind, s \in DOMAIN Hsa!FenceScope, b \in DOMAIN Hsa!BarrierBit}
VectorSetInputs ==
  {[of |-> "vectorSet", calls |-> s] :
     s \in UNION {[1..n -> [what : {"insert", "erase"}, val : 1..3] \cup {[what |-> "clear"]}] : n \in 0..4}}
DagInputs == {[of |-> "treeDag", levels |-> l, degree |-> d] : l \in 0..3, d \in 1..3}
GridInputs == {[of |-> "grid", blocks |-> b, threads |-> t] : b, t \in Grid!Size32 \ {0}}

AlgInit ==
  /\ Init
  /\ BufInit
  /\ \/ ProgInit /\ input = [of |-> "walk"]
     \/ /\ input \in MaskInputs \cup MatrixInputs \cup SparseInputs \cup CmdInputs
                      \cup MachineInputs \cup HeaderInputs \cup GridInputs \cup TimerInputs
                      \cup DagInputs \cup VectorSetInputs
                      \cup {[of |-> "levels"], [of |-> "buffers"]}
        /\ objects = <<>> /\ walk = "done" /\ at = 1 /\ head = 0
        /\ mCodeBlobs = <<>> /\ mFuncPtrToName = <<>>

RunDag == input.of = "levels" /\ Next /\ UNCHANGED <<progVars, bufVars, input>>
Walk == ProgNext /\ UNCHANGED <<vars, bufVars, input>>
Allocate == input.of = "buffers" /\ BufNext /\ UNCHANGED <<vars, progVars, input>>

AlgSpec ==
  /\ AlgInit
  /\ [][RunDag \/ Walk \/ Allocate]_<<vars, progVars, bufVars, input>>
  /\ WF_vars(Host) /\ WF_vars(Device)
  /\ WF_progVars(Walk)

-----------------------------------------------------------------------------
(* What dagr reads of HSA and writes for it: a GPU's kernel arguments are  *)
(* in the right region or the program ends, headers carry their fields,    *)
(* and a kernel is launched over the blocks and threads asked for while    *)
(* they fit the fields.                                                    *)
SpeaksHsa ==
  /\ input.of = "machine" => Hsa!ResourceOnRightRegion(input.agents, input.id)
  /\ input.of = "header" => Hsa!HeaderReadBack(input.kind, input.scope, input.barrier)
  /\ input.of = "grid" => Grid!RunsAsAsked(input.blocks, input.threads)

(* The DAGs that treeDagLaunch.cpp gives to the level-by-level executor    *)
(* are of the kind it runs in order: every level is disjoint from the      *)
(* others, the last is one sink, and no edge is made twice.                *)
TestDagsLevelled ==
  input.of = "treeDag" => Tree!RunsLevelByLevel(input.levels, input.degree)

(* Matrix, TiledMatrix, CompressedMatrix: sub-matrices show their parent,  *)
(* tiles hold each element in its own place, copies, transposition and     *)
(* comparison see every element, and a Matrix Market file that is read and *)
(* packed has the edges of the file.                                       *)
MatricesKeepElements ==
  /\ input.of = "matrix" =>
       /\ \A r, sr \in 1..5 : \A c, sc \in 1..5 :
            r <= input.m.rows /\ c <= input.m.cols =>
              Mat!SubMatShowsParent(input.m, r - 1, c - 1, sr, sc)
       /\ Mat!TilesHoldAll(input.t)
       /\ Mat!HelpersAgree(input.m, input.t)
       /\ Mat!ComparesWhatIsThere(input.m.rows, input.m.cols,
                                  [p \in (0..3) \X (0..3) |-> (7 * p[1] + 3 * p[2]) % 5])
  /\ input.of = "sparse" => Sparse!PacksTheFile(input.file)

(* Every function of BitUtil that works on a mask, a list of indices or    *)
(* the bits between them agrees with its position-by-position meaning, and *)
(* the one on a range with the one on the range's mask.  A command line    *)
(* made of options, switches and words is read as meant, a timer shows the *)
(* time it ran, and a vector-based set keeps its elements.                 *)
ToolsAgree ==
  /\ input.of = "bits" =>
       /\ Bits!ByMaskAgrees(input.word, input.mask, input.val)
       /\ \A lo \in 0..3 : \A hi \in (lo + 1)..4 :
            hi - lo < 4 => Bits!RangeAgrees(input.word, lo, hi, input.val)
       /\ \A k \in 1..3 : \A tag \in 0..(2 ^ k - 1) : Bits!TagsAgree(input.word, k, tag)
  /\ input.of = "cmd" => Cmd!ReadsWhatWasMeant(Options, input.items)
  /\ input.of = "timer" =>
       /\ Tim!ShowsTimeRun(input.calls, input.end)
       /\ Tim!CountsUpToStops(input.calls, input.end)
  /\ input.of = "vectorSet" => VecSet!KeepsElements(input.calls, 1..3)
=============================================================================
