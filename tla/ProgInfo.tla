------------------------------ MODULE ProgInfo ------------------------------
(***************************************************************************)
(* How DAGEE finds the kernels of the program it runs in (dagee/ProgInfo.h, *)
(* dagr/binary.h): it walks the objects the dynamic linker has loaded and  *)
(* reads their ELF files.  KernelSectionParser cuts the code blobs out of  *)
(* the section .hip_fatbin; KernelPtrToNameLookup takes the host's stub    *)
(* functions from the symbol table and turns the name of each into the     *)
(* name of its kernel.                                                     *)
(*                                                                         *)
(* A name is a sequence of characters, with "__device_stub__" as one of    *)
(* them.  The reader of ELF files (elfio) is external: an object's file is *)
(* its fatbin section, as bundles at their offsets, and its function       *)
(* symbols.  Sizes and addresses are small numbers.                        *)
(***************************************************************************)
EXTENDS Naturals, Sequences, SequencesExt, FiniteSetsExt

CONSTANT Images  \* the processes to look at: sequences of loaded objects

VARIABLES
  objects,         \* the objects loaded, in the order of dl_iterate_phdr
  walk,            \* which of the two walks is on: "code", "names", "done"
  at,              \* the object it is at
  head,            \* parseOneSection's secHead, as an offset
  mCodeBlobs,      \* KernelSectionParser
  mFuncPtrToName   \* KernelPtrToNameLookup: address |-> name

progVars == <<objects, walk, at, head, mCodeBlobs, mFuncPtrToName>>

Digits == <<"0", "1", "2", "3", "4", "5", "6", "7", "8", "9">>
IsDigit(c) == c \in ToSet(Digits)
Value(c) == CHOOSE n \in 0..9 : Digits[n + 1] = c

(* A number of at most four digits, as streams print it.                   *)
Decimal(n) ==
  LET digits == Max({1} \cup {i \in 2..4 : n >= 10 ^ (i - 1)})
  IN [i \in 1..digits |-> Digits[((n \div 10 ^ (digits - i)) % 10) + 1]]
Number(s) == FoldLeft(LAMBDA n, c : 10 * n + Value(c), 0, s)

STUB == "__device_stub__"
KERNEL_STUB_PREFIX_LENGTH == 15

-----------------------------------------------------------------------------
(* The names the compiler gives.  A kernel in the scope s1::s2::... is     *)
(* _ZN<length><s1>...<length><kernel>E..., one in no scope                 *)
(* _Z<length><kernel>..., and the stub has the prefix before the kernel's  *)
(* own name, counted in the length.                                        *)
Piece(id, length) == Decimal(length) \o id
Mangled(scope, own) ==
  IF scope = <<>> THEN <<"Z">> \o own
  ELSE <<"Z", "N">> \o FoldLeft(LAMBDA s, id : s \o Piece(id, Len(id)), <<>>, scope)
                    \o own \o <<"E">>
KernelName(k) == Mangled(k.scope, Piece(k.id, Len(k.id)))
StubName(k) == Mangled(k.scope, Piece(<<STUB>> \o k.id, KERNEL_STUB_PREFIX_LENGTH + Len(k.id)))

-----------------------------------------------------------------------------
(* parseKernelSections and init open the file of an object by its name if  *)
(* it has an address and a name, and the program's own file otherwise.     *)
FileOf(o) == IF o.dlpi_addr # 0 /\ o.dlpi_name THEN o.file ELSE objects[1].file

AlignUp(n) == ((n + 7) \div 8) * 8

(* The step of parseOneSection to the next bundle: behind the entry with   *)
(* the largest offset, the last one in case of several.                    *)
BehindLast(b) ==
  LET last == CHOOSE i \in DOMAIN b.desc :
                \A j \in DOMAIN b.desc \ {i} :
                  b.desc[j].mOffset < b.desc[i].mOffset
                    \/ (b.desc[j].mOffset = b.desc[i].mOffset /\ j < i)
  IN b.desc[last].mOffset + b.desc[last].mSize

Blobs(b) == SelectSeq(b.desc, LAMBDA d : d.mSize > 0)

NextObject(after) ==
  IF at < Len(objects)
  THEN at' = at + 1 /\ walk' = walk
  ELSE at' = 1 /\ walk' = after

(* One turn of parseOneSection's loop.  Where secHead points to no bundle  *)
(* the assertion fails: there is no step.                                  *)
ParseBundle ==
  /\ walk = "code"
  /\ head < FileOf(objects[at]).size
  /\ \E b \in FileOf(objects[at]).bundles :
       /\ b.beg = AlignUp(head)
       /\ mCodeBlobs' = mCodeBlobs \o Blobs(b)
       /\ head' = AlignUp(head) + BehindLast(b)
  /\ UNCHANGED <<objects, walk, at, mFuncPtrToName>>

ParsedSection ==
  /\ walk = "code"
  /\ head >= FileOf(objects[at]).size
  /\ head' = 0
  /\ NextObject("names")
  /\ UNCHANGED <<objects, mCodeBlobs, mFuncPtrToName>>

-----------------------------------------------------------------------------
IsStubFunction(name) == STUB \in ToSet(name)

(* convStubToKernelName.  The length is whatever digits come before the    *)
(* prefix, also those at the end of the scope's name.                      *)
MutShorter(n) == n - KERNEL_STUB_PREFIX_LENGTH - 1
Shorter(n) == n - KERNEL_STUB_PREFIX_LENGTH

ConvStubToKernelName(name) ==
  LET p == CHOOSE i \in DOMAIN name : name[i] = STUB /\ STUB \notin ToSet(SubSeq(name, 1, i - 1))
      q == CHOOSE i \in 1..p : /\ \A j \in i..(p - 1) : IsDigit(name[j])
                               /\ i = 1 \/ ~IsDigit(name[i - 1])
      len == Number(SubSeq(name, q, p - 1))
  IN SubSeq(name, 1, q - 1) \o Decimal(Shorter(len)) \o SubSeq(name, p + 1, Len(name))

(* function_names_for: functions of .text that are stubs.                  *)
FunctionNamesFor(f) ==
  {s \in f.symbols : s.type = "FUNC" /\ s.section = ".text" /\ IsStubFunction(s.name)}

(* init for one object: addresses are moved to where it is loaded, and an  *)
(* address that has a name keeps it.                                       *)
AtRuntime(o, s) == s.value + o.dlpi_addr

ReadNames ==
  LET o == objects[at]
      found == FunctionNamesFor(FileOf(o))
      new == {AtRuntime(o, s) : s \in found} \ DOMAIN mFuncPtrToName
  IN /\ walk = "names"
     /\ mFuncPtrToName' =
          [a \in DOMAIN mFuncPtrToName \cup new |->
             IF a \in DOMAIN mFuncPtrToName THEN mFuncPtrToName[a]
             ELSE ConvStubToKernelName((CHOOSE s \in found : AtRuntime(o, s) = a).name)]
     /\ NextObject("done")
     /\ UNCHANGED <<objects, head, mCodeBlobs>>

(* name(): that the pointer has an entry is asserted.                      *)
hasEntry(funcPtr) == funcPtr \in DOMAIN mFuncPtrToName
Name(funcPtr) == mFuncPtrToName[funcPtr]

-----------------------------------------------------------------------------
ProgInit ==
  /\ objects \in Images
  /\ walk = "code"
  /\ at = 1
  /\ head = 0
  /\ mCodeBlobs = <<>>
  /\ mFuncPtrToName = <<>>

ProgNext == ParseBundle \/ ParsedSection \/ ReadNames

ProgSpec == ProgInit /\ [][ProgNext]_progVars /\ WF_progVars(ProgNext)

-----------------------------------------------------------------------------
(* What the loader makes of the blobs (ExecutableState::init and the GPU   *)
(* executor's init): the kernels of those for a GPU can be launched.       *)
Launchable == UNION {b.kernels : b \in {x \in ToSet(mCodeBlobs) : x.isGPU}}

(* A kernel whose name is not restored: digits at the end of its scope are *)
(* read as a part of the length, and the subtraction changes them, if the  *)
(* length has a digit more with the prefix than without, or they begin     *)
(* with a zero, which is not printed again.                                *)
Misread(k) ==
  LET scope == IF k.scope = <<>> THEN <<>> ELSE Last(k.scope)
      digits == {i \in DOMAIN scope : \A j \in i..Len(scope) : IsDigit(scope[j])}
      length == Len(k.id)
  IN /\ digits # {}
     /\ \/ Len(Decimal(length + KERNEL_STUB_PREFIX_LENGTH)) # Len(Decimal(length))
        \/ scope[Min(digits)] = "0"

(* The function pointer of every kernel of every object leads to the       *)
(* kernel's name, under which its code was found, but for those misread.   *)
(* Nothing else leads anywhere.                                            *)
KernelsHere == UNION {{<<i, k>> : k \in objects[i].file.kernels} : i \in DOMAIN objects}
PointerOf(i, k) == k.stub + objects[i].dlpi_addr

Found ==
  /\ \A p \in DOMAIN mFuncPtrToName : \E x \in KernelsHere : p = PointerOf(x[1], x[2])
  /\ \A x \in KernelsHere :
       LET p == PointerOf(x[1], x[2])
       IN /\ hasEntry(p)
          /\ Name(p) = KernelName(x[2]) <=> ~Misread(x[2])
          /\ KernelName(x[2]) \in Launchable

(* The walks come to their end, and then every kernel is found: whatever   *)
(* the order of the objects, the addresses they are loaded at and the      *)
(* number and the padding of their code bundles.                           *)
KernelsFound == <>(walk = "done" /\ Found)
=============================================================================
