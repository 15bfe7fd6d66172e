------------------------------ MODULE BitUtil ------------------------------
(***************************************************************************)
(* BitUtil<W> of cpputils, for words of NUM_BITS bits.  A word is the set  *)
(* of the positions of its ones, so that & | ~ are \cap \cup and the       *)
(* complement, and a shift drops what leaves the word.  BitUtil<T*> casts  *)
(* to uint64_t and calls the same functions.                               *)
(*                                                                         *)
(* Bit ranges are [lo, hi).  The whole word is no argument of genMask: the *)
(* code shifts by NUM_BITS for it, which C++ leaves undefined.             *)
(***************************************************************************)
EXTENDS Naturals, Sequences, FiniteSets, SequencesExt, FiniteSetsExt

CONSTANT NUM_BITS  \* at least 1

Position == 0..(NUM_BITS - 1)
Word == SUBSET Position
Complement(w) == Position \ w

ShiftLeft(w, n) == {i + n : i \in w} \cap Position
ShiftRight(w, n) == {i - n : i \in {j \in w : j >= n}}

Ascending(mask) == SetToSortSeq(mask, <)
Bit(b) == IF b THEN {0} ELSE {}

maskUpper(w, idx) == w \cap Complement(ShiftLeft(Position, idx))
maskLower(w, idx) == w \cap ShiftLeft(Position, idx)
genMask(lo, hi) == ShiftLeft(Complement(ShiftLeft(Position, hi - lo)), lo)

getBit(w, idx) == ShiftRight(w, idx) \cap {0}
getBitRange(w, lo, hi) == maskUpper(ShiftRight(w, lo), hi - lo)
setBit(w, idx) == w \cup {idx}
setBitRange(w, lo, hi) == w \cup genMask(lo, hi)
clearBit(w, idx) == w \cap Complement({idx})
clearBitRange(w, lo, hi) == w \cap Complement(genMask(lo, hi))

removeBitRange(w, lo, hi) ==
  IF lo = 0 THEN ShiftRight(w, hi)
  ELSE maskLower(ShiftRight(w, hi - lo), lo) \cup getBitRange(w, 0, lo)
removeBit(w, idx) == removeBitRange(w, idx, idx + 1)

insertBitRange(w, lo, hi) == ShiftLeft(maskLower(w, lo), hi - lo) \cup maskUpper(w, lo)
insertBit(w, idx) == insertBitRange(w, idx, idx + 1)

replaceBitRange(w, lo, hi, newVal) ==
  clearBitRange(w, lo, hi) \cup ShiftLeft(maskUpper(newVal, hi - lo), lo)
replaceBit(w, idx, newVal) == clearBit(w, idx) \cup ShiftLeft(newVal \cap {0}, idx)

-----------------------------------------------------------------------------
(* The functions on several bits are loops over bitIndices, or over the    *)
(* positions of the ones of a mask from the lowest to the highest.         *)
setBits(w, idxs) == FoldLeft(LAMBDA r, i : setBit(r, i), w, idxs)
clearBits(w, idxs) == FoldLeft(LAMBDA r, i : clearBit(r, i), w, idxs)
insertBits(w, idxs) == FoldLeft(LAMBDA r, i : insertBit(r, i), w, idxs)

getBits(w, idxs) ==
  FoldLeft(LAMBDA r, k : r \cup ShiftLeft(getBit(w, idxs[k]), k - 1), {}, [k \in DOMAIN idxs |-> k])

replaceBits(w, idxs, newVal) ==
  FoldLeft(LAMBDA r, k : replaceBit(r, idxs[k], ShiftRight(newVal, k - 1)),
           w, [k \in DOMAIN idxs |-> k])

(* A bit removed moves those above it down: the word is moved up again, so *)
(* that the next index still names its bit, and down in the end.           *)
MutRemoveBits(w, idxs) == FoldLeft(LAMBDA r, i : removeBit(r, i), w, idxs)
removeBits(w, idxs) ==
  ShiftRight(FoldLeft(LAMBDA r, i : ShiftLeft(removeBit(r, i), 1), w, idxs), Len(idxs))

getBitsByMask(w, mask) == getBits(w, Ascending(mask))
setBitsByMask(w, mask) == setBits(w, Ascending(mask))
removeBitsByMask(w, mask) == removeBits(w, Ascending(mask))
insertBitsByMask(w, mask) == insertBits(w, Ascending(mask))
replaceBitsByMask(w, mask, newVal) == replaceBits(w, Ascending(mask), newVal)

(* inner[k] holds the bits to keep between the k-1st and the k-th removed. *)
removeBitsByInnerBits(w, inner) ==
  UNION {ShiftRight(w \cap inner[k], k - 1) : k \in DOMAIN inner}
insertBitsByInnerBits(w, inner) ==
  UNION {ShiftLeft(w \cap ShiftRight(inner[k], k - 1), k - 1) : k \in DOMAIN inner}

(* BitUtil<T*>: the same function on the pointer's bits, and back.  That of *)
(* setBitsByMask alone forwards to setBits, and does not compile if used.  *)
toInt(ptr) == {i \in Position : (ptr \div 2 ^ i) % 2 = 1}
toPtr(w)   == MapThenSumSet(LAMBDA i : 2 ^ i, w)
OnPointer(f, ptr) == toPtr(f[toInt(ptr)])

-----------------------------------------------------------------------------
(* What they promise, position by position.  Kept(mask) is the positions   *)
(* that stay, in order: bit k of the packed word is bit Kept(mask)[k+1].   *)
Kept(mask) == Ascending(Complement(mask))
Packed(w, order) == {k \in Position : k < Len(order) /\ order[k + 1] \in w}
Spread(w, order) == {order[k + 1] : k \in {j \in w : j < Len(order)}}

(* The inner bits of a mask, as the comment of removeBitsByInnerBits.      *)
InnerBits(mask) ==
  LET cut == Ascending(mask)
      from(k) == IF k = 1 THEN 0 ELSE cut[k - 1] + 1
      upTo(k) == IF k = Len(cut) + 1 THEN NUM_BITS ELSE cut[k]
  IN [k \in 1..(Len(cut) + 1) |-> from(k)..(upTo(k) - 1)]

(* Removing the bits of a mask closes up the others, inserting them opens  *)
(* gaps of zeros, one at a time or by inner bits, and reading or replacing *)
(* them goes from the lowest to the highest: for every word, mask, value.  *)
ByMaskAgrees(w, mask, val) ==
  /\ removeBitsByMask(w, mask) = Packed(w, Kept(mask))
  /\ removeBitsByInnerBits(w, InnerBits(mask)) = Packed(w, Kept(mask))
  /\ insertBitsByMask(w, mask) = Spread(w, Kept(mask))
  /\ insertBitsByInnerBits(w, InnerBits(mask)) = Spread(w, Kept(mask))
  /\ getBitsByMask(w, mask) = Packed(w, Ascending(mask))
  /\ replaceBitsByMask(w, mask, val) = (w \ mask) \cup Spread(val, Ascending(mask))
  /\ setBitsByMask(w, mask) = w \cup mask
  /\ clearBits(w, Ascending(mask)) = w \ mask

(* On a range, the same as on the mask of the range.                       *)
RangeAgrees(w, lo, hi, val) ==
  LET mask == lo..(hi - 1)
  IN /\ getBitRange(w, lo, hi) = getBitsByMask(w, mask)
     /\ setBitRange(w, lo, hi) = setBitsByMask(w, mask)
     /\ clearBitRange(w, lo, hi) = w \ mask
     /\ removeBitRange(w, lo, hi) = removeBitsByMask(w, mask)
     /\ insertBitRange(w, lo, hi) = insertBitsByMask(w, mask)
     /\ replaceBitRange(w, lo, hi, val) = replaceBitsByMask(w, mask, val)

(* A pointer aligned to 2^k bytes carries a tag in its low k bits: the tag *)
(* is read back, and the pointer is there again when it is cleared.        *)
TagsAgree(w, k, tag) ==
  LET ptr == toPtr(w \ (0..(k - 1)))
      tagged == OnPointer([x \in Word |-> replaceBitRange(x, 0, k, toInt(tag))], ptr)
  IN /\ tagged = ptr + tag
     /\ OnPointer([x \in Word |-> getBitRange(x, 0, k)], tagged) = tag
     /\ OnPointer([x \in Word |-> clearBitRange(x, 0, k)], tagged) = ptr
     /\ OnPointer([x \in Word |-> setBits(x, Ascending(toInt(tag)))], ptr) = tagged
     /\ OnPointer([x \in Word |-> removeBitRange(x, 0, k)], tagged) = ptr \div 2 ^ k
     /\ OnPointer([x \in Word |-> insertBitRange(x, 0, k)], ptr \div 2 ^ k) = ptr
=============================================================================
