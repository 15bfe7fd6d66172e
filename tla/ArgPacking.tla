----------------------------- MODULE ArgPacking -----------------------------
(***************************************************************************)
(* How dagee lays the arguments of a kernel out in a vector of bytes: two   *)
(* passes over the arguments, the first for the offsets and the size of the *)
(* vector, the second to place each argument in it; and how ATMI reads them *)
(* back from the addresses it is told.  A signature is the sequence of the  *)
(* parameters' types, a type its size and alignment.  Byte k of a value v   *)
(* is <<v, k>>.                                                             *)
(***************************************************************************)
EXTENDS Integers, Sequences

ArgTypes == [size: Nat \ {0}, align: Nat \ {0}]

AlignUp(n, a) == ((n + a - 1) \div a) * a

(* argOffsetInBuff: where the buffer ends after an argument of type t that  *)
(* follows a buffer of n bytes.                                             *)
EndAfter(n, t) == AlignUp(n, t.align) + t.size

(* The ends of all arguments, of a pass that begins with a buffer of start  *)
(* bytes: the running total of the pack expansion.                          *)
ArgEnds(sig, start) ==
    LET end[i \in 0 .. Len(sig)] ==
            IF i = 0 THEN start ELSE EndAfter(end[i - 1], sig[i])
    IN  end

(* The first pass: the offsets, and the size of the buffer.                 *)
ArgOffsets(sig) == [i \in DOMAIN sig |-> ArgEnds(sig, 0)[i] - sig[i].size]
PackedSize(sig) == ArgEnds(sig, 0)[Len(sig)]

(* The second pass, after totBufSize is reset: where each argument goes.    *)
(* Mutant: it is not reset.                                                 *)
MutPlaces(sig) ==
    [i \in DOMAIN sig |-> ArgEnds(sig, PackedSize(sig))[i] - sig[i].size]
Places(sig) == [i \in DOMAIN sig |-> ArgEnds(sig, 0)[i] - sig[i].size]

(* The buffer with the arguments a: a byte holds what was placed there      *)
(* last, and zero where nothing was.                                        *)
Zero == <<0, 0>>
Covering(sig, o) ==
    {i \in DOMAIN sig : o \in Places(sig)[i] .. Places(sig)[i] + sig[i].size - 1}
LastOf(S) == CHOOSE i \in S : \A j \in S : j <= i

Packed(sig, a) ==
    [o \in 0 .. PackedSize(sig) - 1 |->
        LET c == Covering(sig, o)
        IN  IF c = {} THEN Zero ELSE <<a[LastOf(c)], o - Places(sig)[LastOf(c)]>>]

(* Reading a value of type t from offset o of a buffer.  A value of that    *)
(* type is there if its bytes are, in order, at an aligned address; the     *)
(* vector begins at an address aligned for any type.                        *)
ValueAt(buf, o, t) ==
    IF /\ o % t.align = 0
       /\ \A k \in 0 .. t.size - 1 :
             o + k \in DOMAIN buf /\ buf[o + k] = <<buf[o][1], k>>
    THEN buf[o][1]
    ELSE "garbage"

Unpacked(buf, offsets, sig) ==
    [i \in DOMAIN sig |-> ValueAt(buf, offsets[i], sig[i])]
=============================================================================
