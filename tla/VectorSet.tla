------------------------------ MODULE VectorSet ------------------------------
(***************************************************************************)
(* VectorBasedSet of cpputils: a set in a vector without an order.  It is  *)
(* asserted, so not checked in the default build, that what is inserted is *)
(* not there yet and what is erased is.                                    *)
(*                                                                         *)
(* A call is [what, val]; elements are compared by ==.                     *)
(***************************************************************************)
EXTENDS Naturals, SequencesExt, FiniteSets

NewSet == <<>>

contains(mVec, val) == val \in Range(mVec)

Insert(mVec, val) == Append(mVec, val)

find(mVec, val) ==
  CHOOSE i \in DOMAIN mVec : mVec[i] = val /\ \A j \in 1..(i - 1) : mVec[j] # val

(* Mutant: the last element is dropped, but not kept in the place found.    *)
MutErase(mVec, val) == IF contains(mVec, val) THEN Front(mVec) ELSE mVec

(* The last element takes the place of the one erased.                     *)
Erase(mVec, val) ==
  IF contains(mVec, val)
  THEN Front([mVec EXCEPT ![find(mVec, val)] = Last(mVec)])
  ELSE mVec

After(mVec, c) ==
  CASE c.what = "insert" -> Insert(mVec, c.val)
    [] c.what = "erase"  -> Erase(mVec, c.val)
    [] c.what = "clear"  -> NewSet

-----------------------------------------------------------------------------
(* An element is there as often as it was inserted and not erased since,   *)
(* whatever happened to the others: so once or not at all, if the class is *)
(* used as asserted, and the vector is the set.                            *)
Count(calls, x) ==
  FoldLeft(LAMBDA n, c : CASE c.what = "clear" -> 0
                           [] c.what = "insert" /\ c.val = x -> n + 1
                           [] c.what = "erase" /\ c.val = x /\ n > 0 -> n - 1
                           [] OTHER -> n,
           0, calls)

KeepsElements(calls, elements) ==
  LET mVec == FoldLeft(After, NewSet, calls)
  IN \A x \in elements :
       /\ Cardinality({i \in DOMAIN mVec : mVec[i] = x}) = Count(calls, x)
       /\ contains(mVec, x) <=> Count(calls, x) > 0
=============================================================================
