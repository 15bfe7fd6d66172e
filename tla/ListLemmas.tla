------------------------------ MODULE ListLemmas ------------------------------
(***************************************************************************)
(* Facts about lists that the proofs of several modules cite: what Append, *)
(* Front, Last and concatenation do to the range of a list and to its      *)
(* having no repeated element.  Then an induction principle that has no    *)
(* operator as a parameter, and last the arithmetic of sizes.              *)
(***************************************************************************)
EXTENDS Naturals, Sequences, SequencesExt, Functions, WellFoundedInduction, TLAPS

(* The appended element is the last one and joins the range.               *)
LEMMA AppendLastRange ==
  ASSUME NEW S, NEW s \in Seq(S), NEW x \in S
  PROVE  /\ Append(s, x) \in Seq(S)
         /\ Append(s, x) # <<>>
         /\ Last(Append(s, x)) = x
         /\ Len(Append(s, x)) = Len(s) + 1
         /\ \A i \in 1..Len(s) : Append(s, x)[i] = s[i]
         /\ Append(s, x)[Len(s) + 1] = x
         /\ Range(Append(s, x)) = Range(s) \cup {x}
<1>1. /\ Append(s, x) \in Seq(S)
      /\ Len(Append(s, x)) = Len(s) + 1
      /\ \A i \in 1..Len(s) : Append(s, x)[i] = s[i]
      /\ Append(s, x)[Len(s) + 1] = x
      /\ DOMAIN Append(s, x) = 1..(Len(s) + 1)
      /\ DOMAIN s = 1..Len(s)
      /\ Len(s) \in Nat
  OBVIOUS
<1>2. Append(s, x) # <<>>
  BY <1>1
<1>3. Last(Append(s, x)) = x
  BY <1>1 DEF Last
<1>4. Range(Append(s, x)) = Range(s) \cup {x}
  <2> SUFFICES ASSUME NEW y
               PROVE  y \in Range(Append(s, x)) <=> y \in Range(s) \cup {x}
    OBVIOUS
  <2>1. y \in Range(Append(s, x)) <=> \E i \in 1..(Len(s) + 1) : y = Append(s, x)[i]
    BY <1>1 DEF Range
  <2>2. y \in Range(s) <=> \E i \in 1..Len(s) : y = s[i]
    BY <1>1 DEF Range
  <2>3. 1..(Len(s) + 1) = 1..Len(s) \cup {Len(s) + 1}
    BY <1>1
  <2> QED
    BY <1>1, <2>1, <2>2, <2>3
<1> QED
  BY <1>1, <1>2, <1>3, <1>4, Zenon

(* Appending copies of an element leaves the others where they were.       *)
LEMMA AppendedCopies ==
  ASSUME NEW S, NEW s \in Seq(S), NEW x \in S, NEW m \in Nat,
         NEW t, t = s \o [i \in 1..m |-> x]
  PROVE  /\ t \in Seq(S)
         /\ Len(t) = Len(s) + m
         /\ \A i \in 1..Len(s) : t[i] = s[i]
         /\ \A j \in 1..m : t[Len(s) + j] = x
<1> DEFINE copies == [i \in 1..m |-> x]
<1>0. t = s \o copies
  OBVIOUS
<1>1. copies \in Seq(S) /\ Len(copies) = m /\ \A j \in 1..m : copies[j] = x
  OBVIOUS
<1>2. Len(s) \in Nat
  OBVIOUS
<1> HIDE DEF copies
<1>3. t \in Seq(S) /\ Len(t) = Len(s) + m
  BY <1>0, <1>1
<1>4. ASSUME NEW i \in 1..Len(s)
      PROVE  t[i] = s[i]
  BY <1>0, <1>1, <1>2
<1>5. ASSUME NEW j \in 1..m
      PROVE  t[Len(s) + j] = x
  <2>1. Len(s) + j \in (Len(s) + 1)..(Len(s) + m) /\ Len(s) + j - Len(s) = j
    BY <1>2
  <2>2. t[Len(s) + j] = copies[Len(s) + j - Len(s)]
    BY <1>0, <1>1, <1>2, <2>1
  <2> QED
    BY <1>1, <2>1, <2>2
<1> QED
  BY <1>3, <1>4, <1>5

(* Taking the last element away leaves the others where they were.         *)
LEMMA FrontProperties ==
  ASSUME NEW S, NEW s \in Seq(S), s # <<>>
  PROVE  /\ Front(s) \in Seq(S)
         /\ Last(s) \in S
         /\ Len(s) \in Nat \ {0}
         /\ Len(Front(s)) = Len(s) - 1
         /\ \A i \in 1..(Len(s) - 1) : Front(s)[i] = s[i]
         /\ Range(s) = Range(Front(s)) \cup {Last(s)}
<1>1. Len(s) \in Nat \ {0} /\ DOMAIN s = 1..Len(s)
  OBVIOUS
<1>2. Last(s) \in S
  BY <1>1 DEF Last
<1>3. /\ Front(s) \in Seq(S)
      /\ Len(Front(s)) = Len(s) - 1
      /\ DOMAIN Front(s) = 1..(Len(s) - 1)
      /\ \A i \in 1..(Len(s) - 1) : Front(s)[i] = s[i]
  BY <1>1 DEF Front
<1>4. Range(s) = Range(Front(s)) \cup {Last(s)}
  <2> SUFFICES ASSUME NEW y
               PROVE  y \in Range(s) <=> y \in Range(Front(s)) \cup {Last(s)}
    OBVIOUS
  <2>1. y \in Range(s) <=> \E i \in 1..Len(s) : y = s[i]
    BY <1>1 DEF Range
  <2>2. y \in Range(Front(s)) <=> \E i \in 1..(Len(s) - 1) : y = s[i]
    BY <1>3 DEF Range
  <2>3. 1..Len(s) = 1..(Len(s) - 1) \cup {Len(s)}
    BY <1>1
  <2> QED
    BY <2>1, <2>2, <2>3 DEF Last
<1> QED
  BY <1>1, <1>2, <1>3, <1>4

(* A list without repetition stays so when a new element is appended,      *)
LEMMA InjectiveAppend ==
  ASSUME NEW S, NEW s \in Seq(S), NEW x \in S, IsInjective(s), x \notin Range(s)
  PROVE  IsInjective(Append(s, x))
<1>1. \A i \in 1..Len(s) : s[i] # x
  BY DEF Range
<1>2. \A i, j \in 1..Len(s) : s[i] = s[j] => i = j
  BY DEF IsInjective
<1> QED
  BY <1>1, <1>2 DEF IsInjective

(* and when its last element, which then occurs no more, is taken away.    *)
LEMMA InjectiveFront ==
  ASSUME NEW S, NEW s \in Seq(S), s # <<>>, IsInjective(s)
  PROVE  IsInjective(Front(s)) /\ Last(s) \notin Range(Front(s))
<1>1. \A i, j \in 1..Len(s) : s[i] = s[j] => i = j
  BY DEF IsInjective
<1>2. /\ DOMAIN Front(s) = 1..(Len(s) - 1)
      /\ Len(s) \in Nat \ {0}
      /\ \A i \in 1..(Len(s) - 1) : Front(s)[i] = s[i]
  BY FrontProperties
<1>3. IsInjective(Front(s))
  BY <1>1, <1>2 DEF IsInjective
<1>4. Last(s) \notin Range(Front(s))
  BY <1>1, <1>2 DEF Range, Last
<1> QED
  BY <1>3, <1>4

(* Two lists one after the other.                                          *)
LEMMA ConcatenateLists ==
  ASSUME NEW S, NEW s \in Seq(S), NEW t \in Seq(S)
  PROVE  /\ s \o t \in Seq(S)
         /\ Len(s \o t) = Len(s) + Len(t)
         /\ \A i \in 1..Len(s) : (s \o t)[i] = s[i]
         /\ \A i \in 1..Len(t) : (s \o t)[Len(s) + i] = t[i]
         /\ \A k \in 1..(Len(s) + Len(t)) : k \in 1..Len(s) \/ \E i \in 1..Len(t) : k = Len(s) + i
         /\ Range(s \o t) = Range(s) \cup Range(t)
<1> DEFINE u == s \o t
           m == Len(s)
           n == Len(t)
<1>1. /\ u \in Seq(S) /\ Len(u) = m + n /\ m \in Nat /\ n \in Nat
      /\ DOMAIN s = 1..m /\ DOMAIN t = 1..n /\ DOMAIN u = 1..(m + n)
  OBVIOUS
<1>2. \A i \in 1..m : i \in 1..(m + n) /\ u[i] = s[i]
  BY <1>1
<1>3. \A i \in 1..n : m + i \in 1..(m + n) /\ u[m + i] = t[i]
  <2> SUFFICES ASSUME NEW i \in 1..n
               PROVE  m + i \in 1..(m + n) /\ u[m + i] = t[i]
    OBVIOUS
  <2>1. m + i \in (m + 1)..(m + n) /\ m + i - m = i
    BY <1>1
  <2>2. u[m + i] = t[m + i - m]
    BY <1>1, <2>1
  <2> QED
    BY <1>1, <2>1, <2>2
<1>4. \A k \in 1..(m + n) : k \in 1..m \/ \E i \in 1..n : k = m + i
  <2> SUFFICES ASSUME NEW k \in 1..(m + n), k \notin 1..m
               PROVE  \E i \in 1..n : k = m + i
    OBVIOUS
  <2>1. k - m \in 1..n /\ k = m + (k - m)
    BY <1>1
  <2> QED
    BY <2>1
<1> HIDE DEF u, m, n
<1>5. Range(u) = Range(s) \cup Range(t)
  <2>1. ASSUME NEW k \in 1..(m + n)
        PROVE  u[k] \in Range(s) \cup Range(t)
    <3>1. CASE k \in 1..m
      BY <1>1, <1>2, <3>1 DEF Range
    <3>2. CASE \E i \in 1..n : k = m + i
      BY <1>1, <1>3, <3>2 DEF Range
    <3> QED
      BY <1>4, <3>1, <3>2
  <2>2. \A y : y \in Range(s) => y \in Range(u)
    BY <1>1, <1>2 DEF Range
  <2>3. \A y : y \in Range(t) => y \in Range(u)
    BY <1>1, <1>3 DEF Range
  <2> QED
    BY <1>1, <2>1, <2>2, <2>3 DEF Range
<1> QED
  BY <1>1, <1>2, <1>3, <1>4, <1>5 DEF u, m, n

LEMMA InjectiveConcat ==
  ASSUME NEW S, NEW s \in Seq(S), NEW t \in Seq(S),
         IsInjective(s), IsInjective(t), Range(s) \cap Range(t) = {}
  PROVE  IsInjective(s \o t)
<1> DEFINE u == s \o t
           m == Len(s)
           n == Len(t)
<1>1. DOMAIN s = 1..m /\ DOMAIN t = 1..n /\ DOMAIN u = 1..(m + n)
  OBVIOUS
<1>2. /\ \A i \in 1..m : u[i] = s[i]
      /\ \A i \in 1..n : u[m + i] = t[i]
      /\ \A k \in 1..(m + n) : k \in 1..m \/ \E i \in 1..n : k = m + i
  BY ConcatenateLists
<1> HIDE DEF u, m, n
<1>3. \A i, j \in 1..m : s[i] = s[j] => i = j
  BY <1>1 DEF IsInjective
<1>4. \A i, j \in 1..n : t[i] = t[j] => i = j
  BY <1>1 DEF IsInjective
<1>5. \A i \in 1..m, j \in 1..n : s[i] # t[j]
  BY <1>1 DEF Range
<1>6. \A k, l \in 1..(m + n) : u[k] = u[l] => k = l
  BY <1>2, <1>3, <1>4, <1>5
<1>7. IsInjective(u)
  BY <1>1, <1>6 DEF IsInjective
<1> QED
  BY <1>7 DEF u

(* The empty list.                                                         *)
LEMMA EmptyList ==
  Range(<<>>) = {} /\ IsInjective(<<>>)
<1>1. DOMAIN <<>> = {}
  OBVIOUS
<1> QED
  BY <1>1 DEF Range, IsInjective

(* Induction, for the set of the numbers that have a property.             *)
LEMMA NatSetInduction ==
  ASSUME NEW S \in SUBSET Nat, 0 \in S, \A n \in S : n + 1 \in S
  PROVE  S = Nat
<1> DEFINE T == Nat \ S
           Less == {ss \in Nat \X Nat : ss[1] < ss[2]}
<1> SUFFICES ASSUME T # {}
             PROVE  FALSE
  OBVIOUS
<1>1. PICK x \in T : \A y \in T : ~ (<<y, x>> \in Less)
  <2>1. T \subseteq Nat
    OBVIOUS
  <2>2. IsWellFoundedOn(Less, Nat)
    BY NatLessThanWellFounded DEF OpToRel
  <2> HIDE DEF T, Less
  <2> QED
    BY <2>1, <2>2, WFMin
<1>2. \A y \in T : ~ (y < x)
  BY <1>1
<1>3. x \in Nat \ {0} /\ x - 1 \in Nat
  OBVIOUS
<1>4. x - 1 \in S
  BY <1>2, <1>3
<1>5. x - 1 + 1 \in S
  BY <1>4
<1> QED
  BY <1>3, <1>5

-----------------------------------------------------------------------------
(* What the provers need to be told of division.                            *)
LEMMA DivMod ==
  ASSUME NEW n \in Nat, NEW d \in Nat \ {0}
  PROVE  /\ n \div d \in Nat
         /\ n % d \in Nat /\ n % d < d
         /\ n = d * (n \div d) + (n % d)
OBVIOUS

LEMMA DivMulLe ==
  ASSUME NEW n \in Nat, NEW d \in Nat \ {0}
  PROVE  (n \div d) * d <= n
BY DivMod

LEMMA MulDivMod ==
  ASSUME NEW q \in Nat, NEW d \in Nat \ {0}
  PROVE  (q * d) \div d = q /\ (q * d) % d = 0
OBVIOUS

LEMMA MulMono ==
  ASSUME NEW a \in Nat, NEW b \in Nat, NEW c \in Nat, a <= b
  PROVE  a * c <= b * c
OBVIOUS

LEMMA MulLess ==
  ASSUME NEW a \in Nat, NEW b \in Nat, NEW c \in Nat, a * c < b * c
  PROVE  a < b
BY MulMono

(* Rounding n up to a multiple of d stays below any multiple that n does    *)
(* not exceed.                                                              *)
LEMMA UpToMultiple ==
  ASSUME NEW n \in Nat, NEW d \in Nat \ {0}
  PROVE  LET r == ((n + d - 1) \div d) * d
         IN  /\ r \in Nat
             /\ n <= r
             /\ r < n + d
             /\ r % d = 0
             /\ r \div d = (n + d - 1) \div d
<1> DEFINE q == (n + d - 1) \div d
<1>1. n + d - 1 \in Nat
  OBVIOUS
<1>2. /\ q \in Nat
      /\ (n + d - 1) % d \in Nat /\ (n + d - 1) % d < d
      /\ n + d - 1 = d * q + ((n + d - 1) % d)
  BY <1>1, DivMod
<1> HIDE DEF q
<1>3. q * d = d * q /\ q * d \in Nat
  BY <1>2
<1>4. n <= q * d /\ q * d < n + d
  BY <1>2, <1>3
<1>5. (q * d) % d = 0 /\ (q * d) \div d = q
  BY <1>2, MulDivMod
<1> QED
  BY <1>3, <1>4, <1>5 DEF q
=============================================================================
