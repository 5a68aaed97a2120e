--------------------------- MODULE SequenceFacts ---------------------------
(***************************************************************************)
(* Sequences whose elements have no type of their own: a digest contains   *)
(* the digest before it, so that entries and handles form no set.          *)
(***************************************************************************)
EXTENDS Chain, FiniteSetsExt, FiniteSetTheorems, SequenceTheorems, TLAPS

\* A sequence over any set is one over the set of its own elements.
LEMMA SelfTyped ==
  ASSUME NEW S, NEW s \in Seq(S)
  PROVE  IsSequence(s)
<1> DEFINE R == {s[i] : i \in 1..Len(s)}
<1>1. Len(s) \in Nat /\ s \in [1..Len(s) -> S]
  BY LenProperties
<1>2. s \in [1..Len(s) -> R]
  BY <1>1
<1>3. s \in UNION {[1..n -> R] : n \in Nat}
  BY <1>1, <1>2
<1>4. s \in Seq(R)
  BY <1>3, SeqDef, Zenon
<1> QED
  BY <1>4 DEF IsSequence

\* One more element.
LEMMA AppendFacts ==
  ASSUME NEW s, IsSequence(s), NEW e
  PROVE  /\ Len(s) \in Nat
         /\ IsSequence(Append(s, e))
         /\ Len(Append(s, e)) = Len(s) + 1
         /\ \A i \in 1..Len(s) : Append(s, e)[i] = s[i]
         /\ Append(s, e)[Len(s) + 1] = e
<1> DEFINE S == {s[i] : i \in 1..Len(s)}
           T == S \cup {e}
<1>1. s \in Seq(S)
  BY DEF IsSequence
<1>2. s \in Seq(T)
  BY <1>1, SeqMonotonic
<1>3. /\ Append(s, e) \in Seq(T) /\ Len(Append(s, e)) = Len(s) + 1
      /\ Len(s) \in Nat
      /\ \A i \in 1..Len(s) : Append(s, e)[i] = s[i]
      /\ Append(s, e)[Len(s) + 1] = e
  BY <1>2
<1>4. IsSequence(Append(s, e))
  BY <1>3, SelfTyped
<1> QED
  BY <1>3, <1>4

\* The first k elements.
LEMMA SubSeqFacts ==
  ASSUME NEW s, IsSequence(s), NEW k \in 0..Len(s)
  PROVE  /\ IsSequence(SubSeq(s, 1, k))
         /\ Len(SubSeq(s, 1, k)) = k
         /\ \A i \in 1..k : SubSeq(s, 1, k)[i] = s[i]
<1> DEFINE S == {s[i] : i \in 1..Len(s)}
<1>1. s \in Seq(S)
  BY DEF IsSequence
<1>2. Len(s) \in Nat /\ k \in Nat /\ k <= Len(s)
  BY <1>1, LenProperties
<1>3. \A i \in 1..k : s[i] \in S
  BY <1>2
<1>4. /\ SubSeq(s, 1, k) \in Seq(S) /\ Len(SubSeq(s, 1, k)) = k
      /\ \A i \in 1..k : SubSeq(s, 1, k)[i] = s[i]
  <2>1. /\ SubSeq(s, 1, k) \in Seq(S)
        /\ Len(SubSeq(s, 1, k)) = IF 1 <= k THEN k - 1 + 1 ELSE 0
        /\ \A i \in 1..(k - 1 + 1) : SubSeq(s, 1, k)[i] = s[1 + i - 1]
    BY <1>2, <1>3, SubSeqProperties
  <2> QED
    BY <2>1, <1>2
<1>5. IsSequence(SubSeq(s, 1, k))
  BY <1>4, SelfTyped
<1> QED
  BY <1>4, <1>5

\* A length is a number.
LEMMA LenNat ==
  ASSUME NEW s, IsSequence(s)
  PROVE  Len(s) \in Nat
BY AppendFacts

(***************************************************************************)
(* The least and the greatest element of a set of numbers.                 *)
(***************************************************************************)
LEMMA LeastNat ==
  ASSUME NEW S, S \subseteq Nat, S # {}
  PROVE  \E x \in S : \A y \in S : x <= y
<1>1. \A a \in Nat, b \in Nat : <<a, b>> \in OpToRel(<, Nat) <=> a < b
  BY DEF OpToRel
<1>2. \E x \in S : \A y \in S : ~(<<y, x>> \in OpToRel(<, Nat))
  BY NatLessThanWellFounded, WFMin
<1>3. PICK x \in S : \A y \in S : ~(y < x)
  BY <1>1, <1>2, Zenon
<1> QED BY <1>3

LEMMA MinFacts ==
  ASSUME NEW S, S \subseteq Nat, S # {}
  PROVE  Min(S) \in S /\ \A y \in S : Min(S) <= y
<1>1. \E x \in S : \A y \in S : x <= y
  BY LeastNat
<1> QED BY <1>1 DEF Min

\* The greatest element is the least upper bound.
LEMMA MaxFacts ==
  ASSUME NEW b \in Nat, NEW S, S \subseteq 0..b, S # {}
  PROVE  Max(S) \in S /\ \A y \in S : y <= Max(S)
<1> DEFINE U == {u \in Nat : \A y \in S : y <= u}
<1>1. PICK m \in U : \A u \in U : m <= u
  <2>1. b \in U /\ U \subseteq Nat
    OBVIOUS
  <2> QED BY <2>1, LeastNat
<1>2. m \in S
  <2> SUFFICES ASSUME m \notin S PROVE FALSE
    OBVIOUS
  <2>1. m # 0
    <3>1. PICK y \in S : TRUE
      OBVIOUS
    <3> QED BY <3>1
  <2>2. m - 1 \in U
    BY <2>1
  <2> QED BY <1>1, <2>2
<1>3. \E x \in S : \A y \in S : x >= y
  BY <1>2
<1> QED BY <1>3 DEF Max
=============================================================================
