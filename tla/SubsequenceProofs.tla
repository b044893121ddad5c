-------------------------- MODULE SubsequenceProofs --------------------------
(***************************************************************************)
(* What TLAPS proves of Subsequences, and of appending: the facts that the *)
(* proofs about the client's lists and queues rest on.                     *)
(***************************************************************************)
EXTENDS FiniteSetTheorems, WellFoundedInduction, SequenceTheorems, SequencesExt, Subsequences, TLAPS

\* Where the elements of Picked(s, I) come from: they are those at the
\* positions of I, each position once, in the order of s.
LEMMA PickedFrom ==
    ASSUME NEW S, NEW s \in Seq(S), NEW I \in SUBSET DOMAIN s
    PROVE  /\ Picked(s, I) \in Seq(S)
           /\ \A i \in I : \E k \in DOMAIN Picked(s, I) : Picked(s, I)[k] = s[i]
           /\ \E from \in [DOMAIN Picked(s, I) -> I] :
                /\ \A k \in DOMAIN Picked(s, I) : Picked(s, I)[k] = s[from[k]]
                /\ \A k, l \in DOMAIN Picked(s, I) : k < l => from[k] < from[l]
<1> DEFINE upto(i) == {j \in I : j <= i}
           rank(i) == Cardinality(upto(i))
           K == Cardinality(I)
           r == [i \in I |-> rank(i)]
<1>1. DOMAIN s = 1..Len(s) /\ Len(s) \in Nat /\ \A i \in DOMAIN s : s[i] \in S
  OBVIOUS
<1>2. I \subseteq 1..Len(s) /\ IsFiniteSet(I) /\ K \in Nat
  <2>1. I \in SUBSET (1..Len(s)) /\ IsFiniteSet(1..Len(s))
    BY <1>1, FS_Interval
  <2> QED BY <2>1, FS_Subset, FS_CardinalityType
<1>3. \A i \in I : IsFiniteSet(upto(i)) /\ rank(i) \in 1..K
  <2> SUFFICES ASSUME NEW i \in I PROVE IsFiniteSet(upto(i)) /\ rank(i) \in 1..K
    OBVIOUS
  <2>1. upto(i) \subseteq I /\ i \in upto(i)
    BY <1>1
  <2>2. IsFiniteSet(upto(i)) /\ rank(i) <= K
    BY <2>1, <1>2, FS_Subset
  <2>3. rank(i) \in Nat /\ rank(i) # 0
    BY <2>1, <2>2, FS_CardinalityType, FS_EmptySet
  <2> QED BY <2>2, <2>3, <1>2
<1>4. ASSUME NEW i \in I, NEW j \in I, i < j PROVE rank(i) < rank(j) /\ rank(i) # rank(j)
  <2>1. upto(i) \subseteq upto(j) /\ j \in upto(j) /\ j \notin upto(i)
    BY <1>4, <1>1
  <2>2. rank(i) <= rank(j) /\ rank(i) # rank(j)
    BY <2>1, <1>3, FS_Subset
  <2>3. rank(i) \in Nat /\ rank(j) \in Nat
    BY <1>3, FS_CardinalityType
  <2> HIDE DEF rank
  <2> QED BY <2>2, <2>3
<1>5. r \in Injection(I, 1..K)
  <2>1. ASSUME NEW i \in I, NEW j \in I, rank(i) = rank(j) PROVE i = j
    <3>1. i \in Int /\ j \in Int
      BY <1>1
    <3>2. ~(i < j) /\ ~(j < i)
      <4> HIDE DEF rank
      <4> QED BY <2>1, <1>4
    <3> QED BY <3>1, <3>2
  <2> QED BY <1>3, <2>1 DEF Injection, IsInjective
<1>6. r \in Surjection(I, 1..K)
  BY <1>5, <1>2, FS_Injection, FS_Interval
<1>7. \A k \in 1..K : \E i \in I : rank(i) = k
  BY <1>6 DEF Surjection
<1> DEFINE nth(k) == CHOOSE i \in I : rank(i) = k
<1>8. \A k \in 1..K : nth(k) \in I /\ rank(nth(k)) = k
  BY <1>7
<1>9. Picked(s, I) = [k \in 1..K |-> s[nth(k)]]
  BY DEF Picked
<1>10. ASSUME NEW i \in I, NEW j \in I, rank(i) = rank(j) PROVE i = j
  BY <1>5, <1>10 DEF Injection, IsInjective
<1>11. \A i \in I : rank(i) \in 1..K /\ nth(rank(i)) = i
  <2>1. ASSUME NEW i \in I PROVE rank(i) \in 1..K /\ nth(rank(i)) = i
    <3>1. rank(i) \in 1..K
      BY <1>3
    <3>2. nth(rank(i)) \in I /\ rank(nth(rank(i))) = rank(i)
      <4> HIDE DEF rank, K, nth
      <4> QED BY <3>1, <1>8
    <3> HIDE DEF rank, nth
    <3> QED BY <3>1, <3>2, <1>10
  <2> QED BY <2>1
<1> HIDE DEF rank, K, nth, r
<1>12. DOMAIN Picked(s, I) = 1..K /\ \A k \in 1..K : Picked(s, I)[k] = s[nth(k)]
  BY <1>9
<1>13. Picked(s, I) \in Seq(S)
  <2>1. Picked(s, I) \in [1..K -> S]
    BY <1>1, <1>8, <1>9
  <2> QED BY <2>1, <1>2, SeqDef
<1>14. \A i \in I : \E k \in DOMAIN Picked(s, I) : Picked(s, I)[k] = s[i]
  BY <1>11, <1>12
<1>15. ASSUME NEW k \in 1..K, NEW l \in 1..K, k < l PROVE nth(k) < nth(l)
  <2>1. nth(k) \in Int /\ nth(l) \in Int /\ k \in Int /\ l \in Int
    BY <1>1, <1>2, <1>8
  <2>2. CASE nth(l) < nth(k)
    BY <2>1, <2>2, <1>4, <1>8, <1>15
  <2>3. CASE nth(l) = nth(k)
    BY <2>1, <2>3, <1>8, <1>15
  <2> QED BY <2>1, <2>2, <2>3
<1> DEFINE from == [k \in DOMAIN Picked(s, I) |-> nth(k)]
<1>16. /\ from \in [DOMAIN Picked(s, I) -> I]
       /\ \A k \in DOMAIN Picked(s, I) : Picked(s, I)[k] = s[from[k]]
       /\ \A k, l \in DOMAIN Picked(s, I) : k < l => from[k] < from[l]
  BY <1>8, <1>12, <1>15
<1> QED
  <2> HIDE DEF from
  <2> QED BY <1>13, <1>14, <1>16

\* Taking the first of the equal elements keeps the set of the elements and
\* leaves none twice.
LEMMA DistinctKeeps ==
    ASSUME NEW S, NEW s \in Seq(S)
    PROVE  /\ Distinct(s) \in Seq(S) /\ ToSet(Distinct(s)) = ToSet(s)
           /\ IsInjective(Distinct(s))
<1> DEFINE first == {i \in DOMAIN s : \A j \in 1..(i - 1) : s[j] # s[i]}
           d == Distinct(s)
<1>1. DOMAIN s = 1..Len(s) /\ Len(s) \in Nat /\ first \in SUBSET DOMAIN s
  OBVIOUS
<1>2. d = Picked(s, first)
  BY DEF Distinct
<1>3. \A i \in first, j \in first : s[i] = s[j] => ~(i < j)
  BY <1>1
<1>4. ASSUME NEW i \in DOMAIN s PROVE \E j \in first : s[j] = s[i]
  <2> DEFINE T == {j \in Nat : j \in DOMAIN s /\ s[j] = s[i]}
  <2>1. T \subseteq Nat /\ i \in T
    BY <1>1, <1>4
  <2>2. PICK j \in T : \A k \in T : ~(<<k, j>> \in OpToRel(<, Nat))
    <3> HIDE DEF T
    <3> QED BY <2>1, WFMin, NatLessThanWellFounded
  <2>3. \A k \in T : ~(k < j)
    BY <2>2 DEF OpToRel
  <2>4. j \in 1..Len(s) /\ s[j] = s[i]
    BY <2>2, <1>1
  <2>5. ASSUME NEW k \in 1..(j - 1) PROVE s[k] # s[j]
    <3>1. k \in Nat /\ k < j /\ k \in DOMAIN s
      BY <2>4, <2>5, <1>1
    <3> QED BY <3>1, <2>4, <2>3
  <2> QED BY <2>4, <2>5, <1>1
<1> HIDE DEF first, d
<1>5. /\ d \in Seq(S)
      /\ \A i \in first : \E k \in DOMAIN d : d[k] = s[i]
  BY <1>1, <1>2, PickedFrom
<1>6. PICK from \in [DOMAIN d -> first] :
        /\ \A k \in DOMAIN d : d[k] = s[from[k]]
        /\ \A k, l \in DOMAIN d : k < l => from[k] < from[l]
  BY <1>1, <1>2, PickedFrom
<1>7. DOMAIN d = 1..Len(d) /\ Len(d) \in Nat
  BY <1>5
<1>8. ToSet(d) = ToSet(s)
  <2>1. ASSUME NEW x \in ToSet(d) PROVE x \in ToSet(s)
    BY <1>1, <1>6 DEF ToSet
  <2>2. ASSUME NEW x \in ToSet(s) PROVE x \in ToSet(d)
    <3>1. PICK i \in DOMAIN s : s[i] = x
      BY DEF ToSet
    <3>2. PICK j \in first : s[j] = x
      BY <3>1, <1>4
    <3> QED BY <3>2, <1>5 DEF ToSet
  <2> QED BY <2>1, <2>2
<1>9. IsInjective(d)
  <2>1. ASSUME NEW k \in DOMAIN d, NEW l \in DOMAIN d, k < l PROVE d[k] # d[l]
    <3>1. from[k] \in first /\ from[l] \in first /\ from[k] < from[l]
      BY <2>1, <1>6
    <3> QED BY <3>1, <2>1, <1>3, <1>6
  <2>2. \A k, l \in DOMAIN d : d[k] = d[l] => k = l
    BY <2>1, <1>7
  <2> QED BY <2>2 DEF IsInjective
<1> QED BY <1>5, <1>8, <1>9 DEF d

\* The events of a queue and of what is appended to it.
LEMMA ToSetConcat ==
    ASSUME NEW S, NEW s \in Seq(S), NEW t \in Seq(S)
    PROVE  s \o t \in Seq(S) /\ ToSet(s \o t) = ToSet(s) \cup ToSet(t)
<1>1. s \o t \in Seq(S) /\ Len(s \o t) = Len(s) + Len(t)
  OBVIOUS
<1>2. \A i \in 1..Len(s) : (s \o t)[i] = s[i]
  OBVIOUS
<1>3. \A i \in 1..Len(t) : (s \o t)[Len(s) + i] = t[i]
  OBVIOUS
<1>4. \A i \in 1..Len(s \o t) : i \in 1..Len(s) \/ \E j \in 1..Len(t) : i = Len(s) + j
  <2> TAKE i \in 1..Len(s \o t)
  <2> CASE i <= Len(s)
    BY <1>1
  <2> CASE i > Len(s)
    <3>1. i - Len(s) \in 1..Len(t) /\ i = Len(s) + (i - Len(s))
      BY <1>1
    <3> QED BY <3>1
  <2> QED BY <1>1
<1>5. /\ DOMAIN s = 1..Len(s) /\ DOMAIN t = 1..Len(t)
      /\ DOMAIN (s \o t) = 1..Len(s \o t) /\ Len(s) \in Nat /\ Len(t) \in Nat
  OBVIOUS
<1>6. ToSet(s \o t) \subseteq ToSet(s) \cup ToSet(t)
  <2> SUFFICES ASSUME NEW i \in 1..Len(s \o t) PROVE (s \o t)[i] \in ToSet(s) \cup ToSet(t)
    BY <1>5 DEF ToSet
  <2>1. CASE i \in 1..Len(s)
    BY <1>2, <1>5, <2>1 DEF ToSet
  <2>2. ASSUME NEW j \in 1..Len(t), i = Len(s) + j PROVE (s \o t)[i] \in ToSet(t)
    BY <1>3, <1>5, <2>2 DEF ToSet
  <2> QED BY <1>4, <2>1, <2>2
<1>7. \A i \in 1..Len(s) : i \in DOMAIN (s \o t)
  BY <1>1, <1>5
<1>8. \A i \in 1..Len(t) : Len(s) + i \in DOMAIN (s \o t)
  BY <1>1, <1>5
<1>9. ToSet(s) \subseteq ToSet(s \o t)
  BY <1>2, <1>5, <1>7 DEF ToSet
<1>10. ToSet(t) \subseteq ToSet(s \o t)
  BY <1>3, <1>5, <1>8 DEF ToSet
<1> QED BY <1>1, <1>6, <1>9, <1>10
=============================================================================
