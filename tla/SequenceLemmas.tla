----------------------------- MODULE SequenceLemmas -----------------------------
(***************************************************************************)
(* Facts about the sequence operators the models use, and least elements   *)
(* of sets of naturals, cited by the proofs about the components.          *)
(***************************************************************************)
EXTENDS Integers, SequencesExt, SequenceTheorems, WellFoundedInduction, TLAPS

\* A non-empty set of naturals has a least element.
LEMMA LeastElement ==
  ASSUME NEW S \in SUBSET Nat, S # {}
  PROVE  \E i \in S : \A j \in S : i <= j
<1>1. PICK i \in S : \A j \in S : ~(<<j, i>> \in OpToRel(<, Nat))
  BY NatLessThanWellFounded, WFMin
<1>2. \A j \in S : ~(j < i)
  BY <1>1 DEF OpToRel
<1> QED BY <1>2

\* r is q with x inserted at p.
IsInsertion(r, q, p, x) ==
  /\ Len(r) = Len(q) + 1
  /\ \A k \in 1 .. Len(q) + 1 :
       r[k] = IF k < p THEN q[k] ELSE IF k = p THEN x ELSE q[k - 1]

\* Where InsertAt puts the elements of the sequence and the new one.
LEMMA InsertAtFacts ==
  ASSUME NEW S, NEW q \in Seq(S), NEW x \in S, NEW p \in 1 .. Len(q) + 1
  PROVE  InsertAt(q, p, x) \in Seq(S) /\ IsInsertion(InsertAt(q, p, x), q, p, x)
<1> DEFINE front == SubSeq(q, 1, p - 1)
           back  == SubSeq(q, p, Len(q))
           left  == front \o <<x>>
           all   == left \o back
<1>1. /\ front \in Seq(S) /\ Len(front) = p - 1
      /\ \A k \in 1 .. p - 1 : front[k] = q[k]
  BY SubSeqProperties
<1>2. /\ back \in Seq(S) /\ Len(back) = Len(q) - p + 1
      /\ \A k \in 1 .. Len(q) - p + 1 : back[k] = q[p + k - 1]
  BY SubSeqProperties
<1>3. InsertAt(q, p, x) = all
  BY DEF InsertAt
<1> HIDE DEF front, back
<1>4. left \in Seq(S) /\ Len(left) = p
  BY <1>1, ConcatProperties
<1>5. left[p] = x /\ \A k \in 1 .. p - 1 : left[k] = q[k]
  BY <1>1, ConcatProperties
<1> HIDE DEF left
<1>6. /\ all \in Seq(S)
      /\ Len(all) = Len(left) + Len(back)
      /\ \A k \in 1 .. Len(left) + Len(back) :
           all[k] = IF k <= Len(left) THEN left[k] ELSE back[k - Len(left)]
  BY <1>2, <1>4, ConcatProperties, Zenon
<1> HIDE DEF all
<1>7. Len(left) + Len(back) = Len(q) + 1
  BY <1>2, <1>4
<1>8. ASSUME NEW k \in 1 .. Len(q) + 1
      PROVE  all[k] = IF k < p THEN q[k] ELSE IF k = p THEN x ELSE q[k - 1]
  <2>1. CASE k > p
    <3>1. k - p \in 1 .. Len(q) - p + 1 /\ p + (k - p) - 1 = k - 1
      BY <2>1
    <3>2. k \in 1 .. Len(left) + Len(back) /\ ~(k <= Len(left)) /\ ~(k < p) /\ k # p /\ Len(left) = p
      BY <1>2, <1>4, <1>7, <2>1
    <3>3. all[k] = back[k - p]
      BY <1>6, <3>2, Zenon
    <3>4. back[k - p] = q[k - 1]
      BY <1>2, <3>1, Zenon
    <3> QED BY <3>2, <3>3, <3>4, Zenon
  <2>2. CASE k <= p
    <3>1. k \in 1 .. Len(left) + Len(back) /\ k <= Len(left) /\ (k < p => k \in 1 .. p - 1) /\ (~(k < p) => k = p)
      BY <1>2, <1>4, <1>7, <2>2
    <3> QED BY <1>5, <1>6, <3>1, Zenon
  <2> QED BY <2>1, <2>2
<1> QED BY <1>3, <1>6, <1>7, <1>8 DEF IsInsertion

\* What RemoveAt leaves.
LEMMA RemoveAtFacts ==
  ASSUME NEW S, NEW q \in Seq(S), NEW p \in 1 .. Len(q)
  PROVE  /\ RemoveAt(q, p) \in Seq(S)
         /\ Len(RemoveAt(q, p)) = Len(q) - 1
         /\ \A k \in 1 .. Len(q) - 1 : RemoveAt(q, p)[k] =
              IF k < p THEN q[k] ELSE q[k + 1]
<1> DEFINE front == SubSeq(q, 1, p - 1)
           back  == SubSeq(q, p + 1, Len(q))
           all   == front \o back
<1>1. /\ front \in Seq(S) /\ Len(front) = p - 1
      /\ \A k \in 1 .. p - 1 : front[k] = q[k]
  BY SubSeqProperties
<1>2. /\ back \in Seq(S) /\ Len(back) = Len(q) - p
      /\ \A k \in 1 .. Len(q) - p : back[k] = q[p + k]
  BY SubSeqProperties
<1>3. RemoveAt(q, p) = all
  BY DEF RemoveAt
<1> HIDE DEF front, back
<1>4. /\ all \in Seq(S)
      /\ Len(all) = Len(front) + Len(back)
      /\ \A k \in 1 .. Len(front) + Len(back) :
           all[k] = IF k <= Len(front) THEN front[k] ELSE back[k - Len(front)]
  BY <1>1, <1>2, ConcatProperties, Zenon
<1> HIDE DEF all
<1>5. Len(front) + Len(back) = Len(q) - 1
  BY <1>1, <1>2
<1>6. ASSUME NEW k \in 1 .. Len(q) - 1
      PROVE  all[k] = IF k < p THEN q[k] ELSE q[k + 1]
  <2>1. CASE k >= p
    <3>1. k - (p - 1) \in 1 .. Len(q) - p /\ p + (k - (p - 1)) = k + 1
      BY <2>1
    <3>2. k \in 1 .. Len(front) + Len(back) /\ ~(k <= Len(front)) /\ ~(k < p)
      BY <1>1, <1>5, <2>1
    <3>3. all[k] = back[k - (p - 1)]
      BY <1>1, <1>4, <3>2, Zenon
    <3>4. back[k - (p - 1)] = q[k + 1]
      BY <1>2, <3>1, Zenon
    <3> QED BY <3>2, <3>3, <3>4, Zenon
  <2>2. CASE k < p
    <3>1. k \in 1 .. Len(front) + Len(back) /\ k <= Len(front) /\ k \in 1 .. p - 1
      BY <1>1, <1>5, <2>2
    <3> QED BY <1>1, <1>4, <2>2, <3>1, Zenon
  <2> QED BY <2>1, <2>2
<1> QED BY <1>3, <1>4, <1>5, <1>6

===============================================================================
