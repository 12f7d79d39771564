---------------------------- MODULE QueueProofs ----------------------------
(* What linking a node into a queue and unlinking one do to the queue, for *)
(* the wait queues, the tick queue and the ready queues: sequences in      *)
(* which no thread is twice.                                               *)
EXTENDS Integers, SequencesExt, SequenceTheorems, WellFoundedInduction, TLAPS

(* ToSet collects the elements of a sequence. *)
LEMMA ToSetOfSeq ==
  ASSUME NEW S, NEW q \in Seq(S)
  PROVE  /\ ToSet(q) \subseteq S
         /\ \A x : x \in ToSet(q) <=> \E i \in 1 .. Len(q) : q[i] = x
         /\ IsInjective(q) <=> \A i, j \in 1 .. Len(q) : q[i] = q[j] => i = j
  BY DEF ToSet, IsInjective

(* A set of natural numbers that is not empty has a least one. *)
LEMMA MinOfNats ==
  ASSUME NEW I, I \subseteq Nat, I # {}
  PROVE  Min(I) \in I /\ \A y \in I : Min(I) <= y
<1>1. PICK x \in I : \A y \in I : ~(<<y, x>> \in OpToRel(<, Nat))
  BY NatLessThanWellFounded, WFMin
<1>2. ASSUME NEW y \in I PROVE x <= y
  <2>1. ~(y < x)
    BY <1>1 DEF OpToRel
  <2> QED BY <2>1
<1> QED BY <1>2 DEF Min

(* Insertion before position at. *)
LEMMA InsertAtSeq ==
  ASSUME NEW S, NEW q \in Seq(S), NEW e \in S, NEW at \in 1 .. Len(q) + 1
  PROVE  /\ InsertAt(q, at, e) \in Seq(S)
         /\ Len(InsertAt(q, at, e)) = Len(q) + 1
         /\ \A i \in 1 .. Len(q) + 1 :
              InsertAt(q, at, e)[i] = IF i < at THEN q[i] ELSE IF i = at THEN e ELSE q[i - 1]
<1> DEFINE a == SubSeq(q, 1, at - 1)
           b == SubSeq(q, at, Len(q))
<1>0. Len(q) \in Nat /\ at \in Nat /\ \A i \in 1 .. Len(q) : q[i] \in S
  BY ElementOfSeq
<1>1. a \in Seq(S) /\ Len(a) = at - 1 /\ \A i \in 1 .. at - 1 : a[i] = q[i]
  <2>1. \A i \in 1 .. at - 1 : q[i] \in S
    BY <1>0
  <2>2. /\ a \in Seq(S) /\ Len(a) = IF 1 <= at - 1 THEN at - 1 - 1 + 1 ELSE 0
        /\ \A i \in 1 .. at - 1 - 1 + 1 : a[i] = q[1 + i - 1]
    BY <2>1, <1>0, SubSeqProperties
  <2> QED BY <2>2, <1>0
<1>2. b \in Seq(S) /\ Len(b) = Len(q) - at + 1 /\ \A i \in 1 .. Len(q) - at + 1 : b[i] = q[at + i - 1]
  <2>1. \A i \in at .. Len(q) : q[i] \in S
    BY <1>0
  <2>2. /\ b \in Seq(S) /\ Len(b) = IF at <= Len(q) THEN Len(q) - at + 1 ELSE 0
        /\ \A i \in 1 .. Len(q) - at + 1 : b[i] = q[at + i - 1]
    BY <2>1, <1>0, SubSeqProperties
  <2> QED BY <2>2, <1>0
<1>3. <<e>> \in Seq(S) /\ Len(<<e>>) = 1 /\ <<e>>[1] = e
  OBVIOUS
<1> HIDE DEF a, b
<1> DEFINE c == a \o <<e>>
           d == c \o b
<1>4. c \in Seq(S) /\ Len(c) = at /\ c[at] = e /\ \A i \in 1 .. at - 1 : c[i] = q[i]
  <2>1. /\ c \in Seq(S) /\ Len(c) = at - 1 + 1
        /\ \A i \in 1 .. at - 1 + 1 : c[i] = IF i <= at - 1 THEN a[i] ELSE <<e>>[i - (at - 1)]
    BY <1>1, <1>3, ConcatProperties
  <2> HIDE DEF c
  <2>2. at - 1 + 1 = at /\ at - (at - 1) = 1
    BY <1>0
  <2>3. ASSUME NEW i \in 1 .. at - 1 PROVE c[i] = q[i]
    BY <2>1, <2>2, <1>0, <1>1
  <2>4. c[at] = e
    BY <2>1, <2>2, <1>0, <1>3
  <2> QED BY <2>1, <2>2, <2>3, <2>4
<1> HIDE DEF c
<1>5. d \in Seq(S) /\ Len(d) = Len(q) + 1
      /\ \A i \in 1 .. Len(q) + 1 : d[i] = IF i <= at THEN c[i] ELSE b[i - at]
  <2>1. /\ d \in Seq(S) /\ Len(d) = at + (Len(q) - at + 1)
        /\ \A i \in 1 .. at + (Len(q) - at + 1) : d[i] = IF i <= at THEN c[i] ELSE b[i - at]
    BY <1>2, <1>4, ConcatProperties
  <2>2. at + (Len(q) - at + 1) = Len(q) + 1
    BY <1>0
  <2> QED BY <2>1, <2>2
<1> HIDE DEF d
<1>6. ASSUME NEW i \in 1 .. Len(q) + 1
      PROVE  d[i] = IF i < at THEN q[i] ELSE IF i = at THEN e ELSE q[i - 1]
  <2>1. CASE i <= at
    BY <2>1, <1>0, <1>4, <1>5
  <2>2. CASE i > at
    <3>1. i - at \in 1 .. Len(q) - at + 1 /\ at + (i - at) - 1 = i - 1
      BY <2>2, <1>0
    <3>2. d[i] = b[i - at]
      BY <2>2, <1>0, <1>5
    <3>3. b[i - at] = q[at + (i - at) - 1]
      BY <3>1, <1>2
    <3> QED BY <2>2, <3>1, <3>2, <3>3, <1>0
  <2> QED BY <2>1, <2>2, <1>0
<1>7. InsertAt(q, at, e) = d
  BY DEF InsertAt, a, b, c, d
<1> QED BY <1>5, <1>6, <1>7

(* Inserting a thread that is not in the queue. *)
LEMMA InsertAtMembers ==
  ASSUME NEW S, NEW q \in Seq(S), NEW e \in S, NEW at \in 1 .. Len(q) + 1
  PROVE  /\ ToSet(InsertAt(q, at, e)) = ToSet(q) \cup {e}
         /\ (IsInjective(q) /\ e \notin ToSet(q)) => IsInjective(InsertAt(q, at, e))
<1> DEFINE r == InsertAt(q, at, e)
<1>1. /\ r \in Seq(S) /\ Len(r) = Len(q) + 1 /\ Len(q) \in Nat
      /\ \A i \in 1 .. Len(q) + 1 : r[i] = IF i < at THEN q[i] ELSE IF i = at THEN e ELSE q[i - 1]
  BY InsertAtSeq, LenProperties
<1> HIDE DEF r
<1>2. ToSet(r) \subseteq ToSet(q) \cup {e}
  <2> SUFFICES ASSUME NEW x, x \in ToSet(r), x # e PROVE x \in ToSet(q)
    OBVIOUS
  <2>1. PICK i \in 1 .. Len(q) + 1 : r[i] = x
    BY <1>1, ToSetOfSeq
  <2>2. \E k \in 1 .. Len(q) : q[k] = x
    <3>1. CASE i < at
      BY <3>1, <2>1, <1>1
    <3>2. CASE ~(i < at)
      <4>1. i # at /\ i - 1 \in 1 .. Len(q) /\ q[i - 1] = x
        BY <3>2, <2>1, <1>1
      <4> QED BY <4>1
    <3> QED BY <3>1, <3>2
  <2> QED BY <2>2, ToSetOfSeq
<1>3. ToSet(q) \cup {e} \subseteq ToSet(r)
  <2>1. e \in ToSet(r)
    BY <1>1, ToSetOfSeq
  <2>2. ASSUME NEW x, x \in ToSet(q) PROVE x \in ToSet(r)
    <3>1. PICK k \in 1 .. Len(q) : q[k] = x
      BY <2>2, ToSetOfSeq
    <3>2. CASE k < at
      BY <3>1, <3>2, <1>1, ToSetOfSeq
    <3>3. CASE ~(k < at)
      <4>1. k + 1 \in 1 .. Len(q) + 1 /\ r[k + 1] = q[k]
        BY <3>3, <1>1
      <4> QED BY <3>1, <4>1, <1>1, ToSetOfSeq
    <3> QED BY <3>2, <3>3
  <2> QED BY <2>1, <2>2
<1>4. ASSUME IsInjective(q), e \notin ToSet(q) PROVE IsInjective(r)
  <2> SUFFICES ASSUME NEW i \in 1 .. Len(q) + 1, NEW j \in 1 .. Len(q) + 1, r[i] = r[j]
               PROVE  i = j
    BY <1>1, ToSetOfSeq
  <2>1. \A k \in 1 .. Len(q) : q[k] # e
    BY <1>4, ToSetOfSeq
  <2>2. \A k, l \in 1 .. Len(q) : q[k] = q[l] => k = l
    BY <1>4, ToSetOfSeq
  <2> DEFINE m(k) == IF k < at THEN k ELSE k - 1
  <2>3. ASSUME NEW k \in 1 .. Len(q) + 1, k # at PROVE r[k] = q[m(k)] /\ m(k) \in 1 .. Len(q)
    BY <2>3, <1>1
  <2>4. CASE i = at \/ j = at
    BY <2>1, <2>3, <2>4, <1>1
  <2>5. CASE i # at /\ j # at
    <3>1. m(i) = m(j)
      BY <2>2, <2>3, <2>5
    <3> QED BY <3>1, <2>5, <1>1
  <2> QED BY <2>4, <2>5
<1> QED BY <1>2, <1>3, <1>4 DEF r

(* acoral_prio_queue_add: before the first node that has to come after. *)
LEMMA InsertBeforeMembers ==
  ASSUME NEW S, NEW q \in Seq(S), NEW e \in S, NEW after, after \subseteq 1 .. Len(q),
         IsInjective(q), e \notin ToSet(q)
  PROVE  LET r == InsertAt(q, IF after = {} THEN Len(q) + 1 ELSE Min(after), e)
         IN  r \in Seq(S) /\ ToSet(r) = ToSet(q) \cup {e} /\ IsInjective(r)
<1> DEFINE at == IF after = {} THEN Len(q) + 1 ELSE Min(after)
<1>1. Len(q) \in Nat
  BY LenProperties
<1>2. ASSUME after # {} PROVE Min(after) \in 1 .. Len(q)
  <2>1. after \subseteq Nat
    BY <1>1
  <2> QED BY <1>2, <2>1, MinOfNats
<1>3. at \in 1 .. Len(q) + 1
  <2>1. CASE after = {}
    BY <2>1, <1>1
  <2>2. CASE after # {}
    BY <2>2, <1>1, <1>2
  <2> QED BY <2>1, <2>2
<1> HIDE DEF at
<1>4. InsertAt(q, at, e) \in Seq(S)
  BY <1>3, InsertAtSeq
<1>5. ToSet(InsertAt(q, at, e)) = ToSet(q) \cup {e} /\ IsInjective(InsertAt(q, at, e))
  BY <1>3, InsertAtMembers
<1> QED BY <1>4, <1>5 DEF at

(* Removal of the node at position at. *)
LEMMA RemoveAtSeq ==
  ASSUME NEW S, NEW q \in Seq(S), NEW at \in 1 .. Len(q)
  PROVE  /\ RemoveAt(q, at) \in Seq(S)
         /\ Len(RemoveAt(q, at)) = Len(q) - 1
         /\ \A i \in 1 .. Len(q) - 1 : RemoveAt(q, at)[i] = IF i < at THEN q[i] ELSE q[i + 1]
<1> DEFINE a == SubSeq(q, 1, at - 1)
           b == SubSeq(q, at + 1, Len(q))
<1>0. Len(q) \in Nat /\ at \in Nat /\ \A i \in 1 .. Len(q) : q[i] \in S
  BY ElementOfSeq
<1>1. a \in Seq(S) /\ Len(a) = at - 1 /\ \A i \in 1 .. at - 1 : a[i] = q[i]
  <2>1. \A i \in 1 .. at - 1 : q[i] \in S
    BY <1>0
  <2>2. /\ a \in Seq(S) /\ Len(a) = IF 1 <= at - 1 THEN at - 1 - 1 + 1 ELSE 0
        /\ \A i \in 1 .. at - 1 - 1 + 1 : a[i] = q[1 + i - 1]
    BY <2>1, <1>0, SubSeqProperties
  <2> QED BY <2>2, <1>0
<1>2. b \in Seq(S) /\ Len(b) = Len(q) - at /\ \A i \in 1 .. Len(q) - at : b[i] = q[at + i]
  <2>1. \A i \in at + 1 .. Len(q) : q[i] \in S
    BY <1>0
  <2>2. /\ b \in Seq(S) /\ Len(b) = IF at + 1 <= Len(q) THEN Len(q) - (at + 1) + 1 ELSE 0
        /\ \A i \in 1 .. Len(q) - (at + 1) + 1 : b[i] = q[at + 1 + i - 1]
    BY <2>1, <1>0, SubSeqProperties
  <2> QED BY <2>2, <1>0
<1> HIDE DEF a, b
<1>3. /\ a \o b \in Seq(S) /\ Len(a \o b) = Len(q) - 1
      /\ \A i \in 1 .. Len(q) - 1 : (a \o b)[i] = IF i <= at - 1 THEN a[i] ELSE b[i - (at - 1)]
  <2>1. /\ a \o b \in Seq(S) /\ Len(a \o b) = Len(a) + Len(b)
        /\ \A i \in 1 .. Len(a) + Len(b) : (a \o b)[i] = IF i <= Len(a) THEN a[i] ELSE b[i - Len(a)]
    BY <1>1, <1>2, ConcatProperties
  <2>2. Len(a) + Len(b) = Len(q) - 1
    BY <1>0, <1>1, <1>2
  <2> QED BY <1>1, <2>1, <2>2
<1>4. ASSUME NEW i \in 1 .. Len(q) - 1
      PROVE  (a \o b)[i] = IF i < at THEN q[i] ELSE q[i + 1]
  <2>1. CASE i < at
    BY <2>1, <1>0, <1>1, <1>3
  <2>2. CASE ~(i < at)
    <3>1. i - (at - 1) \in 1 .. Len(q) - at /\ at + (i - (at - 1)) = i + 1
      BY <2>2, <1>0
    <3>2. PICK m \in 1 .. Len(q) - at : m = i - (at - 1) /\ at + m = i + 1
      BY <3>1
    <3>3. ~(i <= at - 1)
      BY <2>2, <1>0
    <3>4. (a \o b)[i] = b[m]
      BY <1>3, <3>2, <3>3
    <3>5. b[m] = q[at + m]
      BY <1>2
    <3> QED BY <2>2, <3>2, <3>4, <3>5
  <2> QED BY <2>1, <2>2
<1> QED BY <1>3, <1>4 DEF RemoveAt, a, b

(* RemoveFirst removes one node of the element, if there is one. *)
LEMMA RemoveFirstAt ==
  ASSUME NEW S, NEW q \in Seq(S), NEW e
  PROVE  /\ e \notin ToSet(q) => RemoveFirst(q, e) = q
         /\ e \in ToSet(q) =>
              \E at \in 1 .. Len(q) : q[at] = e /\ RemoveFirst(q, e) = RemoveAt(q, at)
<1> DEFINE I == {i \in 1 .. Len(q) : q[i] = e}
<1>1. e \in ToSet(q) <=> I # {}
  BY ToSetOfSeq
<1>2. e \notin ToSet(q) => RemoveFirst(q, e) = q
  BY <1>1 DEF RemoveFirst
<1>3. ASSUME I # {} PROVE Min(I) \in I
  <2>1. I \subseteq Nat
    OBVIOUS
  <2> HIDE DEF I
  <2> QED BY <1>3, <2>1, MinOfNats
<1>4. ASSUME e \in ToSet(q) PROVE RemoveFirst(q, e) = RemoveAt(q, Min(I))
  BY <1>1, <1>4 DEF RemoveFirst, SelectInSeq
<1> QED BY <1>1, <1>2, <1>3, <1>4

(* Removing a thread from a queue that holds it at most once. *)
LEMMA RemoveFirstMembers ==
  ASSUME NEW S, NEW q \in Seq(S), NEW e, IsInjective(q)
  PROVE  /\ RemoveFirst(q, e) \in Seq(S)
         /\ IsInjective(RemoveFirst(q, e))
         /\ ToSet(RemoveFirst(q, e)) = ToSet(q) \ {e}
<1>1. CASE e \notin ToSet(q)
  BY <1>1, RemoveFirstAt
<1>2. CASE e \in ToSet(q)
  <2>1. PICK at \in 1 .. Len(q) : q[at] = e /\ RemoveFirst(q, e) = RemoveAt(q, at)
    BY <1>2, RemoveFirstAt
  <2> DEFINE r == RemoveAt(q, at)
             m(k) == IF k < at THEN k ELSE k + 1
  <2>2. /\ r \in Seq(S) /\ Len(r) = Len(q) - 1 /\ Len(q) \in Nat
        /\ \A i \in 1 .. Len(q) - 1 : r[i] = IF i < at THEN q[i] ELSE q[i + 1]
    BY RemoveAtSeq
  <2> HIDE DEF r
  <2>3. \A k, l \in 1 .. Len(q) : q[k] = q[l] => k = l
    BY ToSetOfSeq
  <2>4. ASSUME NEW k \in 1 .. Len(q) - 1
        PROVE  r[k] = q[m(k)] /\ m(k) \in 1 .. Len(q) /\ m(k) # at
    BY <2>2
  <2>5. IsInjective(r)
    <3> SUFFICES ASSUME NEW i \in 1 .. Len(q) - 1, NEW j \in 1 .. Len(q) - 1, r[i] = r[j]
                 PROVE  i = j
      BY <2>2, ToSetOfSeq
    <3>1. m(i) = m(j)
      BY <2>3, <2>4
    <3> QED BY <3>1, <2>2
  <2>6. ToSet(r) \subseteq ToSet(q) \ {e}
    <3> SUFFICES ASSUME NEW x, x \in ToSet(r) PROVE x \in ToSet(q) /\ x # e
      OBVIOUS
    <3>1. PICK i \in 1 .. Len(q) - 1 : r[i] = x
      BY <2>2, ToSetOfSeq
    <3>2. q[m(i)] = x /\ m(i) \in 1 .. Len(q) /\ m(i) # at
      BY <3>1, <2>4
    <3> HIDE DEF m
    <3> QED BY <3>2, <2>1, <2>3, ToSetOfSeq
  <2>7. ToSet(q) \ {e} \subseteq ToSet(r)
    <3> SUFFICES ASSUME NEW x, x \in ToSet(q), x # e PROVE x \in ToSet(r)
      OBVIOUS
    <3>1. PICK k \in 1 .. Len(q) : q[k] = x
      BY ToSetOfSeq
    <3>2. CASE k < at
      <4>1. k \in 1 .. Len(q) - 1 /\ r[k] = x
        BY <3>1, <3>2, <2>2
      <4> QED BY <4>1, <2>2, ToSetOfSeq
    <3>3. CASE ~(k < at)
      <4>1. k # at
        BY <3>1, <2>1
      <4>2. k - 1 \in 1 .. Len(q) - 1 /\ r[k - 1] = x
        BY <3>1, <3>3, <4>1, <2>2
      <4> QED BY <4>2, <2>2, ToSetOfSeq
    <3> QED BY <3>2, <3>3
  <2> QED BY <2>1, <2>2, <2>5, <2>6, <2>7 DEF r
<1> QED BY <1>1, <1>2
=============================================================================
