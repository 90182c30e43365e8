-------------------------- MODULE CaptureView_proofs --------------------------
(***************************************************************************)
(* Proofs about CaptureView, for any kinds of packets, filters, overlays,  *)
(* patterns and characters, any capacity of the ring and any bounds.       *)
(***************************************************************************)
EXTENDS CaptureView, FiniteSetTheorems, SequenceTheorems, TLAPS

(***************************************************************************)
(* The ring holds the last packets received, and the channel those after.  *)
(***************************************************************************)
RingInv ==
  /\ received + Len(chan) = sent /\ sent <= MaxPackets
  /\ Len(ring) = IF received <= RingCap THEN received ELSE RingCap
  /\ \A i \in DOMAIN ring : ring[i].number = received - Len(ring) + i - 1
  /\ \A i \in DOMAIN chan : chan[i].number = received + i - 1

(***************************************************************************)
(* The indices are those that going through the ring anew would give.      *)
(***************************************************************************)
FilterInv ==
  /\ (filtered = None) <=> (active = None)
  /\ filtered # None => filtered = Indices(active)

(***************************************************************************)
(* The selection is on the first row or another, unless evictions may have *)
(* shortened the list.                                                     *)
(***************************************************************************)
RowInv == filtered = None \/ received <= RingCap => selected = 0 \/ selected < Count

(***************************************************************************)
(* The cursor lies within the bytes of the input.                          *)
(***************************************************************************)
CursorInv == cursor <= Offset(Len(input)) /\ OnlyWideCharsCrash

CInv == TypeOK /\ RingInv /\ FilterInv /\ RowInv /\ CursorInv

-----------------------------------------------------------------------------
(***************************************************************************)
(* Induction over the natural numbers, for sets.                           *)
(***************************************************************************)
LEMMA LeastElement ==
  ASSUME NEW T \in SUBSET Nat, T # {}
  PROVE  \E n \in T : \A m \in T : n <= m
<1> DEFINE R == OpToRel(<, Nat)
<1>1. PICK n \in T : \A m \in T : <<m, n>> \notin R
  <2>1. IsWellFoundedOn(R, Nat)
    BY NatLessThanWellFounded
  <2> HIDE DEF R
  <2> QED  BY <2>1, WFMin
<1>2. \A m \in T : ~(m < n)
  BY <1>1 DEF OpToRel
<1> QED  BY <1>2

LEMMA SetInduction ==
  ASSUME NEW T, 0 \in T, \A n \in Nat : n \in T => n + 1 \in T
  PROVE  Nat \subseteq T
<1> DEFINE U == Nat \ T
<1> SUFFICES ASSUME U # {} PROVE FALSE
  OBVIOUS
<1>1. PICK n \in U : \A m \in U : n <= m
  BY LeastElement
<1>2. n # 0 /\ n \in Nat
  BY <1>1
<1>3. n - 1 \in Nat /\ n - 1 \notin U
  BY <1>1, <1>2
<1> QED  BY <1>1, <1>3

-----------------------------------------------------------------------------
(***************************************************************************)
(* The positions of a sequence in ascending order: there is such an        *)
(* enumeration of any set of them, and only one.                           *)
(***************************************************************************)
Enumerates(q, P) ==
  /\ q \in [1..Cardinality(P) -> P]
  /\ \A i, j \in DOMAIN q : i < j => q[i] < q[j]

LEMMA EnumerationExists ==
  \A n \in Nat : \A P \in SUBSET (1..n) : \E q : Enumerates(q, P)
<1> DEFINE T == {n \in Nat : \A P \in SUBSET (1..n) : \E q : Enumerates(q, P)}
<1>1. 0 \in T
  <2> SUFFICES ASSUME NEW P \in SUBSET (1..0) PROVE \E q : Enumerates(q, P)
    OBVIOUS
  <2>1. P = {} /\ Cardinality(P) = 0
    <3>1. \A x \in 1..0 : FALSE
      OBVIOUS
    <3>2. P = {}
      BY <3>1
    <3> QED  BY <3>2, FS_EmptySet
  <2>2. Enumerates([i \in 1..0 |-> 0], P)
    BY <2>1 DEF Enumerates
  <2> QED  BY <2>2
<1>2. ASSUME NEW n \in Nat, n \in T PROVE n + 1 \in T
  <2> SUFFICES ASSUME NEW P \in SUBSET (1..n + 1) PROVE \E q : Enumerates(q, P)
    OBVIOUS
  <2>1. CASE n + 1 \notin P
    <3>1. P \in SUBSET (1..n)
      BY <2>1
    <3> QED  BY <1>2, <3>1
  <2>2. CASE n + 1 \in P
    <3> DEFINE Q == P \ {n + 1}
    <3>1. Q \in SUBSET (1..n)
      OBVIOUS
    <3>2. PICK r : Enumerates(r, Q)
      BY <1>2, <3>1
    <3>3. IsFiniteSet(P)
      <4>1. IsFiniteSet(1..n + 1)
        BY FS_Interval
      <4> QED  BY <4>1, FS_Subset
    <3>4. Cardinality(Q) \in Nat /\ Cardinality(P) = Cardinality(Q) + 1
      <4>1. IsFiniteSet(Q) /\ Cardinality(Q) = Cardinality(P) - 1
        BY <2>2, <3>3, FS_RemoveElement
      <4>2. Cardinality(P) \in Nat /\ Cardinality(Q) \in Nat
        BY <3>3, <4>1, FS_CardinalityType
      <4> QED  BY <4>1, <4>2
    <3> DEFINE m == Cardinality(Q)
               q == [i \in 1..m + 1 |-> IF i = m + 1 THEN n + 1 ELSE r[i]]
    <3>5. m \in Nat /\ r \in [1..m -> Q] /\ \A i, j \in 1..m : i < j => r[i] < r[j]
      BY <3>2, <3>4 DEF Enumerates
    <3>6. \A x \in Q : x \in P /\ x < n + 1
      BY <3>1
    <3> HIDE DEF Q, m
    <3>7. q \in [1..m + 1 -> P]
      BY <2>2, <3>5, <3>6
    <3>8. ASSUME NEW i \in 1..m + 1, NEW j \in 1..m + 1, i < j PROVE q[i] < q[j]
      <4>1. i \in 1..m
        BY <3>8, <3>5
      <4>2. CASE j = m + 1
        BY <4>1, <4>2, <3>5, <3>6
      <4>3. CASE j # m + 1
        BY <4>1, <4>3, <3>5, <3>8
      <4> QED  BY <4>2, <4>3
    <3>9. Enumerates(q, P)
      BY <3>4, <3>7, <3>8 DEF Enumerates, m
    <3> QED  BY <3>9
  <2> QED  BY <2>1, <2>2
<1> HIDE DEF T
<1>3. Nat \subseteq T
  BY <1>1, <1>2, SetInduction
<1> QED  BY <1>3 DEF T

LEMMA AscendingEnumerates ==
  ASSUME NEW n \in Nat, NEW P \in SUBSET (1..n)
  PROVE  /\ Enumerates(Ascending(P), P)
         /\ IsFiniteSet(P) /\ Cardinality(P) \in Nat
         /\ \A x \in P : \E i \in 1..Cardinality(P) : Ascending(P)[i] = x
<1> DEFINE q == Ascending(P)
<1>1. Enumerates(q, P)
  BY EnumerationExists DEF Ascending, Enumerates
<1> HIDE DEF q
<1>2. IsFiniteSet(P) /\ Cardinality(P) \in Nat
  <2>1. IsFiniteSet(1..n)
    BY FS_Interval
  <2> QED  BY <2>1, FS_Subset, FS_CardinalityType
<1> DEFINE m == Cardinality(P)
<1>3. q \in Injection(1..m, P)
  <2>1. m \in Nat
    BY <1>2
  <2> HIDE DEF m
  <2>2. q \in [1..m -> P] /\ \A i, j \in 1..m : i < j => q[i] < q[j]
    BY <1>1 DEF Enumerates, m
  <2>3. \A i \in 1..m : q[i] \in Nat
    <3>1. P \subseteq Nat
      OBVIOUS
    <3> QED  BY <2>2, <3>1
  <2>4. \A i, j \in 1..m : i # j => q[i] # q[j]
    <3> TAKE i, j \in 1..m
    <3>1. i < j => q[i] # q[j]
      BY <2>2, <2>3
    <3>2. j < i => q[i] # q[j]
      BY <2>2, <2>3
    <3> QED  BY <2>1, <3>1, <3>2
  <2> QED  BY <2>2, <2>4 DEF Injection, IsInjective
<1>4. Cardinality(1..m) = m
  BY <1>2, FS_Interval
<1>5. q \in Surjection(1..m, P)
  BY <1>2, <1>3, <1>4, FS_Injection
<1> QED  BY <1>1, <1>2, <1>5 DEF Surjection, q

\* A sequence that ascends through the members of a set is its enumeration.
LEMMA OneEnumeration ==
  ASSUME NEW n \in Nat, NEW P \in SUBSET (1..n), NEW q \in Seq(P),
         \A i, j \in 1..Len(q) : i < j => q[i] < q[j],
         \A x \in P : \E i \in 1..Len(q) : q[i] = x
  PROVE  q = Ascending(P)
<1> DEFINE r == Ascending(P)
           m == Cardinality(P)
<1>1. /\ m \in Nat /\ r \in [1..m -> P]
      /\ \A i, j \in 1..m : i < j => r[i] < r[j]
      /\ \A x \in P : \E i \in 1..m : r[i] = x
  BY AscendingEnumerates DEF Enumerates
<1> HIDE DEF r
<1>2. Len(q) \in Nat /\ q \in [1..Len(q) -> P] /\ P \subseteq Nat
  OBVIOUS
<1>3. Len(q) = m
  <2>1. q \in Bijection(1..Len(q), P)
    <3>0. \A i \in 1..Len(q) : q[i] \in Nat
      BY <1>2
    <3>1. \A i, j \in 1..Len(q) : i # j => q[i] # q[j]
      <4> TAKE i, j \in 1..Len(q)
      <4>1. i < j => q[i] # q[j]
        BY <3>0
      <4>2. j < i => q[i] # q[j]
        BY <3>0
      <4> QED  BY <1>2, <4>1, <4>2
    <3> QED  BY <1>2, <3>1 DEF Bijection, Injection, Surjection, IsInjective
  <2>2. IsFiniteSet(1..Len(q)) /\ Cardinality(1..Len(q)) = Len(q)
    BY <1>2, FS_Interval
  <2> QED  BY <2>1, <2>2, FS_Bijection DEF ExistsBijection
<1> HIDE DEF m
<1>4. ASSUME NEW i \in 1..m, q[i] # r[i] PROVE FALSE
  <2> DEFINE D == {k \in Nat : k \in 1..m /\ q[k] # r[k]}
  <2>1. PICK k \in D : \A l \in D : k <= l
    <3>1. D \in SUBSET Nat /\ D # {}
      BY <1>1, <1>4
    <3> QED  BY <3>1, LeastElement
  <2>2. k \in 1..m /\ q[k] # r[k] /\ \A l \in 1..m : l < k => q[l] = r[l]
    BY <2>1, <1>1
  <2> HIDE DEF D
  <2>3. q[k] \in P /\ r[k] \in P /\ \A l \in 1..m : q[l] \in Nat /\ r[l] \in Nat
    BY <2>2, <1>1, <1>2, <1>3
  <2>4. CASE q[k] < r[k]
    <3>1. PICK l \in 1..m : r[l] = q[k]
      BY <1>1, <2>3
    <3>2. ~(k < l) /\ l # k
      BY SMTT(20), <1>1, <2>2, <2>3, <2>4, <3>1
    <3>3. l < k
      BY <1>1, <2>2, <3>2
    <3>4. q[l] = q[k]
      BY <2>2, <3>1, <3>3
    <3> QED  BY <1>3, <2>2, <2>3, <3>3, <3>4
  <2>5. CASE r[k] < q[k]
    <3>1. PICK l \in 1..m : q[l] = r[k]
      BY <1>3, <2>3
    <3>2. ~(k < l) /\ l # k
      BY <1>3, <2>2, <2>3, <2>5, <3>1
    <3>3. l < k
      BY <1>1, <2>2, <3>2
    <3>4. r[l] = r[k]
      BY <2>2, <3>1, <3>3
    <3> QED  BY <1>1, <2>2, <2>3, <3>3, <3>4
  <2> QED  BY <2>2, <2>3, <2>4, <2>5
<1> QED  BY <1>1, <1>2, <1>3, <1>4 DEF r
\* The positions that are picked, in their order.
LEMMA AscendingWell ==
  ASSUME NEW n \in Nat, NEW P \in SUBSET (1..n)
  PROVE  /\ Ascending(P) \in Seq(P)
         /\ DOMAIN Ascending(P) = 1..Len(Ascending(P)) /\ Len(Ascending(P)) \in Nat
         /\ \A i, j \in DOMAIN Ascending(P) : i < j => Ascending(P)[i] < Ascending(P)[j]
         /\ \A i \in DOMAIN Ascending(P) : Ascending(P)[i] \in P
         /\ \A x \in P : \E i \in DOMAIN Ascending(P) : Ascending(P)[i] = x
<1> DEFINE q == Ascending(P)
           m == Cardinality(P)
<1>1. /\ m \in Nat /\ q \in [1..m -> P]
      /\ \A i, j \in 1..m : i < j => q[i] < q[j]
      /\ \A x \in P : \E i \in 1..m : q[i] = x
  BY AscendingEnumerates DEF Enumerates
<1> HIDE DEF q, m
<1>2. q \in Seq(P) /\ Len(q) = m /\ DOMAIN q = 1..m /\ Len(q) \in Nat
  BY <1>1, IsASeq
<1> QED  BY <1>1, <1>2 DEF q

\* An enumeration is never behind its count.
LEMMA AscendingRunsAhead ==
  ASSUME NEW n \in Nat, NEW P \in SUBSET (1..n)
  PROVE  \A i \in DOMAIN Ascending(P) : Ascending(P)[i] >= i
<1> DEFINE q == Ascending(P)
<1>1. /\ q \in Seq(P) /\ DOMAIN q = 1..Len(q)
      /\ \A i, j \in DOMAIN q : i < j => q[i] < q[j]
      /\ \A i \in DOMAIN q : q[i] \in Nat /\ q[i] >= 1
  <2>1. \A x \in P : x \in Nat /\ x >= 1
    OBVIOUS
  <2> QED  BY <2>1, AscendingWell
<1> HIDE DEF q
<1> DEFINE T == {i \in Nat : i \in DOMAIN q => q[i] >= i}
<1>2. 0 \in T
  BY <1>1
<1>3. ASSUME NEW i \in Nat, i \in T PROVE i + 1 \in T
  <2> SUFFICES ASSUME i + 1 \in DOMAIN q PROVE q[i + 1] >= i + 1
    OBVIOUS
  <2>1. CASE i = 0
    BY <1>1, <2>1
  <2>2. CASE i # 0
    <3>1. i \in DOMAIN q /\ i < i + 1
      BY <1>1, <2>2
    <3>2. q[i] < q[i + 1] /\ q[i] >= i /\ q[i] \in Nat /\ q[i + 1] \in Nat
      BY <1>1, <1>3, <3>1
    <3> QED  BY <3>2
  <2> QED  BY <2>1, <2>2
<1> HIDE DEF T
<1>4. Nat \subseteq T
  BY <1>2, <1>3, SetInduction
<1> QED  BY <1>1, <1>4 DEF T, q

\* All positions in their order are all of the sequence.
LEMMA AscendingAll == ASSUME NEW n \in Nat PROVE Ascending(1..n) = [i \in 1..n |-> i]
<1> DEFINE q == [i \in 1..n |-> i]
<1>1. q \in Seq(1..n) /\ Len(q) = n
  BY IsASeq
<1>2. /\ \A i, j \in 1..Len(q) : i < j => q[i] < q[j]
      /\ \A x \in 1..n : \E i \in 1..Len(q) : q[i] = x
  BY <1>1
<1> HIDE DEF q
<1>3. q = Ascending(1..n)
  BY <1>1, <1>2, OneEnumeration
<1> QED  BY <1>3 DEF q
-----------------------------------------------------------------------------
(***************************************************************************)
(* What drain_packets does to the indices keeps them in order.             *)
(***************************************************************************)
Before(P) == {x - 1 : x \in P \ {1}}

LEMMA ShiftedWell ==
  ASSUME NEW n \in Nat, NEW P \in SUBSET (1..n), filtered = Ascending(P), Evicts
  PROVE  /\ Shifted = Ascending(Before(P))
         /\ \A k \in DOMAIN Shifted :
              k \in DOMAIN filtered /\ Shifted[k] + 1 >= filtered[k]
<1> DEFINE f    == filtered
           K    == {i \in DOMAIN f : f[i] # 1}
           at   == Ascending(K)
           kept == Picked(f, K)
<1>1. /\ f \in Seq(P) /\ DOMAIN f = 1..Len(f) /\ Len(f) \in Nat
      /\ \A i, j \in DOMAIN f : i < j => f[i] < f[j]
      /\ \A i \in DOMAIN f : f[i] \in P
      /\ \A x \in P : \E i \in DOMAIN f : f[i] = x
  BY AscendingWell
<1>2. \A x \in P : x \in Nat /\ x >= 1
  OBVIOUS
<1> HIDE DEF f
<1>3. /\ at \in Seq(K) /\ DOMAIN at = 1..Len(at) /\ Len(at) \in Nat
      /\ \A i, j \in DOMAIN at : i < j => at[i] < at[j]
      /\ \A i \in DOMAIN at : at[i] \in K /\ at[i] >= i
      /\ \A x \in K : \E i \in DOMAIN at : at[i] = x
  <2>1. K \in SUBSET (1..Len(f))
    BY <1>1
  <2> HIDE DEF K
  <2>2. Len(f) \in Nat
    BY <1>1
  <2> QED  BY <2>1, <2>2, AscendingWell, AscendingRunsAhead
<1>4. kept = [i \in DOMAIN at |-> f[at[i]]]
  BY DEF Picked
<1>5. Shifted = [i \in DOMAIN at |-> f[at[i]] - 1]
  BY <1>4 DEF Shifted, f
<1> HIDE DEF at, kept
<1> DEFINE q == [i \in 1..Len(at) |-> f[at[i]] - 1]
<1>6. \A i \in 1..Len(at) : /\ at[i] \in 1..Len(f) /\ f[at[i]] \in P /\ f[at[i]] # 1
                            /\ q[i] = f[at[i]] - 1
  BY <1>1, <1>3
<1>7. q \in Seq(Before(P)) /\ Len(q) = Len(at) /\ DOMAIN q = 1..Len(at)
  <2>1. \A i \in 1..Len(at) : q[i] \in Before(P)
    BY <1>6 DEF Before
  <2>2. q \in [1..Len(at) -> Before(P)]
    BY <2>1
  <2> HIDE DEF q
  <2> QED  BY <1>3, <2>2, IsASeq
<1> HIDE DEF q
<1>8. \A i, j \in 1..Len(q) : i < j => q[i] < q[j]
  <2> TAKE i, j \in 1..Len(q)
  <2> HAVE i < j
  <2>1. at[i] < at[j]
    BY <1>3, <1>7
  <2>2. f[at[i]] < f[at[j]] /\ f[at[i]] \in Nat /\ f[at[j]] \in Nat
    BY <1>1, <1>2, <1>6, <1>7, <2>1
  <2> QED  BY <1>6, <1>7, <2>2
<1>9. \A x \in Before(P) : \E i \in 1..Len(q) : q[i] = x
  <2> TAKE x \in Before(P)
  <2>1. PICK y \in P : y # 1 /\ x = y - 1
    BY DEF Before
  <2>2. PICK k \in DOMAIN f : f[k] = y
    BY <1>1
  <2>3. PICK i \in DOMAIN at : at[i] = k
    BY <1>3, <2>1, <2>2
  <2>4. q[i] = x
    BY <1>3, <1>6, <2>1, <2>2, <2>3
  <2> QED  BY <1>3, <1>7, <2>3, <2>4
<1>10. Before(P) \in SUBSET (1..n)
  BY DEF Before
<1>11. q = Ascending(Before(P))
  BY <1>7, <1>8, <1>9, <1>10, OneEnumeration
<1>12. q = Shifted
  BY <1>3, <1>5 DEF q
<1>13. ASSUME NEW k \in DOMAIN q PROVE k \in DOMAIN f /\ q[k] + 1 >= f[k]
  <2>1. k \in 1..Len(at) /\ at[k] >= k /\ at[k] \in 1..Len(f)
    BY <1>3, <1>6, <1>7
  <2>2. k \in DOMAIN f
    BY <1>1, <1>3, <2>1
  <2>3. f[at[k]] >= f[k] /\ f[k] \in Nat /\ f[at[k]] \in Nat
    <3>0. /\ f[k] \in Nat /\ at[k] \in DOMAIN f /\ f[at[k]] \in Nat
          /\ at[k] \in Nat /\ k \in Nat
      <4>1. \A i \in DOMAIN f : f[i] \in Nat
        BY <1>1, <1>2
      <4>2. at[k] \in DOMAIN f /\ at[k] \in Nat /\ k \in Nat
        BY <1>1, <2>1
      <4> QED  BY <2>2, <4>1, <4>2
    <3>1. CASE at[k] = k
      BY <3>0, <3>1
    <3>2. CASE at[k] # k
      <4>1. k < at[k] /\ at[k] \in DOMAIN f
        BY <2>1, <3>0, <3>2
      <4>2. f[k] < f[at[k]]
        BY <1>1, <2>2, <4>1
      <4> QED  BY <3>0, <4>2
    <3> QED  BY <3>1, <3>2
  <2>4. q[k] = f[at[k]] - 1
    BY <1>6, <2>1
  <2> QED  BY <2>2, <2>3, <2>4
<1> QED  BY <1>11, <1>12, <1>13 DEF f

\* Behind the last position there is room for one more.
LEMMA AscendingOneMore ==
  ASSUME NEW n \in Nat, NEW P \in SUBSET (1..n), NEW t \in Nat, n < t
  PROVE  Ascending(P) \o <<t>> = Ascending(P \cup {t})
<1> DEFINE f == Ascending(P)
           q == f \o <<t>>
<1>1. /\ f \in Seq(P) /\ DOMAIN f = 1..Len(f) /\ Len(f) \in Nat
      /\ \A i, j \in DOMAIN f : i < j => f[i] < f[j]
      /\ \A i \in DOMAIN f : f[i] \in P
      /\ \A x \in P : \E i \in DOMAIN f : f[i] = x
  BY AscendingWell
<1>2. \A x \in P : x \in Nat /\ x < t
  OBVIOUS
<1> HIDE DEF f
<1>3. /\ q \in Seq(P \cup {t}) /\ Len(q) = Len(f) + 1
      /\ \A i \in 1..Len(f) : q[i] = f[i]
      /\ q[Len(f) + 1] = t
  <2>1. f \in Seq(P \cup {t}) /\ <<t>> \in Seq(P \cup {t}) /\ Len(<<t>>) = 1
    BY <1>1
  <2> QED  BY <1>1, <2>1, ConcatProperties
<1> HIDE DEF q
<1>4. \A i, j \in 1..Len(q) : i < j => q[i] < q[j]
  <2> TAKE i, j \in 1..Len(q)
  <2> HAVE i < j
  <2>1. i \in 1..Len(f) /\ q[i] = f[i]
    BY <1>1, <1>3
  <2>2. CASE j = Len(f) + 1
    BY <1>1, <1>2, <1>3, <2>1, <2>2
  <2>3. CASE j # Len(f) + 1
    BY <1>1, <1>3, <2>1, <2>3
  <2> QED  BY <2>2, <2>3
<1>5. \A x \in P \cup {t} : \E i \in 1..Len(q) : q[i] = x
  <2> TAKE x \in P \cup {t}
  <2>1. CASE x = t
    BY <1>1, <1>3, <2>1
  <2>2. CASE x # t
    <3>1. PICK i \in DOMAIN f : f[i] = x
      BY <1>1, <2>2
    <3> QED  BY <1>1, <1>3, <3>1
  <2> QED  BY <2>1, <2>2
<1>6. P \cup {t} \in SUBSET (1..t)
  OBVIOUS
<1> QED  BY <1>3, <1>4, <1>5, <1>6, OneEnumeration DEF q, f
-----------------------------------------------------------------------------
(***************************************************************************)
(* The rows shown are packets of the ring, in its order.                   *)
(***************************************************************************)
Passed(f) == {i \in DOMAIN ring : Matches(f, ring[i].kind)}

LEMMA FilteredWell ==
  ASSUME CInv, filtered # None
  PROVE  /\ filtered = Ascending(Passed(active)) /\ Passed(active) \in SUBSET (1..Len(ring))
         /\ Len(ring) \in Nat /\ DOMAIN ring = 1..Len(ring)
         /\ Len(filtered) \in Nat /\ DOMAIN filtered = 1..Len(filtered)
         /\ \A i, j \in DOMAIN filtered : i < j => filtered[i] < filtered[j]
         /\ \A i \in DOMAIN filtered : filtered[i] \in 1..Len(ring)
<1>1. filtered = Ascending(Passed(active))
  BY DEF CInv, FilterInv, Indices, Passed
<1>2. /\ Passed(active) \in SUBSET (1..Len(ring)) /\ Len(ring) \in Nat
      /\ DOMAIN ring = 1..Len(ring)
  BY DEF CInv, TypeOK, Passed
<1> QED  BY <1>1, <1>2, AscendingWell

LEMMA VisibleWell ==
  ASSUME CInv
  PROVE  /\ Visible \in Seq(Packets) /\ Count \in Nat /\ DOMAIN Visible = 1..Count
         /\ filtered = None => Visible = ring
         /\ filtered # None =>
              /\ Count = Len(filtered)
              /\ \A i \in 1..Count : Visible[i] = ring[filtered[i]]
         /\ \A i \in 1..Count : Visible[i] # None /\ Visible[i] \in Packets
         /\ Selected # None <=> selected < Count
<1> USE ViewAssumption
<1>1. \A p \in Packets : p # None
  BY DEF Packets, Numbers
<1>2. ring \in Seq(Packets) /\ selected \in Nat
  BY DEF CInv, TypeOK
<1>3. /\ Visible \in Seq(Packets) /\ Count \in Nat /\ DOMAIN Visible = 1..Count
      /\ filtered = None => Visible = ring
      /\ filtered # None =>
           /\ Count = Len(filtered)
           /\ \A i \in 1..Count : Visible[i] = ring[filtered[i]]
  <2>1. CASE filtered = None
    BY <1>2, <2>1 DEF Visible, Count
  <2>2. CASE filtered # None
    <3>1. /\ Len(filtered) \in Nat /\ DOMAIN filtered = 1..Len(filtered)
          /\ \A i \in 1..Len(filtered) : filtered[i] \in DOMAIN ring
      BY <2>2, FilteredWell
    <3> DEFINE v == [i \in 1..Len(filtered) |-> ring[filtered[i]]]
    <3>2. Visible = v
      BY <2>2, <3>1 DEF Visible
    <3>3. \A i \in 1..Len(filtered) : ring[filtered[i]] \in Packets
      BY <1>2, <3>1
    <3>4. v \in [1..Len(filtered) -> Packets]
      BY <3>3
    <3>5. /\ v \in Seq(Packets) /\ Len(v) = Len(filtered)
          /\ \A i \in 1..Len(filtered) : v[i] = ring[filtered[i]]
      BY <3>1, <3>4, IsASeq
    <3> HIDE DEF v
    <3> QED  BY <2>2, <3>1, <3>2, <3>5 DEF Count
  <2> QED  BY <2>1, <2>2
<1>4. \A i \in 1..Count : Visible[i] # None /\ Visible[i] \in Packets
  BY <1>1, <1>3
<1>5. Selected # None <=> selected < Count
  <2>1. CASE selected < Count
    <3>1. selected + 1 \in 1..Count
      BY <1>2, <1>3, <2>1
    <3> QED  BY <1>4, <2>1, <3>1 DEF Selected
  <2>2. CASE ~(selected < Count)
    BY <2>2 DEF Selected
  <2> QED  BY <2>1, <2>2
<1> QED  BY <1>3, <1>4, <1>5

-----------------------------------------------------------------------------
LEMMA Bounds ==
  /\ RingCap \in Nat /\ RingCap >= 1 /\ Page \in Nat /\ Near \in Nat
  /\ MaxPackets \in Nat /\ MaxInput \in Nat
BY ViewAssumption

\* One packet goes from the channel to the ring, whose oldest may have to go.
Moves ==
  /\ Head(chan) \in Packets /\ Head(chan) = chan[1]
  /\ Len(chan) \in Nat /\ Len(chan) >= 1
  /\ chan' \in Seq(Packets) /\ Len(chan') = Len(chan) - 1
  /\ DOMAIN chan' = 1..Len(chan) - 1
  /\ \A i \in 1..Len(chan) - 1 : chan'[i] = chan[i + 1]
  /\ Len(ring) \in Nat /\ DOMAIN ring = 1..Len(ring)
  /\ ring' \in Seq(Packets) /\ Len(ring') \in Nat /\ DOMAIN ring' = 1..Len(ring')
  /\ Len(ring') >= 1 /\ ring'[Len(ring')] = Head(chan)
MovesUp ==
  /\ Len(ring) < RingCap /\ Len(ring') = Len(ring) + 1
  /\ \A i \in 1..Len(ring) : ring'[i] = ring[i]
MovesOut ==
  /\ Len(ring) = RingCap /\ Len(ring') = RingCap
  /\ \A i \in 1..RingCap - 1 : ring'[i] = ring[i + 1]

LEMMA TakeMoves ==
  ASSUME CInv, Take
  PROVE  Moves /\ (~Evicts => MovesUp) /\ (Evicts => MovesOut)
<1> USE Bounds
<1> DEFINE p == Head(chan)
<1>0. /\ chan \in Seq(Packets) /\ ring \in Seq(Packets) /\ Len(chan) \in Nat
      /\ Len(ring) \in Nat /\ Len(ring) <= RingCap
  BY DEF CInv, TypeOK
<1>1. ring' = Pushed(p) /\ chan' = Tail(chan) /\ chan # << >>
  BY DEF Take
<1>2. Len(chan) >= 1
  BY <1>0, <1>1, EmptySeq
<1>3. /\ p \in Packets /\ p = chan[1]
      /\ chan' \in Seq(Packets) /\ Len(chan') = Len(chan) - 1
      /\ \A i \in 1..Len(chan) - 1 : chan'[i] = chan[i + 1]
  BY <1>0, <1>1, <1>2, HeadTailProperties
<1> HIDE DEF p
<1>4. CASE ~Evicts
  <2>1. /\ ring' \in Seq(Packets) /\ Len(ring') = Len(ring) + 1
        /\ \A i \in 1..Len(ring) : ring'[i] = ring[i]
        /\ ring'[Len(ring) + 1] = p
    BY <1>0, <1>1, <1>3, <1>4, AppendProperties DEF Pushed
  <2>2. Len(ring) < RingCap
    BY <1>0, <1>4 DEF Evicts
  <2>3. DOMAIN chan' = 1..Len(chan) - 1 /\ DOMAIN ring = 1..Len(ring)
    BY <1>0, <1>3
  <2>4. Len(ring') \in Nat /\ DOMAIN ring' = 1..Len(ring') /\ Len(ring') >= 1
    BY <1>0, <2>1
  <2> QED  BY <1>0, <1>2, <1>3, <1>4, <2>1, <2>2, <2>3, <2>4 DEF p, Moves, MovesUp
<1>5. CASE Evicts
  <2> DEFINE t == Tail(ring)
  <2>1. Len(ring) = RingCap /\ ring # << >>
    BY <1>0, <1>5, EmptySeq DEF Evicts
  <2>2. /\ t \in Seq(Packets) /\ Len(t) = RingCap - 1
        /\ \A i \in 1..RingCap - 1 : t[i] = ring[i + 1]
    BY <1>0, <2>1, HeadTailProperties
  <2>3. ring' = Append(t, p)
    BY <1>1, <1>5 DEF Pushed
  <2> HIDE DEF t
  <2>4. /\ ring' \in Seq(Packets) /\ Len(ring') = RingCap
        /\ \A i \in 1..RingCap - 1 : ring'[i] = ring[i + 1]
        /\ ring'[RingCap] = p
    BY <1>3, <2>2, <2>3, AppendProperties
  <2>5. DOMAIN chan' = 1..Len(chan) - 1 /\ DOMAIN ring = 1..Len(ring)
    BY <1>0, <1>3
  <2>6. Len(ring') \in Nat /\ DOMAIN ring' = 1..Len(ring') /\ Len(ring') >= 1
    BY <2>4
  <2> QED  BY <1>0, <1>2, <1>3, <1>5, <2>1, <2>4, <2>5, <2>6 DEF p, Moves, MovesOut
<1> QED  BY <1>4, <1>5

\* The ring and the channel, packet by packet.
LEMMA RingKept == CInv /\ Next => RingInv'
<1> USE Bounds
<1> SUFFICES ASSUME CInv, Next PROVE RingInv'
  OBVIOUS
<1>0. /\ chan \in Seq(Packets) /\ ring \in Seq(Packets) /\ received \in Nat
      /\ Len(chan) \in Nat /\ Len(ring) \in Nat
      /\ DOMAIN chan = 1..Len(chan) /\ DOMAIN ring = 1..Len(ring)
  BY DEF CInv, TypeOK
<1>00. /\ received + Len(chan) = sent /\ sent <= MaxPackets /\ sent \in Nat
       /\ Len(ring) = IF received <= RingCap THEN received ELSE RingCap
       /\ \A i \in 1..Len(ring) : ring[i].number = received - Len(ring) + i - 1
       /\ \A i \in 1..Len(chan) : chan[i].number = received + i - 1
  <2>1. RingInv
    BY DEF CInv
  <2>2. sent \in Nat
    BY <1>0, <2>1 DEF RingInv
  <2> QED  BY <1>0, <2>1, <2>2 DEF RingInv
<1>1. ASSUME NEW k \in Kinds, Arrive(k) PROVE RingInv'
  <2> DEFINE p == [number |-> sent, kind |-> k]
  <2>1. /\ chan' = Append(chan, p) /\ sent' = sent + 1 /\ sent < MaxPackets
        /\ UNCHANGED <<ring, received>>
    BY <1>1 DEF Arrive
  <2>2. p \in Packets
    BY <1>0, <2>1 DEF CInv, RingInv, Packets, Numbers
  <2> HIDE DEF p
  <2>3. /\ Len(chan') = Len(chan) + 1 /\ DOMAIN chan' = 1..Len(chan) + 1
        /\ \A i \in 1..Len(chan) : chan'[i] = chan[i]
        /\ chan'[Len(chan) + 1] = p
    BY <1>0, <2>1, <2>2, AppendProperties
  <2>4. p.number = sent
    BY DEF p
  <2>5. \A i \in DOMAIN chan' : chan'[i].number = received + i - 1
    <3> TAKE i \in DOMAIN chan'
    <3>1. CASE i = Len(chan) + 1
      BY <1>0, <2>3, <2>4, <3>1 DEF CInv, RingInv
    <3>2. CASE i # Len(chan) + 1
      BY <1>0, <2>3, <3>2 DEF CInv, RingInv
    <3> QED  BY <3>1, <3>2
  <2>6. received' + Len(chan') = sent' /\ sent' <= MaxPackets
    BY <1>0, <1>00, <2>1, <2>3
  <2>7. /\ Len(ring') = IF received' <= RingCap THEN received' ELSE RingCap
        /\ \A i \in DOMAIN ring' : ring'[i].number = received' - Len(ring') + i - 1
    BY <1>0, <1>00, <2>1
  <2> QED  BY <2>1, <2>5, <2>6, <2>7 DEF RingInv
<1>2. CASE Take
  <2>0. Moves /\ (~Evicts => MovesUp) /\ (Evicts => MovesOut)
    BY <1>2, TakeMoves
  <2>1. received' = received + 1 /\ sent' = sent
    BY <1>2 DEF Take
  <2>2. /\ Head(chan) = chan[1] /\ Len(chan) >= 1 /\ Len(chan') = Len(chan) - 1
        /\ DOMAIN chan' = 1..Len(chan) - 1
        /\ \A i \in 1..Len(chan) - 1 : chan'[i] = chan[i + 1]
        /\ Len(ring') \in Nat /\ DOMAIN ring' = 1..Len(ring')
        /\ ring'[Len(ring')] = Head(chan)
    BY <2>0 DEF Moves
  <2>3. Head(chan).number = received
    <3>1. 1 \in 1..Len(chan)
      BY <1>0, <2>2
    <3>2. chan[1].number = received + 1 - 1
      BY <1>00, <3>1
    <3> QED  BY <1>0, <2>2, <3>2
  <2>4. \A i \in DOMAIN chan' : chan'[i].number = received' + i - 1
    <3> TAKE i \in DOMAIN chan'
    <3>1. i + 1 \in 1..Len(chan) /\ i \in 1..Len(chan) - 1
      BY <1>0, <2>2
    <3>2. chan'[i].number = received + (i + 1) - 1
      BY <1>00, <2>2, <3>1
    <3> QED  BY <1>0, <2>1, <3>1, <3>2
  <2>5. Len(ring') = IF received' <= RingCap THEN received' ELSE RingCap
    <3>1. CASE Evicts
      <4>1. Len(ring) = RingCap /\ Len(ring') = RingCap
        BY <2>0, <3>1 DEF MovesOut
      <4> QED  BY <1>0, <1>00, <2>1, <4>1
    <3>2. CASE ~Evicts
      <4>1. Len(ring) < RingCap /\ Len(ring') = Len(ring) + 1
        BY <2>0, <3>2 DEF MovesUp
      <4> QED  BY <1>0, <1>00, <2>1, <4>1
    <3> QED  BY <3>1, <3>2
  <2>6. \A i \in DOMAIN ring' : ring'[i].number = received' - Len(ring') + i - 1
    <3> TAKE i \in DOMAIN ring'
    <3>0. i \in 1..Len(ring')
      BY <2>2
    <3>1. CASE i = Len(ring')
      BY <1>0, <2>1, <2>2, <2>3, <3>1
    <3>2. CASE i # Len(ring') /\ Evicts
      <4>0. /\ Len(ring) = RingCap /\ Len(ring') = RingCap
            /\ \A k \in 1..RingCap - 1 : ring'[k] = ring[k + 1]
        BY <2>0, <3>2 DEF MovesOut
      <4>1. i + 1 \in 1..Len(ring) /\ i \in 1..RingCap - 1
        BY <3>0, <3>2, <4>0
      <4>2. ring'[i].number = received - RingCap + (i + 1) - 1
        BY <1>00, <4>0, <4>1
      <4> QED  BY <1>0, <2>1, <4>0, <4>1, <4>2
    <3>3. CASE i # Len(ring') /\ ~Evicts
      <4>0. /\ Len(ring') = Len(ring) + 1
            /\ \A k \in 1..Len(ring) : ring'[k] = ring[k]
        BY <2>0, <3>3 DEF MovesUp
      <4>1. i \in 1..Len(ring)
        BY <1>0, <3>0, <3>3, <4>0
      <4>2. ring'[i].number = received - Len(ring) + i - 1
        BY <1>00, <4>0, <4>1
      <4> QED  BY <1>0, <2>1, <4>0, <4>1, <4>2
    <3> QED  BY <3>1, <3>2, <3>3
  <2>7. received' + Len(chan') = sent' /\ sent' <= MaxPackets
    <3>1. received + Len(chan) = sent /\ sent <= MaxPackets
      BY <1>00
    <3>2. Len(chan') = Len(chan) - 1
      BY <2>2
    <3> QED  BY <1>0, <2>1, <3>1, <3>2
  <2> QED  BY <2>4, <2>5, <2>6, <2>7 DEF RingInv
<1>3. CASE UNCHANGED <<chan, ring, received, sent>>
  BY <1>3 DEF CInv, RingInv
<1> QED
  BY <1>1, <1>2, <1>3
  DEF Next, NoKey, DrawPanics, Quit, StartSearch, Toggle, Move, Close, Follow, Bookmark,
      Pause, NextMatch, StartFilter, Backspace, Shift, Leave, Clear, Apply, Type, Search,
      EndSearch, Drained, Ended, Read, packets, vars
-----------------------------------------------------------------------------
\* The indices after a packet are those of a rebuild, and a row moves to a later
\* packet if at all.
LEMMA TakeFilters ==
  ASSUME CInv, Take, filtered # None
  PROVE  /\ filtered' = Indices(active)'
         /\ filtered' # None
         /\ ~Evicts => /\ Len(filtered') >= Len(filtered)
                       /\ \A k \in DOMAIN filtered : filtered'[k] = filtered[k]
         /\ Evicts => \A k \in DOMAIN filtered \cap DOMAIN filtered' :
                         filtered'[k] + 1 >= filtered[k]
<1> USE Bounds
<1> DEFINE p == Head(chan)
           P == Passed(active)
           N == Len(ring')
           S == IF Evicts THEN Before(P) ELSE P
           L == IF Passes(p) THEN <<N>> ELSE << >>
<1>0. Moves /\ (~Evicts => MovesUp) /\ (Evicts => MovesOut)
  BY TakeMoves
<1>1. /\ filtered = Ascending(P) /\ P \in SUBSET (1..Len(ring))
      /\ Len(filtered) \in Nat /\ DOMAIN filtered = 1..Len(filtered)
      /\ \A i \in DOMAIN filtered : filtered[i] \in 1..Len(ring)
  BY FilteredWell
<1>2. active # None
  BY DEF CInv, FilterInv
<1>3. N \in Nat /\ N >= 1 /\ Len(ring) \in Nat
  BY <1>0 DEF Moves
<1>4. S \in SUBSET (1..N - 1)
  <2>1. CASE Evicts
    <3>1. Len(ring) = N
      BY <1>0, <2>1 DEF MovesOut
    <3> QED  BY <1>1, <1>3, <2>1, <3>1 DEF Before
  <2>2. CASE ~Evicts
    <3>0. N = Len(ring) + 1
      BY <1>0, <2>2 DEF MovesUp
    <3>1. Len(ring) = N - 1
      BY <1>3, <3>0
    <3> QED  BY <1>1, <2>2, <3>1
  <2> QED  BY <2>1, <2>2
<1>5. Shifted = Ascending(S)
  BY <1>1, <1>3, ShiftedWell DEF Shifted
<1>6. filtered' = Shifted \o L
  BY DEF Take
<1>7. {i \in DOMAIN ring' : Matches(active, ring'[i].kind)}
        = IF Passes(p) THEN S \cup {N} ELSE S
  <2>1. \A i \in 1..N - 1 : Matches(active, ring'[i].kind) <=> i \in S
    <3> TAKE i \in 1..N - 1
    <3>1. CASE Evicts
      <4>1. N = RingCap /\ Len(ring) = RingCap /\ ring'[i] = ring[i + 1]
        BY <1>0, <3>1 DEF MovesOut
      <4>2. i + 1 \in DOMAIN ring /\ i + 1 # 1
        BY <4>1 DEF CInv, TypeOK
      <4>3. i \in S <=> i + 1 \in P
        BY <1>1, <3>1 DEF Before
      <4> QED  BY <4>1, <4>2, <4>3 DEF Passed
    <3>2. CASE ~Evicts
      <4>1. i \in 1..Len(ring) /\ ring'[i] = ring[i]
        <5>1. /\ N = Len(ring) + 1
              /\ \A k \in 1..Len(ring) : ring'[k] = ring[k]
          BY <1>0, <3>2 DEF MovesUp
        <5> QED  BY <1>3, <5>1
      <4>2. i \in DOMAIN ring
        BY <4>1 DEF CInv, TypeOK
      <4> QED  BY <3>2, <4>1, <4>2 DEF Passed
    <3> QED  BY <3>1, <3>2
  <2>2. Matches(active, ring'[N].kind) <=> Passes(p)
    BY <1>0, <1>2 DEF Moves, Passes
  <2>3. DOMAIN ring' = 1..N
    BY <1>0 DEF Moves
  <2> HIDE DEF S, p, N
  <2>5. \A i : i \in 1..N <=> i \in 1..N - 1 \/ i = N
    BY <1>3
  <2>6. \A i : i \in S => i \in 1..N - 1
    BY <1>4
  <2>7. N \notin 1..N - 1
    BY <1>3
  <2>4. ASSUME NEW i
        PROVE  i \in DOMAIN ring' /\ Matches(active, ring'[i].kind)
                 <=> i \in (IF Passes(p) THEN S \cup {N} ELSE S)
    <3>1. CASE i \in 1..N - 1
      BY <2>1, <2>3, <2>5, <2>7, <3>1
    <3>2. CASE i = N
      BY <2>2, <2>3, <2>5, <2>6, <2>7, <3>2
    <3>3. CASE i \notin 1..N
      BY <2>3, <2>5, <2>6, <3>3
    <3> QED  BY <2>5, <3>1, <3>2, <3>3
  <2> QED  BY <2>4
<1> HIDE DEF S, p, N
<1>8. /\ Shifted \in Seq(Nat) /\ Len(Shifted) \in Nat /\ DOMAIN Shifted = 1..Len(Shifted)
  <2>1. S \subseteq Nat
    BY <1>3, <1>4
  <2>2. N - 1 \in Nat
    BY <1>3
  <2>3. /\ Ascending(S) \in Seq(S) /\ Len(Ascending(S)) \in Nat
        /\ DOMAIN Ascending(S) = 1..Len(Ascending(S))
    BY <1>4, <2>2, AscendingWell
  <2> QED  BY <1>5, <2>1, <2>3, SeqMonotonic
<1>9. filtered' = Ascending(IF Passes(p) THEN S \cup {N} ELSE S)
  <2>1. CASE Passes(p)
    <3>1. N - 1 \in Nat /\ N - 1 < N
      BY <1>3
    <3>2. Ascending(S) \o <<N>> = Ascending(S \cup {N})
      BY <1>3, <1>4, <3>1, AscendingOneMore
    <3> QED  BY <1>5, <1>6, <2>1, <3>2
  <2>2. CASE ~Passes(p)
    BY <1>5, <1>6, <1>8, <2>2, ConcatEmptySeq
  <2> QED  BY <2>1, <2>2
<1>10. active' = active
  BY DEF Take
<1>11. filtered' = Indices(active)'
  BY <1>7, <1>9, <1>10 DEF Indices
<1>12. /\ filtered' \in Seq(Nat) /\ Len(filtered') = Len(Shifted) + Len(L)
       /\ \A k \in 1..Len(Shifted) : filtered'[k] = Shifted[k]
       /\ Len(L) \in {0, 1} /\ (Len(L) = 1 => filtered'[Len(Shifted) + 1] = N)
  <2>1. L \in Seq(Nat) /\ Len(L) \in {0, 1} /\ (Len(L) = 1 => L[1] = N)
    BY <1>3
  <2> HIDE DEF L
  <2> QED  BY <1>6, <1>8, <2>1, ConcatProperties
<1> HIDE DEF L
<1>13. filtered' # None
  BY <1>12, ViewAssumption
<1>14. ASSUME ~Evicts
       PROVE  /\ Len(filtered') >= Len(filtered)
              /\ \A k \in DOMAIN filtered : filtered'[k] = filtered[k]
  BY <1>1, <1>8, <1>12, <1>14 DEF Shifted
<1>15. ASSUME Evicts, NEW k \in DOMAIN filtered \cap DOMAIN filtered'
       PROVE  filtered'[k] + 1 >= filtered[k]
  <2>1. CASE k \in DOMAIN Shifted
    BY <1>1, <1>3, <1>8, <1>12, <1>15, <2>1, ShiftedWell
  <2>2. CASE k \notin DOMAIN Shifted
    <3>0. k \in 1..Len(filtered') /\ k \notin 1..Len(Shifted)
      BY <1>8, <1>12, <1>15, <2>2
    <3>01. Len(filtered') = Len(Shifted) + Len(L) /\ Len(Shifted) \in Nat
      BY <1>8, <1>12
    <3>02. Len(L) = 1 /\ k = Len(Shifted) + 1
      <4>1. CASE Len(L) = 1
        BY <3>0, <3>01, <4>1
      <4>2. CASE Len(L) = 0
        BY <3>0, <3>01, <4>2
      <4> QED  BY <1>12, <4>1, <4>2
    <3>1. filtered'[k] = N
      BY <1>12, <3>02
    <3>2. filtered[k] \in 1..N
      <4>1. Len(ring) = N
        BY <1>0, <1>15 DEF MovesOut, N
      <4> QED  BY <1>1, <1>15, <4>1
    <3> QED  BY <1>3, <3>1, <3>2
  <2> QED  BY <2>1, <2>2
<1> QED  BY <1>11, <1>13, <1>14, <1>15
-----------------------------------------------------------------------------
\* A rebuild of the indices.
LEMMA IndicesWell ==
  ASSUME TypeOK, NEW f
  PROVE  /\ Indices(f) \in Seq(1..RingCap) /\ Indices(f) \in Seq(Nat)
         /\ Indices(f) # None
<1> USE Bounds
<1>1. /\ Passed(f) \in SUBSET (1..Len(ring)) /\ Len(ring) \in Nat
      /\ Passed(f) \subseteq 1..RingCap /\ Passed(f) \subseteq Nat
  BY DEF TypeOK, Passed
<1>2. Indices(f) \in Seq(Passed(f))
  BY <1>1, AscendingWell DEF Indices, Passed
<1>3. Indices(f) \in Seq(1..RingCap) /\ Indices(f) \in Seq(Nat)
  BY <1>1, <1>2, SeqMonotonic
<1> QED  BY <1>3, ViewAssumption

LEMMA PickedWell ==
  ASSUME NEW S, NEW q \in Seq(S), NEW P \in SUBSET DOMAIN q
  PROVE  Picked(q, P) \in Seq(S)
<1>1. P \in SUBSET (1..Len(q)) /\ Len(q) \in Nat
  OBVIOUS
<1> DEFINE at == Ascending(P)
<1>2. Len(at) \in Nat /\ DOMAIN at = 1..Len(at) /\ \A i \in DOMAIN at : at[i] \in P
  BY <1>1, AscendingWell
<1>3. Picked(q, P) = [i \in DOMAIN at |-> q[at[i]]]
  BY DEF Picked
<1> HIDE DEF at
<1>4. Picked(q, P) \in [1..Len(at) -> S]
  BY <1>1, <1>2, <1>3
<1> QED  BY <1>2, <1>4, IsASeq

LEMMA FilterKept == CInv /\ Next => FilterInv'
<1> SUFFICES ASSUME CInv, Next PROVE FilterInv'
  OBVIOUS
<1>0. TypeOK /\ FilterInv
  BY DEF CInv
<1>1. CASE Take
  <2>1. active' = active
    BY <1>1 DEF Take
  <2>2. CASE filtered = None
    BY <1>0, <1>1, <2>1, <2>2 DEF Take, FilterInv
  <2>3. CASE filtered # None
    <3>1. filtered' = Indices(active)' /\ filtered' # None
      BY <1>1, <2>3, TakeFilters
    <3> QED  BY <1>0, <2>1, <2>3, <3>1 DEF FilterInv
  <2> QED  BY <2>2, <2>3
<1>2. CASE Clear
  BY <1>2 DEF Clear, FilterInv
<1>3. CASE Apply /\ Parse(input) # None
  <2>1. /\ active' = Parse(input) /\ filtered' = Indices(Parse(input)) /\ ring' = ring
    BY <1>3 DEF Apply, Read, packets
  <2>2. filtered' # None
    BY <1>0, <2>1, IndicesWell
  <2>3. Indices(active)' = Indices(Parse(input))
    BY <2>1 DEF Indices
  <2> QED  BY <1>3, <2>1, <2>2, <2>3 DEF FilterInv
<1>4. CASE UNCHANGED <<ring, filtered, active>>
  BY <1>0, <1>4 DEF FilterInv, Indices
<1> QED
  BY <1>1, <1>2, <1>3, <1>4
  DEF Next, NoKey, DrawPanics, Quit, StartSearch, Toggle, Move, Close, Follow, Bookmark,
      Pause, NextMatch, StartFilter, Backspace, Shift, Leave, Apply, Type, Search,
      EndSearch, Drained, Ended, Read, Arrive, packets, filter, vars
-----------------------------------------------------------------------------
(***************************************************************************)
(* The bytes of a text, character by character.                            *)
(***************************************************************************)
BytesOf(q, i) == UNION {{j} \X (1..Width(q[j])) : j \in 1..i}

LEMMA BytesGrow ==
  ASSUME NEW q \in Seq(Chars), NEW i \in Nat, i + 1 <= Len(q), IsFiniteSet(BytesOf(q, i))
  PROVE  /\ IsFiniteSet(BytesOf(q, i + 1))
         /\ Cardinality(BytesOf(q, i + 1)) = Cardinality(BytesOf(q, i)) + Width(q[i + 1])
<1> DEFINE B == BytesOf(q, i)
           w == Width(q[i + 1])
           D == {i + 1} \X (1..w)
<1>1. w \in Nat \ {0}
  <2>1. q[i + 1] \in Chars
    OBVIOUS
  <2> QED  BY <2>1, ViewAssumption
<1>2. BytesOf(q, i + 1) = B \cup D
  <2>1. \A j : j \in 1..i + 1 <=> j \in 1..i \/ j = i + 1
    OBVIOUS
  <2> QED  BY <2>1 DEF BytesOf
<1>3. B \cap D = {}
  BY DEF BytesOf
<1>4. IsFiniteSet(D) /\ Cardinality(D) = w
  <2> HIDE DEF w
  <2>1. IsFiniteSet({i + 1}) /\ Cardinality({i + 1}) = 1
    BY FS_Singleton
  <2>2. IsFiniteSet(1..w) /\ Cardinality(1..w) = w
    <3>1. w \in Int /\ 1 \in Int /\ ~(1 > w) /\ w - 1 + 1 = w
      BY <1>1
    <3> QED  BY <3>1, FS_Interval
  <2>3. IsFiniteSet(D) /\ Cardinality(D) = Cardinality({i + 1}) * Cardinality(1..w)
    BY <2>1, <2>2, FS_Product
  <2> QED  BY <1>1, <2>1, <2>2, <2>3
<1> HIDE DEF B, D, w
<1>5. /\ IsFiniteSet(B \cup D)
      /\ Cardinality(B \cup D) = Cardinality(B) + Cardinality(D) - Cardinality(B \cap D)
  BY <1>4, FS_Union DEF B
<1>6. Cardinality(B \cap D) = 0 /\ Cardinality(B) \in Nat
  <2>1. IsFiniteSet(B)
    BY DEF B
  <2>2. Cardinality(B) \in Nat
    BY <2>1, FS_CardinalityType
  <2>3. Cardinality(B \cap D) = 0
    BY <1>3, FS_EmptySet
  <2> QED  BY <2>2, <2>3
<1>7. Cardinality(B \cup D) = Cardinality(B) + w
  BY <1>1, <1>4, <1>5, <1>6
<1>8. BytesOf(q, i + 1) = B \cup D
  BY <1>2
<1>9. IsFiniteSet(BytesOf(q, i + 1)) /\ Cardinality(BytesOf(q, i + 1)) = Cardinality(B) + w
  BY <1>5, <1>7, <1>8
<1> QED  BY <1>9 DEF B, w

\* A text of narrow characters has as many bytes as characters.
LEMMA BytesFinite ==
  ASSUME NEW q \in Seq(Chars)
  PROVE  \A i \in 0..Len(q) :
           /\ IsFiniteSet(BytesOf(q, i)) /\ Cardinality(BytesOf(q, i)) \in Nat
           /\ (\A j \in 1..Len(q) : Width(q[j]) = 1) => Cardinality(BytesOf(q, i)) = i
<1> DEFINE T == {i \in Nat : i <= Len(q) =>
                   /\ IsFiniteSet(BytesOf(q, i))
                   /\ (\A j \in 1..Len(q) : Width(q[j]) = 1) => Cardinality(BytesOf(q, i)) = i}
<1>1. 0 \in T
  <2>1. BytesOf(q, 0) = {}
    BY DEF BytesOf
  <2> QED  BY <2>1, FS_EmptySet
<1>2. ASSUME NEW i \in Nat, i \in T PROVE i + 1 \in T
  <2> SUFFICES ASSUME i + 1 <= Len(q)
               PROVE  /\ IsFiniteSet(BytesOf(q, i + 1))
                      /\ (\A j \in 1..Len(q) : Width(q[j]) = 1)
                           => Cardinality(BytesOf(q, i + 1)) = i + 1
    OBVIOUS
  <2>1. Len(q) \in Nat /\ i <= Len(q) /\ i + 1 \in 1..Len(q)
    OBVIOUS
  <2>2. /\ IsFiniteSet(BytesOf(q, i))
        /\ (\A j \in 1..Len(q) : Width(q[j]) = 1) => Cardinality(BytesOf(q, i)) = i
    BY <1>2, <2>1
  <2> HIDE DEF T
  <2>3. /\ IsFiniteSet(BytesOf(q, i + 1))
        /\ Cardinality(BytesOf(q, i + 1)) = Cardinality(BytesOf(q, i)) + Width(q[i + 1])
    BY <2>2, BytesGrow
  <2> QED  BY <2>1, <2>2, <2>3
<1> HIDE DEF T
<1>3. Nat \subseteq T
  BY <1>1, <1>2, SetInduction
<1>4. ASSUME NEW i \in 0..Len(q)
      PROVE  /\ IsFiniteSet(BytesOf(q, i)) /\ Cardinality(BytesOf(q, i)) \in Nat
             /\ (\A j \in 1..Len(q) : Width(q[j]) = 1) => Cardinality(BytesOf(q, i)) = i
  <2>1. i \in T /\ i <= Len(q)
    BY <1>3
  <2>2. /\ IsFiniteSet(BytesOf(q, i))
        /\ (\A j \in 1..Len(q) : Width(q[j]) = 1) => Cardinality(BytesOf(q, i)) = i
    BY <2>1 DEF T
  <2> QED  BY <2>2, FS_CardinalityType
<1> QED  BY <1>4

LEMMA BytesMonotone ==
  ASSUME NEW q \in Seq(Chars), NEW i \in 0..Len(q)
  PROVE  Cardinality(BytesOf(q, i)) <= Cardinality(BytesOf(q, Len(q)))
<1>1. BytesOf(q, i) \subseteq BytesOf(q, Len(q))
  BY DEF BytesOf
<1>2. IsFiniteSet(BytesOf(q, Len(q)))
  <2>1. Len(q) \in 0..Len(q)
    OBVIOUS
  <2> QED  BY <2>1, BytesFinite
<1> QED  BY <1>1, <1>2, FS_Subset

LEMMA BytesPrefix ==
  ASSUME NEW q, NEW r, NEW i \in Nat, \A j \in 1..i : q[j] = r[j]
  PROVE  BytesOf(q, i) = BytesOf(r, i)
BY DEF BytesOf

\* A character that is typed makes the bytes before the cursor one more at least,
\* and one that is removed leaves those before it.
LEMMA TypedGrows ==
  ASSUME NEW q \in Seq(Chars), NEW k \in 0..Len(q), NEW c \in Chars
  PROVE  LET r == InsertAt(q, k + 1, c)
         IN  /\ r \in Seq(Chars) /\ Len(r) = Len(q) + 1
             /\ Cardinality(BytesOf(q, k)) + 1 <= Cardinality(BytesOf(r, Len(r)))
<1> DEFINE u == SubSeq(q, 1, k)
           v == SubSeq(q, k + 1, Len(q))
           t == u \o <<c>>
           r == t \o v
<1>0. Len(q) \in Nat /\ k \in Nat /\ k <= Len(q) /\ \A i \in 1..Len(q) : q[i] \in Chars
  OBVIOUS
<1>1. u \in Seq(Chars) /\ Len(u) = k /\ \A i \in 1..k : u[i] = q[i]
  <2>1. \A i \in 1..k : q[i] \in Chars
    BY <1>0
  <2> QED  BY <1>0, <2>1, SubSeqProperties
<1>2. v \in Seq(Chars) /\ Len(v) = Len(q) - k
  <2>1. \A i \in k + 1..Len(q) : q[i] \in Chars
    BY <1>0
  <2> QED  BY <1>0, <2>1, SubSeqProperties
<1>3. r = InsertAt(q, k + 1, c)
  <2>1. SubSeq(q, 1, (k + 1) - 1) = u
    <3>1. (k + 1) - 1 = k
      BY <1>0
    <3> QED  BY <3>1
  <2>2. InsertAt(q, k + 1, c) = SubSeq(q, 1, (k + 1) - 1) \o <<c>> \o SubSeq(q, k + 1, Len(q))
    BY DEF InsertAt
  <2>3. InsertAt(q, k + 1, c) = u \o <<c>> \o v
    <3> HIDE DEF u
    <3> QED  BY ONLY <2>1, <2>2, Zenon
  <2> QED  BY <2>3
<1> HIDE DEF u, v
<1>4. /\ t \in Seq(Chars) /\ Len(t) = k + 1 /\ t[k + 1] = c
      /\ \A i \in 1..k : t[i] = q[i]
  <2>1. <<c>> \in Seq(Chars) /\ Len(<<c>>) = 1 /\ <<c>>[1] = c
    OBVIOUS
  <2> DEFINE o == <<c>>
  <2>2. o \in Seq(Chars) /\ Len(o) = 1 /\ o[1] = c
    BY <2>1
  <2> HIDE DEF o
  <2>3. u \o o \in Seq(Chars) /\ Len(u \o o) = Len(u) + Len(o)
    BY <1>1, <2>2, ConcatProperties
  <2>4. \A i \in 1..Len(u) + Len(o) : (u \o o)[i] = IF i <= Len(u) THEN u[i] ELSE o[i - Len(u)]
    BY <1>1, <2>2, ConcatProperties
  <2>5. t = u \o o
    BY DEF o
  <2> HIDE DEF t
  <2>6. t \in Seq(Chars) /\ Len(t) = k + 1
    BY <1>1, <2>2, <2>3, <2>5
  <2>7. \A i \in 1..k + 1 : t[i] = IF i <= k THEN u[i] ELSE o[i - k]
    BY <1>1, <2>2, <2>4, <2>5
  <2>8. k + 1 \in 1..k + 1 /\ ~(k + 1 <= k) /\ (k + 1) - k = 1
    BY <1>0
  <2>9. t[k + 1] = c
    BY <2>2, <2>7, <2>8
  <2>10. \A i \in 1..k : t[i] = q[i]
    BY <1>0, <1>1, <2>7
  <2> QED  BY <2>6, <2>9, <2>10
<1> HIDE DEF t
<1>5. /\ r \in Seq(Chars) /\ Len(r) = Len(q) + 1
      /\ \A i \in 1..k + 1 : r[i] = t[i]
  <2>1. r \in Seq(Chars) /\ Len(r) = Len(t) + Len(v)
    BY <1>2, <1>4, ConcatProperties
  <2>2. \A i \in 1..Len(t) + Len(v) : r[i] = IF i <= Len(t) THEN t[i] ELSE v[i - Len(t)]
    BY <1>2, <1>4, ConcatProperties
  <2> HIDE DEF r
  <2>3. Len(r) = Len(q) + 1
    BY <1>0, <1>2, <1>4, <2>1
  <2>4. ASSUME NEW i \in 1..k + 1 PROVE r[i] = t[i]
    <3>1. i \in 1..Len(t) + Len(v) /\ i <= Len(t)
      BY <1>0, <1>2, <1>4
    <3> QED  BY <2>2, <3>1
  <2> QED  BY <2>1, <2>3, <2>4
<1> HIDE DEF r
<1>6. BytesOf(r, k) = BytesOf(q, k)
  BY <1>0, <1>4, <1>5, BytesPrefix
<1>7. Cardinality(BytesOf(r, k + 1)) = Cardinality(BytesOf(r, k)) + Width(r[k + 1])
  <2>1. k \in 0..Len(r) /\ k + 1 <= Len(r)
    BY <1>0, <1>5
  <2>2. IsFiniteSet(BytesOf(r, k))
    BY <1>5, <2>1, BytesFinite
  <2> QED  BY <1>0, <1>5, <2>1, <2>2, BytesGrow
<1>8. Width(r[k + 1]) >= 1 /\ Width(r[k + 1]) \in Nat
  <2>1. r[k + 1] = c
    BY <1>0, <1>4, <1>5
  <2> QED  BY <2>1, ViewAssumption
<1>9. /\ Cardinality(BytesOf(r, k + 1)) <= Cardinality(BytesOf(r, Len(r)))
      /\ Cardinality(BytesOf(r, k)) \in Nat
      /\ Cardinality(BytesOf(r, Len(r))) \in Nat
  <2>1. k + 1 \in 0..Len(r) /\ k \in 0..Len(r) /\ Len(r) \in 0..Len(r)
    BY <1>0, <1>5
  <2> QED  BY <1>5, <2>1, BytesMonotone, BytesFinite
<1>10. Cardinality(BytesOf(q, k)) + 1 <= Cardinality(BytesOf(r, Len(r)))
  BY <1>6, <1>7, <1>8, <1>9
<1> QED  BY <1>3, <1>5, <1>10

LEMMA RemovedKeeps ==
  ASSUME NEW q \in Seq(Chars), NEW k \in 0..Len(q), k < Len(q)
  PROVE  LET r == RemoveAt(q, k + 1)
         IN  /\ r \in Seq(Chars) /\ Len(r) = Len(q) - 1
             /\ Cardinality(BytesOf(q, k)) <= Cardinality(BytesOf(r, Len(r)))
<1> DEFINE u == SubSeq(q, 1, k)
           v == SubSeq(q, k + 2, Len(q))
           r == u \o v
<1>0. Len(q) \in Nat /\ k \in Nat /\ \A i \in 1..Len(q) : q[i] \in Chars
  OBVIOUS
<1>1. u \in Seq(Chars) /\ Len(u) = k /\ \A i \in 1..k : u[i] = q[i]
  <2>1. \A i \in 1..k : q[i] \in Chars
    BY <1>0
  <2> QED  BY <1>0, <2>1, SubSeqProperties
<1>2. v \in Seq(Chars) /\ Len(v) = Len(q) - k - 1
  <2>1. \A i \in k + 2..Len(q) : q[i] \in Chars
    BY <1>0
  <2> QED  BY <1>0, <2>1, SubSeqProperties
<1>3. r = RemoveAt(q, k + 1)
  <2>1. (k + 1) - 1 = k /\ (k + 1) + 1 = k + 2
    BY <1>0
  <2>2. RemoveAt(q, k + 1) = SubSeq(q, 1, (k + 1) - 1) \o SubSeq(q, (k + 1) + 1, Len(q))
    BY DEF RemoveAt
  <2> QED  BY ONLY <2>1, <2>2, Zenon
<1> HIDE DEF u, v
<1>4. /\ r \in Seq(Chars) /\ Len(r) = Len(q) - 1 /\ \A i \in 1..k : r[i] = q[i]
  BY <1>0, <1>1, <1>2, ConcatProperties
<1> HIDE DEF r
<1>5. BytesOf(r, k) = BytesOf(q, k)
  BY <1>0, <1>4, BytesPrefix
<1>6. k \in 0..Len(r)
  BY <1>0, <1>4
<1> QED  BY <1>3, <1>4, <1>5, <1>6, BytesMonotone

-----------------------------------------------------------------------------
(***************************************************************************)
(* The rows and the selection.                                             *)
(***************************************************************************)
LEMMA MinOf ==
  ASSUME NEW T \in SUBSET Nat, T # {}
  PROVE  Min(T) \in T /\ \A m \in T : Min(T) <= m
BY LeastElement DEF Min

LEMMA MinPair ==
  ASSUME NEW a \in Int, NEW b \in Int
  PROVE  Min({a, b}) = IF a <= b THEN a ELSE b
BY DEF Min

CountIs == Count = IF filtered = None THEN Len(ring) ELSE Len(filtered)

LEMMA CountWell == TypeOK => CountIs
<1> SUFFICES ASSUME TypeOK PROVE CountIs
  OBVIOUS
<1>1. CASE filtered = None
  BY <1>1 DEF CountIs, Count, Visible
<1>2. CASE filtered # None
  <2>1. filtered \in Seq(1..RingCap)
    BY <1>2 DEF TypeOK
  <2>2. Len(filtered) \in Nat /\ DOMAIN filtered = 1..Len(filtered)
    BY <2>1
  <2> DEFINE v == [i \in 1..Len(filtered) |->
                     IF filtered[i] \in DOMAIN ring THEN ring[filtered[i]] ELSE None]
  <2>3. Visible = v
    BY <1>2, <2>2 DEF Visible
  <2>4. Len(v) = Len(filtered)
    BY <2>2
  <2> HIDE DEF v
  <2> QED  BY <1>2, <2>3, <2>4 DEF CountIs, Count
<1> QED  BY <1>1, <1>2

\* A row that is found is the selected one or lies within the list.
LEMMA FoundWell ==
  ASSUME CInv, NEW p
  PROVE  Found(p) = selected \/ (Found(p) \in Nat /\ Found(p) < Count)
<1> DEFINE hits == {off \in 1..Count : Hit((selected + off) % Count, p)}
<1>1. Count \in Nat
  BY VisibleWell
<1>2. selected \in Nat
  BY DEF CInv, TypeOK
<1>3. hits \in SUBSET Nat /\ \A off \in hits : off \in 1..Count
  BY <1>1
<1>4. Found(p) = IF hits = {} THEN selected ELSE (selected + Min(hits)) % Count
  BY DEF Found
<1> HIDE DEF hits
<1>5. CASE hits # {}
  <2>1. Min(hits) \in 1..Count
    BY <1>3, <1>5, MinOf
  <2> DEFINE m == Min(hits)
             n == Count
  <2>2. m \in Nat /\ n \in Nat /\ n >= 1
    BY <1>1, <2>1
  <2> HIDE DEF m, n
  <2>3. (selected + m) % n \in 0..n - 1
    BY <1>2, <2>2
  <2>4. Found(p) = (selected + m) % n
    BY <1>4, <1>5 DEF m, n
  <2>5. Found(p) \in Nat /\ Found(p) < n
    BY <2>2, <2>3, <2>4
  <2> QED  BY <2>5 DEF n
<1> QED  BY <1>4, <1>5

\* Every key and every drain leaves the selection where it was, moves it towards
\* the first row, or puts it on a row.
LEMMA SelectionMoves ==
  ASSUME CInv, Next
  PROVE  /\ selected' \in Nat
         /\ selected' <= selected \/ selected' < Count
<1> USE Bounds
<1>0. selected \in Nat /\ Count \in Nat
  BY VisibleWell DEF CInv, TypeOK
<1>1. CASE Move
  <2>1. selected' \in Moved
    BY <1>1 DEF Move
  <2> DEFINE n == Count
  <2>2. n \in Nat
    BY <1>0
  <2>3. \/ selected' = selected \/ selected' = 0
        \/ selected' = selected + 1 /\ selected + 1 < n
        \/ selected' = Less(selected, 1) \/ selected' = Less(selected, Page)
        \/ selected' = n - 1 /\ n > 0
        \/ selected' = Min({selected + Page, Less(n, 1)})
    BY <2>1 DEF Moved
  <2> HIDE DEF n
  <2>4. Less(n, 1) \in Int /\ selected + Page \in Int
    BY <1>0, <2>2 DEF Less
  <2>5. Min({selected + Page, Less(n, 1)})
          = IF selected + Page <= Less(n, 1) THEN selected + Page ELSE Less(n, 1)
    BY <2>4, MinPair
  <2>6. selected' \in Nat /\ (selected' <= selected \/ selected' < n)
    BY <1>0, <2>2, <2>3, <2>5 DEF Less
  <2> QED  BY <2>6 DEF n
<1>2. CASE NextMatch \/ \E p \in Patterns : Search(p)
  <2>1. selected' = selected \/ \E p : selected' = Found(p)
    BY <1>2 DEF NextMatch, Search
  <2>2. selected' = selected \/ (selected' \in Nat /\ selected' < Count)
    BY <2>1, FoundWell
  <2> QED  BY <1>0, <2>2
<1>3. CASE Clear \/ Apply
  <2>1. selected' = 0 \/ selected' = selected
    BY <1>3 DEF Clear, Apply
  <2> QED  BY <1>0, <2>1
<1>4. CASE Drained
  <2>1. selected' = selected \/ (Count > 0 /\ selected' = Count - 1)
    BY <1>4 DEF Drained, Scrolled
  <2> QED  BY <1>0, <2>1
<1>5. CASE UNCHANGED selected
  BY <1>0, <1>5
<1> QED
  BY <1>1, <1>2, <1>3, <1>4, <1>5
  DEF Next, NoKey, DrawPanics, Quit, StartSearch, Toggle, Close, Follow, Bookmark,
      Pause, StartFilter, Backspace, Shift, Leave, Type, EndSearch, Take, Ended, Read,
      Arrive, vars

LEMMA RowKept == CInv /\ Next /\ CountIs' => RowInv'
<1> USE Bounds
<1> SUFFICES ASSUME CInv, Next, CountIs' PROVE RowInv'
  OBVIOUS
<1>0. /\ RowInv /\ CountIs
      /\ selected \in Nat /\ Count \in Nat /\ received \in Nat /\ Len(ring) \in Nat
  BY CountWell, VisibleWell DEF CInv, TypeOK
<1>1. selected' \in Nat /\ (selected' <= selected \/ selected' < Count)
  BY SelectionMoves
<1>2. CASE Take
  <2>1. selected' = selected /\ received' = received + 1
    BY <1>2 DEF Take
  <2>2. filtered = None <=> filtered' = None
    <3>1. filtered = None => filtered' = None
      BY <1>2 DEF Take
    <3>2. filtered # None => filtered' # None
      BY <1>2, TakeFilters
    <3> QED  BY <3>1, <3>2
  <2>3. /\ Len(ring') \in Nat
        /\ ~Evicts => Len(ring') = Len(ring) + 1
        /\ Evicts => Len(ring') = RingCap /\ Len(ring) = RingCap
    BY <1>2, TakeMoves DEF Moves, MovesUp, MovesOut
  <2>4. CASE filtered = None
    <3>1. Count = Len(ring) /\ Count' = Len(ring')
      BY <1>0, <2>2, <2>4 DEF CountIs
    <3>2. Count' >= Count
      BY <1>0, <2>3, <3>1
    <3>3. selected = 0 \/ selected < Count
      BY <1>0, <2>4 DEF RowInv
    <3>4. Count' \in Nat
      BY <2>3, <3>1
    <3> QED  BY <1>0, <2>1, <3>2, <3>3, <3>4 DEF RowInv
  <2>5. CASE filtered # None /\ received' <= RingCap
    <3>1. ~Evicts
      <4>1. Len(ring) = received
        BY <1>0, <2>1, <2>5 DEF CInv, RingInv
      <4> QED  BY <1>0, <2>1, <2>5, <4>1 DEF Evicts
    <3>2. Len(filtered') >= Len(filtered)
      BY <1>2, <2>5, <3>1, TakeFilters
    <3>3. Count = Len(filtered) /\ Count' = Len(filtered')
      BY <1>0, <2>2, <2>5 DEF CountIs
    <3>4. selected = 0 \/ selected < Count
      BY <1>0, <2>1, <2>5 DEF RowInv
    <3>5. Len(filtered') \in Nat
      <4>1. filtered' = Indices(active)'
        BY <1>2, <2>5, TakeFilters
      <4>2. Len(ring') \in Nat /\ DOMAIN ring' = 1..Len(ring')
        BY <1>2, TakeMoves DEF Moves
      <4>3. Passed(active)' \in SUBSET (1..Len(ring'))
        BY <4>2 DEF Passed
      <4>4. Len(Ascending(Passed(active)')) \in Nat
        BY <4>2, <4>3, AscendingWell
      <4>5. Indices(active)' = Ascending(Passed(active)')
        BY DEF Indices, Passed
      <4> QED  BY <4>1, <4>4, <4>5
    <3>6. Count' >= Count
      BY <3>2, <3>3
    <3>7. selected' = 0 \/ selected' < Count'
      <4> DEFINE c == Count
                 d == Len(filtered')
      <4>1. c \in Nat /\ d \in Nat
        BY <1>0, <3>5
      <4>2. Count' = d /\ d >= c
        BY <3>3, <3>6
      <4> HIDE DEF c, d
      <4>3. selected' = 0 \/ selected' < d
        BY <1>0, <2>1, <3>4, <4>1, <4>2 DEF c
      <4> QED  BY <4>2, <4>3
    <3> QED  BY <3>7 DEF RowInv
  <2>6. CASE filtered # None /\ ~(received' <= RingCap)
    BY <2>2, <2>6 DEF RowInv
  <2> QED  BY <2>4, <2>5, <2>6
<1>3. CASE Clear \/ (Apply /\ Parse(input) # None)
  <2>1. selected' = 0
    BY <1>3 DEF Clear, Apply
  <2> QED  BY <2>1 DEF RowInv
<1>4. CASE UNCHANGED <<ring, filtered, received>>
  <2>1. Count' = Count
    BY <1>4 DEF Count, Visible
  <2>2. (selected = 0 \/ selected < Count) => (selected' = 0 \/ selected' < Count)
    BY <1>0, <1>1
  <2> QED  BY <1>0, <1>4, <2>1, <2>2 DEF RowInv
<1> QED
  BY <1>2, <1>3, <1>4
  DEF Next, NoKey, DrawPanics, Quit, StartSearch, Toggle, Move, Close, Follow, Bookmark,
      Pause, NextMatch, StartFilter, Backspace, Shift, Leave, Apply, Type, Search,
      EndSearch, Drained, Ended, Read, Arrive, packets, filter, vars

-----------------------------------------------------------------------------
(***************************************************************************)
(* The cursor in the filter bar.                                           *)
(***************************************************************************)
LEMMA OffsetWell ==
  ASSUME TypeOK
  PROVE  /\ \A i : Offset(i) = Cardinality(BytesOf(input, i))
         /\ input \in Seq(Chars) /\ Len(input) \in Nat /\ DOMAIN input = 1..Len(input)
         /\ \A i \in DOMAIN input : Width(input[i]) \in Nat /\ Width(input[i]) >= 1
         /\ \A i \in 0..Len(input) : Offset(i) \in Nat
<1>1. \A i : Offset(i) = Cardinality(BytesOf(input, i))
  BY DEF Offset, BytesTo, BytesOf
<1>2. input \in Seq(Chars) /\ Len(input) \in Nat /\ DOMAIN input = 1..Len(input)
  BY DEF TypeOK
<1>3. \A i \in DOMAIN input : Width(input[i]) \in Nat /\ Width(input[i]) >= 1
  <2>1. \A c \in Chars : Width(c) \in Nat /\ Width(c) >= 1
    BY ViewAssumption
  <2>2. \A i \in DOMAIN input : input[i] \in Chars
    BY <1>2
  <2> QED  BY <2>1, <2>2
<1>4. \A i \in 0..Len(input) : Offset(i) \in Nat
  BY <1>1, <1>2, BytesFinite
<1> QED  BY <1>1, <1>2, <1>3, <1>4

\* Where every character is narrow, every offset up to the end lies between two.
LEMMA NarrowOnBoundary ==
  ASSUME TypeOK, NEW b \in Nat, b <= Offset(Len(input)),
         \A i \in DOMAIN input : ~(Width(input[i]) > 1)
  PROVE  OnBoundary(b) /\ Offset(Len(input)) = Len(input)
<1>1. \A i \in 1..Len(input) : Width(input[i]) = 1
  BY OffsetWell
<1>2. \A i \in 0..Len(input) : Offset(i) = i
  BY <1>1, OffsetWell, BytesFinite
<1>3. Len(input) \in Nat /\ Offset(Len(input)) = Len(input)
  BY <1>2, OffsetWell
<1>4. b \in 0..Len(input)
  BY <1>3
<1> QED  BY <1>2, <1>3, <1>4 DEF OnBoundary

LEMMA CursorKept == CInv /\ Next => CursorInv'
<1> SUFFICES ASSUME CInv, Next PROVE CursorInv'
  OBVIOUS
<1>0. TypeOK /\ CursorInv /\ cursor \in Nat
  BY DEF CInv, TypeOK
<1>1. /\ \A i : Offset(i) = Cardinality(BytesOf(input, i))
      /\ input \in Seq(Chars) /\ Len(input) \in Nat
      /\ \A i \in 0..Len(input) : Offset(i) \in Nat
  BY <1>0, OffsetWell
<1>2. Offset(Len(input))' = Cardinality(BytesOf(input', Len(input')))
  BY DEF Offset, BytesTo, BytesOf
<1>3. Offset(Len(input)) \in Nat
  <2>1. Len(input) \in 0..Len(input)
    BY <1>1
  <2> QED  BY <1>1, <2>1
<1>4. (cursor <= Offset(Len(input)))'
  <2>1. ASSUME NEW c \in Chars, Type(c), OnBoundary(cursor)
        PROVE  cursor' <= Offset(Len(input))'
    <3> DEFINE k == CharAt(cursor)
               r == InsertAt(input, k + 1, c)
    <3>1. k \in 0..Len(input) /\ Offset(k) = cursor
      BY <2>1 DEF OnBoundary, CharAt
    <3>2. input' = r /\ cursor' = cursor + 1
      BY <2>1 DEF Type
    <3> HIDE DEF k
    <3>3. Cardinality(BytesOf(input, k)) + 1 <= Cardinality(BytesOf(r, Len(r)))
      BY <1>1, <3>1, TypedGrows
    <3> HIDE DEF r
    <3>4. Cardinality(BytesOf(input, k)) = cursor
      BY <1>1, <3>1
    <3> QED  BY <1>2, <3>2, <3>3, <3>4
  <2>2. ASSUME Backspace, OnBoundary(cursor - 1) /\ cursor - 1 < Offset(Len(input))
        PROVE  cursor' <= Offset(Len(input))'
    <3> DEFINE k == CharAt(cursor - 1)
               r == RemoveAt(input, k + 1)
    <3>1. k \in 0..Len(input) /\ Offset(k) = cursor - 1
      BY <2>2 DEF OnBoundary, CharAt
    <3>2. input' = r /\ cursor' = cursor - 1
      BY <2>2 DEF Backspace
    <3>3. cursor - 1 < Offset(Len(input))
      BY <2>2
    <3> HIDE DEF k
    <3>4. k < Len(input)
      <4>1. k # Len(input)
        BY <1>0, <1>3, <3>1, <3>3
      <4> QED  BY <1>1, <3>1, <4>1
    <3>5. Cardinality(BytesOf(input, k)) <= Cardinality(BytesOf(r, Len(r)))
      BY <1>1, <3>1, <3>4, RemovedKeeps
    <3> HIDE DEF r
    <3>6. Cardinality(BytesOf(input, k)) = cursor - 1
      BY <1>1, <3>1
    <3> QED  BY <1>2, <3>2, <3>5, <3>6
  <2>3. CASE StartFilter
    <3>1. cursor' = 0 /\ input' = << >> /\ Len(input') = 0
      BY <2>3 DEF StartFilter
    <3>2. BytesOf(input', 0) = {}
      BY DEF BytesOf
    <3>3. Cardinality(BytesOf(input', 0)) = 0
      BY <3>2, FS_EmptySet
    <3> QED  BY <1>2, <3>1, <3>3
  <2>4. CASE Shift
    <3>1. cursor' \in Steps /\ input' = input
      BY <2>4 DEF Shift
    <3>2. cursor' <= Offset(Len(input))
      BY <3>1 DEF Steps
    <3> QED  BY <1>1, <1>2, <3>1, <3>2
  <2>5. CASE UNCHANGED <<input, cursor>>
    <3>1. cursor <= Offset(Len(input))
      BY <1>0 DEF CursorInv
    <3> QED  BY <1>1, <1>2, <2>5, <3>1
  <2> QED
    BY <2>1, <2>2, <2>3, <2>4, <2>5
    DEF Next, NoKey, DrawPanics, Quit, StartSearch, Toggle, Move, Close, Follow, Bookmark,
        Pause, NextMatch, Backspace, Leave, Clear, Apply, Type, Search, EndSearch, Take,
        Drained, Ended, Arrive, bar, vars
<1>5. OnlyWideCharsCrash'
  <2> SUFFICES ASSUME turn' = "panic" PROVE \E i \in DOMAIN input' : Width(input'[i]) > 1
    BY DEF OnlyWideCharsCrash
  <2>1. CASE turn = "panic" /\ input' = input
    BY <1>0, <2>1 DEF CursorInv, OnlyWideCharsCrash
  <2>2. CASE (DrawPanics \/ \E c \in Chars : Type(c) /\ ~OnBoundary(cursor)) /\ input' = input
    <3>1. cursor <= Offset(Len(input)) /\ ~OnBoundary(cursor)
      BY <1>0, <2>2 DEF DrawPanics, BarPanics, CursorInv
    <3>2. \E i \in DOMAIN input : Width(input[i]) > 1
      BY <1>0, <3>1, NarrowOnBoundary
    <3> QED  BY <2>2, <3>2
  <2>3. CASE Backspace /\ input' = input
    <3>1. cursor > 0 /\ ~(OnBoundary(cursor - 1) /\ cursor - 1 < Offset(Len(input)))
      BY <2>3 DEF Backspace
    <3>2. cursor - 1 \in Nat /\ cursor - 1 < Offset(Len(input))
      BY <1>0, <1>3, <3>1 DEF CursorInv
    <3>3. ~OnBoundary(cursor - 1) /\ cursor - 1 <= Offset(Len(input))
      BY <1>0, <1>3, <3>1, <3>2
    <3>4. \E i \in DOMAIN input : Width(input[i]) > 1
      BY <1>0, <3>2, <3>3, NarrowOnBoundary
    <3> QED  BY <2>3, <3>4
  <2> QED
    BY <2>1, <2>2, <2>3
    DEF Next, NoKey, DrawPanics, Quit, StartSearch, Toggle, Move, Close, Follow, Bookmark,
        Pause, NextMatch, StartFilter, Backspace, Shift, Leave, Clear, Apply, Type, Search,
        EndSearch, Take, Drained, Ended, Arrive, Read, Frame, bar, vars
<1> QED  BY <1>4, <1>5 DEF CursorInv

-----------------------------------------------------------------------------
(***************************************************************************)
(* The types, variable by variable.                                        *)
(***************************************************************************)
LEMMA PacketsTyped ==
  ASSUME CInv, Next
  PROVE  /\ chan' \in Seq(Packets) /\ ring' \in Seq(Packets) /\ Len(ring') <= RingCap
         /\ received' \in Nat /\ fresh' \in Nat
<1> USE Bounds
<1>0. /\ chan \in Seq(Packets) /\ ring \in Seq(Packets) /\ Len(ring) <= RingCap
      /\ received \in Nat /\ fresh \in Nat
  BY DEF CInv, TypeOK
<1>1. ASSUME NEW k \in Kinds, Arrive(k)
      PROVE  chan' \in Seq(Packets) /\ UNCHANGED <<ring, received, fresh>>
  <2>1. sent \in Numbers
    <3>1. received + Len(chan) = sent /\ Len(chan) \in Nat
      BY <1>0 DEF CInv, RingInv
    <3> QED  BY <1>0, <1>1, <3>1 DEF Arrive, Numbers
  <2> DEFINE p == [number |-> sent, kind |-> k]
  <2>2. p \in Packets
    BY <2>1 DEF Packets
  <2>3. chan' = Append(chan, p)
    BY <1>1 DEF Arrive
  <2> HIDE DEF p
  <2>4. chan' \in Seq(Packets)
    BY <1>0, <2>2, <2>3, AppendProperties
  <2> QED  BY <1>1, <2>4 DEF Arrive
<1>2. CASE Take
  <2>1. chan' \in Seq(Packets) /\ ring' \in Seq(Packets) /\ Len(ring) \in Nat
    BY <1>2, TakeMoves DEF Moves
  <2>3. Len(ring') = RingCap \/ (Len(ring') = Len(ring) + 1 /\ Len(ring) < RingCap)
    BY <1>2, TakeMoves DEF MovesUp, MovesOut
  <2>4. Len(ring') <= RingCap
    BY <2>1, <2>3
  <2>2. received' = received + 1 /\ (fresh' = fresh \/ fresh' = fresh + 1)
    BY <1>2 DEF Take
  <2> QED  BY <1>0, <2>1, <2>2, <2>4
<1>3. CASE UNCHANGED <<chan, ring, received>> /\ (fresh' = 0 \/ fresh' = fresh)
  BY <1>0, <1>3
<1> QED
  BY <1>0, <1>1, <1>2, <1>3
  DEF Next, NoKey, DrawPanics, Quit, StartSearch, Toggle, Move, Close, Follow, Bookmark,
      Pause, NextMatch, StartFilter, Backspace, Shift, Leave, Clear, Apply, Type, Search,
      EndSearch, Drained, Ended, Read, packets, vars

LEMMA FilterTyped ==
  ASSUME CInv, Next, ring' \in Seq(Packets), Len(ring') <= RingCap
  PROVE  /\ filtered' = None \/ filtered' \in Seq(1..RingCap)
         /\ active' \in Filters \cup {None}
<1> USE Bounds
<1>0. /\ TypeOK
      /\ filtered = None \/ filtered \in Seq(1..RingCap)
      /\ active \in Filters \cup {None}
  BY DEF CInv, TypeOK
<1>1. CASE Take
  <2>1. active' = active
    BY <1>1 DEF Take
  <2>2. CASE filtered = None
    BY <1>0, <1>1, <2>1, <2>2 DEF Take
  <2>3. CASE filtered # None
    <3>1. filtered' = Ascending(Passed(active)')
      BY <1>1, <2>3, TakeFilters DEF Indices, Passed
    <3>2. /\ Len(ring') \in Nat /\ Passed(active)' \in SUBSET (1..Len(ring'))
          /\ Passed(active)' \subseteq 1..RingCap
      BY DEF Passed
    <3>3. Ascending(Passed(active)') \in Seq(Passed(active)')
      BY <3>2, AscendingWell
    <3>4. Ascending(Passed(active)') \in Seq(1..RingCap)
      BY <3>2, <3>3, SeqMonotonic
    <3> QED  BY <1>0, <2>1, <3>1, <3>4
  <2> QED  BY <2>2, <2>3
<1>2. CASE Clear
  BY <1>2 DEF Clear
<1>3. CASE Apply
  <2>1. Parse(input) \in Filters \cup {None}
    <3> DEFINE n == Len(input)
    <3>1. input \in [1..n -> Chars] /\ n \in 0..MaxInput
      BY <1>0 DEF TypeOK
    <3> HIDE DEF n
    <3> QED  BY <3>1, ViewAssumption
  <2>2. Indices(Parse(input)) \in Seq(1..RingCap)
    BY <1>0, IndicesWell
  <2> QED  BY <1>0, <1>3, <2>1, <2>2 DEF Apply, filter
<1>4. CASE UNCHANGED <<filtered, active>>
  BY <1>0, <1>4
<1> QED
  BY <1>1, <1>2, <1>3, <1>4
  DEF Next, NoKey, DrawPanics, Quit, StartSearch, Toggle, Move, Close, Follow, Bookmark,
      Pause, NextMatch, StartFilter, Backspace, Shift, Leave, Type, Search, EndSearch,
      Drained, Ended, Read, Arrive, filter, vars

LEMMA InputTyped ==
  ASSUME CInv, Next
  PROVE  input' \in Seq(Chars) /\ Len(input') <= MaxInput /\ cursor' \in Nat
<1> USE Bounds
<1>0. /\ TypeOK /\ cursor \in Nat /\ input \in Seq(Chars) /\ Len(input) \in Nat
      /\ Len(input) <= MaxInput
  BY DEF CInv, TypeOK
<1>1. ASSUME NEW c \in Chars, Type(c), OnBoundary(cursor)
      PROVE  input' \in Seq(Chars) /\ Len(input') <= MaxInput /\ cursor' \in Nat
  <2> DEFINE k == CharAt(cursor)
             r == InsertAt(input, k + 1, c)
  <2>1. k \in 0..Len(input)
    BY <1>1 DEF OnBoundary, CharAt
  <2>2. input' = r /\ cursor' = cursor + 1 /\ Len(input) < MaxInput
    BY <1>1 DEF Type
  <2> HIDE DEF k
  <2>3. r \in Seq(Chars) /\ Len(r) = Len(input) + 1
    BY <1>0, <2>1, TypedGrows
  <2> HIDE DEF r
  <2> QED  BY <1>0, <2>2, <2>3
<1>2. ASSUME Backspace, OnBoundary(cursor - 1) /\ cursor - 1 < Offset(Len(input))
      PROVE  input' \in Seq(Chars) /\ Len(input') <= MaxInput /\ cursor' \in Nat
  <2> DEFINE k == CharAt(cursor - 1)
             r == RemoveAt(input, k + 1)
  <2>1. k \in 0..Len(input) /\ Offset(k) = cursor - 1
    BY <1>2 DEF OnBoundary, CharAt
  <2>2. input' = r /\ cursor' = cursor - 1 /\ cursor > 0
    BY <1>2 DEF Backspace
  <2>3. cursor - 1 < Offset(Len(input))
    BY <1>2
  <2> HIDE DEF k
  <2>4. k < Len(input)
    <3>1. Offset(Len(input)) \in Nat
      <4>1. Len(input) \in 0..Len(input)
        BY <1>0
      <4> QED  BY <1>0, <4>1, OffsetWell
    <3>2. k # Len(input)
      BY <1>0, <2>1, <2>3, <3>1
    <3> QED  BY <1>0, <2>1, <3>2
  <2>5. r \in Seq(Chars) /\ Len(r) = Len(input) - 1
    BY <1>0, <2>1, <2>4, RemovedKeeps
  <2> HIDE DEF r
  <2> QED  BY <1>0, <2>2, <2>5
<1>3. CASE StartFilter
  BY <1>3 DEF StartFilter
<1>4. CASE input' = input /\ (cursor' = cursor \/ cursor' \in Steps)
  BY <1>0, <1>4 DEF Steps
<1> QED
  BY <1>1, <1>2, <1>3, <1>4
  DEF Next, NoKey, DrawPanics, Quit, StartSearch, Toggle, Move, Close, Follow, Bookmark,
      Pause, NextMatch, Type, Backspace, Shift, Leave, Clear, Apply, Search, EndSearch,
      Take, Drained, Ended, Arrive, bar, vars

LEMMA PanelsTyped ==
  ASSUME CInv, Next
  PROVE  /\ overlay' \in Overlays \cup {"stream", None}
         /\ overlay' = "stream" => stream' \in Seq(Packets)
         /\ bookmarks' \subseteq Numbers
<1>0. /\ TypeOK /\ ring \in Seq(Packets)
      /\ overlay \in Overlays \cup {"stream", None}
      /\ overlay = "stream" => stream \in Seq(Packets)
      /\ bookmarks \subseteq Numbers
  BY DEF CInv, TypeOK
<1>1. CASE Follow
  <2> DEFINE P == {i \in DOMAIN ring : Talk(ring[i]) = Talk(Selected)}
  <2>1. Picked(ring, P) \in Seq(Packets)
    BY <1>0, PickedWell
  <2>2. \/ stream' = Picked(ring, P) /\ overlay' = "stream"
        \/ UNCHANGED <<stream, overlay>>
    BY <1>1 DEF Follow, panels
  <2>3. bookmarks' = bookmarks
    BY <1>1 DEF Follow
  <2> HIDE DEF P
  <2> QED  BY <1>0, <2>1, <2>2, <2>3
<1>2. CASE Bookmark
  <2>1. UNCHANGED <<stream, overlay>>
    BY <1>2 DEF Bookmark, panels
  <2>2. Selected # None => Selected.number \in Numbers
    <3> SUFFICES ASSUME Selected # None PROVE Selected.number \in Numbers
      OBVIOUS
    <3>1. selected < Count /\ Count \in Nat /\ selected \in Nat
      BY <1>0, VisibleWell DEF TypeOK
    <3>2. Visible[selected + 1] \in Packets
      BY <3>1, VisibleWell
    <3> QED  BY <3>1, <3>2 DEF Selected, Packets
  <2>3. bookmarks' \subseteq Numbers
    BY <1>0, <1>2, <2>2 DEF Bookmark
  <2> QED  BY <1>0, <2>1, <2>3
<1>3. CASE \E kind \in Overlays : Toggle(kind)
  <2>1. PICK kind \in Overlays : overlay' = (IF overlay = kind THEN None ELSE kind)
    BY <1>3 DEF Toggle
  <2>2. bookmarks' = bookmarks
    BY <1>3 DEF Toggle
  <2>3. "stream" \notin Overlays /\ None # "stream"
    BY ViewAssumption
  <2> QED  BY <1>0, <2>1, <2>2, <2>3
<1>4. CASE Close
  <2>1. overlay' = None /\ bookmarks' = bookmarks
    BY <1>4 DEF Close
  <2>2. None # "stream"
    BY ViewAssumption
  <2> QED  BY <1>0, <2>1, <2>2
<1>5. CASE UNCHANGED <<overlay, stream, bookmarks>>
  BY <1>0, <1>5
<1> QED
  BY <1>1, <1>2, <1>3, <1>4, <1>5
  DEF Next, NoKey, DrawPanics, Quit, StartSearch, Move, Pause, NextMatch, StartFilter,
      Type, Backspace, Shift, Leave, Clear, Apply, Search, EndSearch, Take, Drained,
      Ended, Arrive, panels, vars

LEMMA ModesTyped ==
  ASSUME CInv, Next
  PROVE  /\ paused' \in BOOLEAN
         /\ mode' \in {"normal", "filter", "search"}
         /\ search' \in Patterns \cup {None}
         /\ turn' \in {"key", "drain", "quit", "panic"}
<1>0. /\ paused \in BOOLEAN
      /\ mode \in {"normal", "filter", "search"}
      /\ search \in Patterns \cup {None}
      /\ turn \in {"key", "drain", "quit", "panic"}
  BY DEF CInv, TypeOK
<1>1. paused' = paused \/ paused' = ~paused
  BY DEF Next, NoKey, DrawPanics, Quit, StartSearch, Toggle, Move, Close, Follow, Bookmark,
      Pause, NextMatch, StartFilter, Type, Backspace, Shift, Leave, Clear, Apply, Search,
      EndSearch, Take, Drained, Ended, Arrive, vars
<1>2. mode' = mode \/ mode' \in {"normal", "filter", "search"}
  BY DEF Next, NoKey, DrawPanics, Quit, StartSearch, Toggle, Move, Close, Follow, Bookmark,
      Pause, NextMatch, StartFilter, Type, Backspace, Shift, Leave, Clear, Apply, Search,
      EndSearch, Take, Drained, Ended, Arrive, bar, vars
<1>3. search' \in {search, None} \cup Patterns
  BY DEF Next, NoKey, DrawPanics, Quit, StartSearch, Toggle, Move, Close, Follow, Bookmark,
      Pause, NextMatch, StartFilter, Type, Backspace, Shift, Leave, Clear, Apply, Search,
      EndSearch, Take, Drained, Ended, Arrive, vars
<1>4. turn' = turn \/ turn' \in {"key", "drain", "quit", "panic"}
  BY DEF Next, NoKey, DrawPanics, Quit, StartSearch, Toggle, Move, Close, Follow, Bookmark,
      Pause, NextMatch, StartFilter, Type, Backspace, Shift, Leave, Clear, Apply, Search,
      EndSearch, Take, Drained, Ended, Arrive, Read, vars
<1> QED  BY <1>0, <1>1, <1>2, <1>3, <1>4

LEMMA TypeKept == CInv /\ Next => TypeOK'
<1> SUFFICES ASSUME CInv, Next PROVE TypeOK'
  OBVIOUS
<1>1. /\ chan' \in Seq(Packets) /\ ring' \in Seq(Packets) /\ Len(ring') <= RingCap
      /\ received' \in Nat /\ fresh' \in Nat
  BY PacketsTyped
<1>2. /\ filtered' = None \/ filtered' \in Seq(1..RingCap)
      /\ active' \in Filters \cup {None}
  BY <1>1, FilterTyped
<1>3. selected' \in Nat
  BY SelectionMoves
<1> QED
  BY <1>1, <1>2, <1>3, InputTyped, PanelsTyped, ModesTyped DEF TypeOK, Packets, Numbers

-----------------------------------------------------------------------------
(***************************************************************************)
(* The theorems.                                                           *)
(***************************************************************************)
LEMMA InitInv == Init => CInv
<1> USE Bounds
<1> SUFFICES ASSUME Init PROVE CInv
  OBVIOUS
<1>1. TypeOK
  <2>1. << >> \in Seq(Packets) /\ << >> \in Seq(Chars) /\ Len(<< >>) = 0
    OBVIOUS
  <2>2. None # "stream"
    BY ViewAssumption
  <2>3. /\ chan \in Seq(Packets) /\ ring \in Seq(Packets) /\ Len(ring) <= RingCap
        /\ input \in Seq(Chars) /\ Len(input) <= MaxInput
    BY <2>1 DEF Init
  <2>4. /\ selected \in Nat /\ cursor \in Nat /\ received \in Nat /\ fresh \in Nat
        /\ paused \in BOOLEAN /\ overlay # "stream" /\ bookmarks \subseteq Numbers
    BY <2>2 DEF Init
  <2>5. /\ filtered = None /\ active = None /\ overlay = None /\ search = None
        /\ mode = "normal" /\ turn = "key"
    BY DEF Init
  <2> QED  BY <2>3, <2>4, <2>5 DEF TypeOK
<1>2. RingInv
  BY DEF Init, RingInv
<1>3. FilterInv /\ RowInv
  BY DEF Init, FilterInv, RowInv
<1>4. CursorInv
  <2>1. Len(input) = 0 /\ cursor = 0 /\ turn = "key"
    BY DEF Init
  <2>2. BytesTo(0) = {}
    BY DEF BytesTo
  <2>3. Offset(0) = 0
    BY <2>2, FS_EmptySet DEF Offset
  <2> QED  BY <2>1, <2>3 DEF CursorInv, OnlyWideCharsCrash
<1> QED  BY <1>1, <1>2, <1>3, <1>4 DEF CInv

LEMMA StepInv == CInv /\ [Next]_vars => CInv'
<1> SUFFICES ASSUME CInv, [Next]_vars PROVE CInv'
  OBVIOUS
<1>1. CASE Next
  <2>1. TypeOK'
    BY <1>1, TypeKept
  <2>2. CountIs'
    BY <2>1, CountWell, PTL
  <2> QED  BY <1>1, <2>1, <2>2, RingKept, FilterKept, RowKept, CursorKept DEF CInv
<1>2. CASE UNCHANGED vars
  BY <1>2
  DEF vars, CInv, TypeOK, RingInv, FilterInv, RowInv, CursorInv, Indices, Count, Visible,
      Offset, BytesTo, OnlyWideCharsCrash, Packets, Numbers
<1> QED  BY <1>1, <1>2

\* The view keeps its types, the last packets in order, the indices that a rebuild
\* would give, a selection within the list and a cursor within the input, whatever
\* keys are pressed and packets come (run_tui and drain_packets, tui/mod.rs:217-530).
THEOREM ViewInvariant == Spec => []CInv
<1>1. Init => CInv
  BY InitInv
<1>2. CInv /\ [Next]_vars => CInv'
  BY StepInv
<1> QED  BY <1>1, <1>2, PTL DEF Spec

LEMMA ListFollows == CInv => ListOK
<1> USE Bounds
<1> SUFFICES ASSUME CInv PROVE ListIsExact
  BY DEF CInv, ListOK
<1>0. /\ ring \in Seq(Packets) /\ Len(ring) \in Nat /\ DOMAIN ring = 1..Len(ring)
      /\ received \in Nat
  BY DEF CInv, TypeOK
<1>1. /\ Len(ring) = IF received <= RingCap THEN received ELSE RingCap
      /\ \A i \in DOMAIN ring : ring[i].number = received - Len(ring) + i - 1
  BY DEF CInv, RingInv
<1>2. Min({received, RingCap}) = Len(ring)
  BY <1>0, <1>1, MinPair
<1>3. [i \in DOMAIN ring |-> ring[i].number]
        = [i \in 1..Min({received, RingCap}) |-> received - Min({received, RingCap}) + i - 1]
  BY <1>0, <1>1, <1>2
<1>4. (filtered = None) <=> (active = None)
  BY DEF CInv, FilterInv
<1>5. Visible = Picked(ring, {i \in DOMAIN ring : Passes(ring[i])})
  <2> DEFINE P == {i \in DOMAIN ring : Passes(ring[i])}
  <2>1. CASE filtered = None
    <3>1. P = 1..Len(ring)
      BY <1>0, <1>4, <2>1 DEF Passes
    <3>2. Ascending(P) = [i \in 1..Len(ring) |-> i]
      BY <1>0, <3>1, AscendingAll
    <3>3. Picked(ring, P) = [i \in 1..Len(ring) |-> ring[i]]
      BY <3>2 DEF Picked
    <3>4. Picked(ring, P) = ring
      BY <1>0, <3>3
    <3> QED  BY <2>1, <3>4 DEF Visible
  <2>2. CASE filtered # None
    <3>1. P = Passed(active)
      BY <1>4, <2>2 DEF Passes, Passed
    <3>2. filtered = Ascending(P) /\ \A i \in DOMAIN filtered : filtered[i] \in DOMAIN ring
      BY <2>2, <3>1, FilteredWell
    <3>3. Visible = [i \in DOMAIN filtered |-> ring[filtered[i]]]
      BY <2>2, <3>2 DEF Visible
    <3> HIDE DEF P
    <3>4. Visible = Picked(ring, P)
      BY <3>2, <3>3 DEF Picked
    <3> QED  BY <3>4 DEF P
  <2> QED  BY <2>1, <2>2
<1> QED  BY <1>3, <1>4, <1>5 DEF ListIsExact

\* The list shows exactly the packets among the last RingCap received that pass the
\* active filter, in order (drain_packets, tui/mod.rs:491-519).
THEOREM ListShown == Spec => []ListOK
<1>1. CInv => ListOK
  BY ListFollows
<1> QED  BY <1>1, ViewInvariant, PTL

\* The selection is on a row, unless evictions from a filtered list left it behind
\* the last one (selected_packet, tui/mod.rs:107-110; drain_packets, 497-507).
THEOREM SelectionKept == Spec => []SelectionOnARow
<1>1. CInv => SelectionOnARow
  <2> SUFFICES ASSUME CInv, Selected = None,
                      ~(filtered # None /\ received > RingCap)
               PROVE  Count = 0
    BY DEF SelectionOnARow
  <2>1. Count \in Nat /\ ~(selected < Count)
    BY VisibleWell
  <2>2. received \in Nat /\ selected \in Nat
    BY DEF CInv, TypeOK
  <2>3. selected = 0 \/ selected < Count
    BY <2>2, Bounds DEF CInv, RowInv
  <2> QED  BY <2>1, <2>3
<1> QED  BY <1>1, ViewInvariant, PTL

\* Only a character of several bytes in the filter input brings the view down
\* (handle_key_event, tui/mod.rs:436-450).
THEOREM NarrowTextIsSafe == Spec => []OnlyWideCharsCrash
<1>1. CInv => OnlyWideCharsCrash
  BY DEF CInv, CursorInv
<1> QED  BY <1>1, ViewInvariant, PTL

-----------------------------------------------------------------------------
\* A quotient and a remainder in range are the ones.
LEMMA Remainder ==
  ASSUME NEW n \in Nat, n >= 1, NEW q \in Int, NEW t \in 0..n - 1
  PROVE  (n * q + t) % n = t
<1> DEFINE a == n * q + t
           d == a \div n
           r == a % n
<1>1. a \in Int /\ d \in Int /\ r \in 0..n - 1 /\ a = n * d + r
  OBVIOUS
<1>2. a = n * q + t
  OBVIOUS
<1> HIDE DEF a, d, r
<1>3. CASE d > q
  <2> DEFINE e == d - q
  <2>1. e \in Int /\ e >= 1 /\ d = q + e
    BY <1>1, <1>3
  <2> HIDE DEF e
  <2>2. n * d = n * q + n * e
    BY <1>1, <2>1
  <2>3. n * e >= n
    BY <2>1
  <2> QED  BY <1>1, <1>2, <2>1, <2>2, <2>3
<1>4. CASE d < q
  <2> DEFINE e == q - d
  <2>1. e \in Int /\ e >= 1 /\ q = d + e
    BY <1>1, <1>4
  <2> HIDE DEF e
  <2>2. n * q = n * d + n * e
    BY <1>1, <2>1
  <2>3. n * e >= n
    BY <2>1
  <2> QED  BY <1>1, <1>2, <2>1, <2>2, <2>3
<1>5. CASE d = q
  <2>1. r = t
    BY <1>1, <1>2, <1>5
  <2> QED  BY <2>1 DEF a, r
<1> QED  BY <1>1, <1>3, <1>4, <1>5

\* Going round from any row reaches every row within one round.
LEMMA RoundReaches ==
  ASSUME NEW n \in Nat, n >= 1, NEW s \in Nat, NEW t \in 0..n - 1
  PROVE  \E off \in 1..n : (s + off) % n = t
<1> DEFINE d == s \div n
           m == s % n
<1>1. d \in Int /\ m \in 0..n - 1 /\ s = n * d + m
  OBVIOUS
<1> HIDE DEF d, m
<1>2. CASE t > m
  <2>1. t - m \in 1..n /\ s + (t - m) = n * d + t
    BY <1>1, <1>2
  <2>2. (n * d + t) % n = t
    BY <1>1, Remainder
  <2> QED  BY <2>1, <2>2
<1>3. CASE t <= m
  <2>1. n * (d + 1) = n * d + n
    BY <1>1
  <2>2. t - m + n \in 1..n /\ s + (t - m + n) = n * (d + 1) + t
    BY <1>1, <1>3, <2>1
  <2>3. (n * (d + 1) + t) % n = t
    BY <1>1, Remainder
  <2> QED  BY <2>2, <2>3
<1> QED  BY <1>1, <1>2, <1>3

\* Looking for a pattern finds it, on whatever side of the selection it is and however
\* far behind the last row the selection lies (next_search_match, tui/mod.rs:131-148).
THEOREM SearchComplete == Spec => []SearchFinds
<1>1. CInv => SearchFinds
  <2> SUFFICES ASSUME CInv, NEW p \in Patterns, NEW i \in 1..Count, Hit(i - 1, p)
               PROVE  Hit(Found(p), p)
    BY DEF SearchFinds
  <2> DEFINE n == Count
             hits == {off \in 1..n : Hit((selected + off) % n, p)}
  <2>1. selected \in Nat /\ n \in Nat
    BY VisibleWell DEF CInv, TypeOK
  <2>2. n >= 1 /\ i - 1 \in 0..n - 1
    BY <2>1
  <2>3. Found(p) = IF hits = {} THEN selected ELSE (selected + Min(hits)) % n
    BY DEF Found
  <2>4. PICK off \in 1..n : (selected + off) % n = i - 1
    <3> HIDE DEF n
    <3> QED  BY <2>1, <2>2, RoundReaches
  <2>5. hits # {} /\ hits \in SUBSET Nat
    <3>1. Hit((selected + off) % n, p)
      BY <2>4
    <3>2. off \in hits
      BY <3>1
    <3>3. \A x \in 1..n : x \in Nat
      BY <2>1
    <3> QED  BY <3>2, <3>3
  <2>6. Min(hits) \in hits
    BY <2>5, MinOf
  <2>7. Hit((selected + Min(hits)) % n, p)
    BY <2>6
  <2> QED  BY <2>3, <2>5, <2>7
<1> QED  BY <1>1, ViewInvariant, PTL

-----------------------------------------------------------------------------
(***************************************************************************)
(* The number of a packet in the list, from its place there.               *)
(***************************************************************************)
Row == IF filtered = None THEN selected + 1 ELSE filtered[selected + 1]
RowIs ==
  Selected # None =>
    /\ selected \in Nat /\ Count \in Nat /\ selected < Count
    /\ filtered = None \/ Count = Len(filtered)
    /\ received - Len(ring) \in Nat /\ Row \in Nat
    /\ Selected.number = received - Len(ring) + Row - 1

LEMMA RowWell == CInv => RowIs
<1> SUFFICES ASSUME CInv, Selected # None
             PROVE  /\ selected \in Nat /\ Count \in Nat /\ selected < Count
                    /\ filtered = None \/ Count = Len(filtered)
                    /\ received - Len(ring) \in Nat /\ Row \in Nat
                    /\ Selected.number = received - Len(ring) + Row - 1
  BY DEF RowIs
<1>1. selected \in Nat /\ Count \in Nat /\ selected < Count
  BY VisibleWell DEF CInv, TypeOK
<1>2. selected + 1 \in 1..Count
  BY <1>1
<1>3. Len(ring) \in Nat /\ DOMAIN ring = 1..Len(ring) /\ received \in Nat
  BY DEF CInv, TypeOK
<1>4. /\ received - Len(ring) \in Nat
      /\ \A i \in 1..Len(ring) : ring[i].number = received - Len(ring) + i - 1
  BY <1>3, Bounds DEF CInv, RingInv
<1>5. Selected = Visible[selected + 1]
  BY <1>1 DEF Selected
<1>6. Row \in 1..Len(ring) /\ Selected = ring[Row]
  <2>1. CASE filtered = None
    <3>1. Visible = ring /\ Count = Len(ring)
      BY <2>1, VisibleWell DEF Count
    <3> QED  BY <1>2, <1>5, <2>1, <3>1 DEF Row
  <2>2. CASE filtered # None
    <3>1. Count = Len(filtered) /\ \A i \in 1..Count : Visible[i] = ring[filtered[i]]
      BY <2>2, VisibleWell
    <3>2. \A i \in 1..Len(filtered) : filtered[i] \in 1..Len(ring)
      BY <2>2, FilteredWell
    <3> QED  BY <1>2, <1>5, <2>2, <3>1, <3>2 DEF Row
  <2> QED  BY <2>1, <2>2
<1>7. filtered = None \/ Count = Len(filtered)
  BY VisibleWell
<1>8. Row \in Nat /\ Selected.number = received - Len(ring) + Row - 1
  <2> DEFINE r == Row
  <2> HIDE DEF r
  <2>1. r \in Nat /\ ring[r].number = received - Len(ring) + r - 1
    BY <1>3, <1>4, <1>6 DEF r
  <2> QED  BY <1>6, <2>1 DEF r
<1> QED  BY <1>1, <1>4, <1>7, <1>8

LEMMA RowInside == ASSUME NEW n \in Nat, NEW a \in Nat, a < n PROVE a + 1 \in 1..n
OBVIOUS

LEMMA SameOrAfter ==
  ASSUME NEW a \in Nat, NEW b \in Nat, b >= a
  PROVE  b = a \/ a + 1 < b + 1
OBVIOUS

LEMMA StepForward ==
  CInv /\ CInv' /\ [Next]_vars
    => (turn = "drain" /\ Selected # None /\ Selected' # None
          => Selected'.number >= Selected.number)
<1> SUFFICES ASSUME CInv, CInv', [Next]_vars, turn = "drain", Selected # None,
                    Selected' # None
             PROVE  Selected'.number >= Selected.number
  OBVIOUS
<1>1. RowIs /\ RowIs'
  <2>1. RowIs
    BY RowWell
  <2>2. RowIs'
    BY RowWell, PTL
  <2> QED  BY <2>1, <2>2
<1> DEFINE old == received - Len(ring)
           new == received' - Len(ring')
<1>2. /\ selected \in Nat /\ Count \in Nat /\ selected < Count
      /\ filtered = None \/ Count = Len(filtered)
      /\ old \in Nat /\ Row \in Nat
      /\ Selected.number = old + Row - 1
  BY <1>1 DEF RowIs
<1>3. /\ selected' \in Nat /\ Count' \in Nat /\ selected' < Count'
      /\ filtered' = None \/ Count' = Len(filtered')
      /\ new \in Nat /\ Row' \in Nat
      /\ Selected'.number = new + Row' - 1
  BY <1>1 DEF RowIs
<1>4. /\ (new >= old /\ Row' >= Row => Selected'.number >= Selected.number)
      /\ (new = old + 1 /\ Row' + 1 >= Row => Selected'.number >= Selected.number)
  <2> DEFINE a == Selected.number
             b == Selected'.number
             r == Row
             t == Row'
  <2>1. /\ old \in Nat /\ new \in Nat /\ r \in Nat /\ t \in Nat
        /\ a = old + r - 1 /\ b = new + t - 1
    BY <1>2, <1>3
  <2> HIDE DEF old, new, a, b, r, t
  <2>2. /\ (new >= old /\ t >= r => b >= a)
        /\ (new = old + 1 /\ t + 1 >= r => b >= a)
    BY <2>1
  <2> QED  BY <2>2 DEF a, b, r, t
<1>5. new = old => new >= old
  BY <1>2, <1>3
<1> HIDE DEF old, new
<1>6. CASE Take
  <2>1. selected' = selected /\ received' = received + 1 /\ received \in Nat
    BY <1>6 DEF Take, CInv, TypeOK
  <2>2. /\ Len(ring) \in Nat /\ Len(ring') \in Nat
        /\ ~Evicts => Len(ring') = Len(ring) + 1
        /\ Evicts => Len(ring') = Len(ring)
    BY <1>6, TakeMoves DEF Moves, MovesUp, MovesOut
  <2>3. (~Evicts => new = old) /\ (Evicts => new = old + 1)
    BY <2>1, <2>2 DEF old, new
  <2>4. (~Evicts => Row' >= Row) /\ (Evicts => Row' + 1 >= Row)
    <3>1. CASE filtered = None
      <4>1. filtered' = None
        BY <1>6, <3>1 DEF Take
      <4>2. Row' = Row
        BY <2>1, <3>1, <4>1 DEF Row
      <4> QED  BY <1>2, <4>2
    <3>2. CASE filtered # None
      <4>1. /\ filtered' # None
            /\ ~Evicts => \A k \in DOMAIN filtered : filtered'[k] = filtered[k]
            /\ Evicts => \A k \in DOMAIN filtered \cap DOMAIN filtered' :
                           filtered'[k] + 1 >= filtered[k]
        BY <1>6, <3>2, TakeFilters
      <4>2. Row = filtered[selected + 1] /\ Row' = filtered'[selected + 1]
        BY <2>1, <3>2, <4>1 DEF Row
      <4>3. DOMAIN filtered = 1..Len(filtered) /\ Len(filtered) \in Nat
        BY <3>2, FilteredWell
      <4>4. DOMAIN filtered' = 1..Len(filtered')
        <5>1. filtered' \in Seq(1..RingCap)
          BY <4>1 DEF CInv, TypeOK
        <5> QED  BY <5>1
      <4>5. selected + 1 \in DOMAIN filtered
        <5>1. selected \in Nat /\ selected < Len(filtered)
          BY <1>2, <3>2
        <5> QED  BY <4>3, <5>1
      <4>6. selected + 1 \in DOMAIN filtered'
        <5>1. selected \in Nat /\ Len(filtered') \in Nat /\ selected < Len(filtered')
          BY <1>2, <1>3, <2>1, <4>1
        <5> QED  BY <4>4, <5>1
      <4> QED  BY <1>2, <4>1, <4>2, <4>5, <4>6
    <3> QED  BY <3>1, <3>2
  <2> QED  BY <1>4, <1>5, <2>3, <2>4
<1>7. CASE Drained
  <2>1. UNCHANGED <<ring, filtered, received>> /\ selected' = Scrolled
    BY <1>7 DEF Drained, filter
  <2>2. new = old
    BY <2>1 DEF old, new
  <2>3. selected' >= selected
    BY <1>2, <2>1 DEF Scrolled
  <2>4. Row' >= Row
    <3>1. CASE filtered = None
      BY <1>2, <1>3, <2>1, <2>3, <3>1 DEF Row
    <3>2. CASE filtered # None
      <4>1. Row = filtered[selected + 1] /\ Row' = filtered[selected' + 1]
        BY <2>1, <3>2 DEF Row
      <4>2. /\ DOMAIN filtered = 1..Len(filtered) /\ Len(filtered) \in Nat
            /\ \A i, j \in DOMAIN filtered : i < j => filtered[i] < filtered[j]
        BY <3>2, FilteredWell
      <4>3. selected + 1 \in DOMAIN filtered /\ selected' + 1 \in DOMAIN filtered
        <5>1. selected \in Nat /\ selected < Len(filtered)
          BY <1>2, <3>2
        <5>2. selected' \in Nat /\ selected' < Len(filtered)
          <6>1. filtered' = filtered
            BY <2>1
          <6> QED  BY <1>3, <3>2, <6>1
        <5> QED  BY <4>2, <5>1, <5>2, RowInside
      <4>4. selected' = selected \/ selected + 1 < selected' + 1
        <5>1. selected \in Nat
          BY <1>2
        <5>2. selected' \in Nat
          BY <1>3
        <5> QED  BY <2>3, <5>1, <5>2, SameOrAfter
      <4>5. Row \in Nat /\ Row' \in Nat
        BY <1>2, <1>3
      <4>6. CASE selected' = selected
        BY <4>1, <4>5, <4>6
      <4>7. CASE selected + 1 < selected' + 1
        <5>1. Row < Row'
          BY <4>1, <4>2, <4>3, <4>7
        <5> QED  BY <4>5, <5>1
      <4> QED  BY <4>4, <4>6, <4>7
    <3> QED  BY <3>1, <3>2
  <2> QED  BY <1>4, <1>5, <2>2, <2>4
<1>8. CASE UNCHANGED <<ring, filtered, selected>>
  <2>1. Selected' = Selected
    BY <1>8 DEF Selected, Count, Visible
  <2> HIDE DEF old
  <2> QED  BY <1>2, <2>1
<1> QED
  BY <1>6, <1>7, <1>8
  DEF Next, NoKey, DrawPanics, Quit, StartSearch, Toggle, Move, Close, Follow, Bookmark,
      Pause, NextMatch, StartFilter, Backspace, Shift, Leave, Clear, Apply, Type, Search,
      EndSearch, Ended, Read, Frame, Arrive, filter, vars

\* Packets that come in may push the selection to later packets, when the one it was
\* on is evicted or when it follows the end, and never to an earlier one
\* (drain_packets, tui/mod.rs:491-530).
THEOREM OnlyForward == Spec => NeverBackwards
<1>1. CInv /\ CInv' /\ [Next]_vars
        => [turn = "drain" /\ Selected # None /\ Selected' # None
              => Selected'.number >= Selected.number]_vars
  BY StepForward
<1> QED  BY <1>1, ViewInvariant, PTL DEF Spec, NeverBackwards
=============================================================================
