--------------------------- MODULE Parsers_proofs ---------------------------
(***************************************************************************)
(* Proofs about Parsers.                                                   *)
(***************************************************************************)
EXTENDS Parsers, SequenceTheorems, FunctionTheorems, FiniteSetTheorems,
        WellFoundedInduction, TLAPS

LEMMA SetInduction ==
  ASSUME NEW T, 0 \in T, \A n \in Nat : n \in T => n + 1 \in T
  PROVE  Nat \subseteq T
<1> DEFINE R == OpToRel(<, Nat)
           U == Nat \ T
<1> SUFFICES ASSUME U # {} PROVE FALSE
  OBVIOUS
<1>1. PICK n \in U : \A m \in U : <<m, n>> \notin R
  <2>1. IsWellFoundedOn(R, Nat) /\ U \subseteq Nat
    BY NatLessThanWellFounded
  <2> HIDE DEF R, U
  <2> QED  BY <2>1, WFMin
<1>2. n # 0 /\ n \in Nat
  BY <1>1
<1>3. n - 1 \in Nat /\ n - 1 \notin T => FALSE
  <2> SUFFICES ASSUME n - 1 \in Nat, n - 1 \notin T PROVE FALSE
    OBVIOUS
  <2>1. <<n - 1, n>> \in R
    BY <1>2 DEF OpToRel
  <2> QED  BY <1>1, <2>1
<1>4. n - 1 \in Nat /\ (n - 1) + 1 = n
  BY <1>2
<1> QED  BY <1>1, <1>3, <1>4

(***************************************************************************)
(* An input and a longer one that begins with it.                          *)
(***************************************************************************)
Bytes == Seq(Byte)
Continues(e, d) == Len(d) <= Len(e) /\ \A i \in 0 .. Len(d) - 1 : At(e, i) = At(d, i)

LEMMA Reads ==
  ASSUME NEW d \in Bytes
  PROVE  /\ Len(d) \in Nat
         /\ \A i \in 0 .. Len(d) - 1 : At(d, i) \in Byte /\ At(d, i) \in Nat /\ At(d, i) < 256
         /\ \A i \in 0 .. Len(d) - 2 : U16(d, i) \in Nat
         /\ \A i \in 0 .. Len(d) - 3 : U24(d, i) \in Nat
<1>1. Len(d) \in Nat /\ \A i \in 1 .. Len(d) : d[i] \in Byte
  BY LenProperties, ElementOfSeq DEF Bytes
<1>2. \A i \in 0 .. Len(d) - 1 : At(d, i) \in Byte /\ At(d, i) \in Nat /\ At(d, i) < 256
  <2> TAKE i \in 0 .. Len(d) - 1
  <2>1. i + 1 \in 1 .. Len(d)
    BY <1>1
  <2>2. At(d, i) \in Byte
    BY <1>1, <2>1 DEF At
  <2>3. \A b \in Byte : b \in Nat /\ b < 256
    BY DEF Byte
  <2> QED  BY <2>2, <2>3
<1>3. \A i \in 0 .. Len(d) - 2 : U16(d, i) \in Nat
  BY <1>1, <1>2, SMTT(30) DEF U16
<1>4. \A i \in 0 .. Len(d) - 3 : U24(d, i) \in Nat
  <2> TAKE i \in 0 .. Len(d) - 3
  <2>1. i \in 0 .. Len(d) - 1 /\ i + 1 \in 0 .. Len(d) - 2
    BY <1>1
  <2>2. At(d, i) \in Nat /\ U16(d, i + 1) \in Nat
    BY <1>2, <1>3, <2>1
  <2> QED  BY <2>2 DEF U24
<1> QED  BY <1>1, <1>2, <1>3, <1>4

LEMMA ReadsOnward ==
  ASSUME NEW d \in Bytes, NEW e \in Bytes, Continues(e, d)
  PROVE  /\ Len(d) <= Len(e)
         /\ \A i \in 0 .. Len(d) - 1 : At(e, i) = At(d, i)
         /\ \A i \in 0 .. Len(d) - 2 : U16(e, i) = U16(d, i)
         /\ \A i \in 0 .. Len(d) - 3 : U24(e, i) = U24(d, i)
<1>1. Len(d) \in Nat
  BY Reads
<1>2. Len(d) <= Len(e) /\ \A i \in 0 .. Len(d) - 1 : At(e, i) = At(d, i)
  BY DEF Continues
<1>3. \A i \in 0 .. Len(d) - 2 : U16(e, i) = U16(d, i)
  BY <1>1, <1>2 DEF U16
<1>4. \A i \in 0 .. Len(d) - 3 : U24(e, i) = U24(d, i)
  BY <1>1, <1>2, <1>3 DEF U24
<1> QED  BY <1>2, <1>3, <1>4

LEMMA SliceIs ==
  ASSUME NEW d \in Bytes, NEW a \in Nat, NEW b \in Nat, a <= b, b <= Len(d)
  PROVE  /\ Slice(d, a, b) \in Bytes
         /\ Len(Slice(d, a, b)) = b - a
         /\ \A i \in 1 .. b - a : Slice(d, a, b)[i] = d[a + i]
<1>1. Len(d) \in Nat /\ \A i \in 1 .. Len(d) : d[i] \in Byte
  BY LenProperties, ElementOfSeq DEF Bytes
<1>2. a + 1 \in Int /\ b \in Int /\ \A i \in a + 1 .. b : d[i] \in Byte
  BY <1>1
<1>3. /\ SubSeq(d, a + 1, b) \in Seq(Byte)
      /\ Len(SubSeq(d, a + 1, b)) = IF a + 1 <= b THEN b - (a + 1) + 1 ELSE 0
      /\ \A i \in 1 .. b - (a + 1) + 1 : SubSeq(d, a + 1, b)[i] = d[(a + 1) + i - 1]
  BY <1>2, SubSeqProperties
<1>4. b - (a + 1) + 1 = b - a /\ (a + 1 > b => b - a = 0)
  OBVIOUS
<1>5. \A i \in 1 .. b - a : (a + 1) + i - 1 = a + i
  OBVIOUS
<1> QED  BY <1>3, <1>4, <1>5 DEF Slice, Bytes

LEMMA SliceSame ==
  ASSUME NEW d \in Bytes, NEW e \in Bytes, Continues(e, d),
         NEW a \in Nat, NEW b \in Nat, a <= b, b <= Len(d)
  PROVE  Slice(e, a, b) = Slice(d, a, b)
<1>1. Len(d) <= Len(e) /\ Len(d) \in Nat /\ Len(e) \in Nat
      /\ \A i \in 0 .. Len(d) - 1 : At(e, i) = At(d, i)
  BY Reads, ReadsOnward
<1>2. b <= Len(e)
  BY <1>1
<1>3. \A i \in 1 .. b - a : e[a + i] = d[a + i]
  <2> TAKE i \in 1 .. b - a
  <2>1. a + i - 1 \in 0 .. Len(d) - 1 /\ (a + i - 1) + 1 = a + i
    BY <1>1
  <2> QED  BY <1>1, <2>1 DEF At
<1>4. /\ Slice(e, a, b) \in Bytes /\ Slice(d, a, b) \in Bytes
      /\ Len(Slice(e, a, b)) = b - a /\ Len(Slice(d, a, b)) = b - a
      /\ \A i \in 1 .. b - a : Slice(e, a, b)[i] = Slice(d, a, b)[i]
  BY <1>2, <1>3, SliceIs
<1> QED  BY <1>4, SeqEqual DEF Bytes

LEMMA AppendContinues ==
  ASSUME NEW d \in Bytes, NEW x \in Byte
  PROVE  Append(d, x) \in Bytes /\ Continues(Append(d, x), d)
<1>1. /\ Append(d, x) \in Seq(Byte) /\ Len(Append(d, x)) = Len(d) + 1 /\ Len(d) \in Nat
      /\ \A i \in 1 .. Len(d) : Append(d, x)[i] = d[i]
  BY AppendProperties, LenProperties DEF Bytes
<1> QED  BY <1>1 DEF Bytes, Continues, At

\* The recursion of Run has a solution, whose last value is Run.
RunBy(d, start, end, size, k, f) ==
  f = [i \in 0 .. k |->
         IF i = 0 THEN [at |-> start, got |-> << >>] ELSE Take(d, end, size, f[i - 1])]

LEMMA RunByExists ==
  ASSUME NEW d, NEW start, NEW end, NEW size
  PROVE  \A k \in Nat : \E f : RunBy(d, start, end, size, k, f)
<1> DEFINE T == {k \in Nat : \E f : RunBy(d, start, end, size, k, f)}
           zero == [at |-> start, got |-> << >>]
           after(x) == Take(d, end, size, x)
<1>1. 0 \in T
  <2> DEFINE f == [i \in 0 .. 0 |-> zero]
  <2>1. f = [i \in 0 .. 0 |-> IF i = 0 THEN zero ELSE after(f[i - 1])]
    <3> HIDE DEF zero, after
    <3> QED  OBVIOUS
  <2>2. RunBy(d, start, end, size, 0, f)
    BY <2>1, Zenon DEF RunBy
  <2> QED  BY <2>2
<1>2. ASSUME NEW k \in Nat, k \in T PROVE k + 1 \in T
  <2>1. PICK f : RunBy(d, start, end, size, k, f)
    BY <1>2
  <2> DEFINE g == [i \in 0 .. k + 1 |-> IF i = k + 1 THEN after(f[k]) ELSE f[i]]
             h == [i \in 0 .. k + 1 |-> IF i = 0 THEN zero ELSE after(g[i - 1])]
  <2>2. f = [i \in 0 .. k |-> IF i = 0 THEN zero ELSE after(f[i - 1])]
    BY <2>1, Zenon DEF RunBy
  <2> HIDE DEF zero, after
  <2>3. \A i \in 0 .. k : f[i] = IF i = 0 THEN zero ELSE after(f[i - 1])
    BY <2>2
  <2>4. /\ \A i \in 0 .. k : g[i] = f[i]
        /\ g[k + 1] = after(f[k])
    <3>1. k + 1 \in 0 .. k + 1 /\ \A i \in 0 .. k : i \in 0 .. k + 1 /\ i # k + 1
      OBVIOUS
    <3>2. g[k + 1] = after(f[k])
      BY <3>1, Zenon
    <3>3. ASSUME NEW i \in 0 .. k PROVE g[i] = f[i]
      BY <3>1, Zenon
    <3> QED  BY <3>2, <3>3
  <2>5. \A i \in 0 .. k + 1 : h[i] = IF i = 0 THEN zero ELSE after(g[i - 1])
    BY DEF h
  <2> HIDE DEF g, h
  <2>6. ASSUME NEW i \in 0 .. k + 1 PROVE g[i] = h[i]
    <3>1. CASE i = 0
      <4>1. 0 \in 0 .. k
        OBVIOUS
      <4> QED  BY <2>3, <2>4, <2>5, <3>1, <4>1
    <3>2. CASE i \in 1 .. k
      <4>1. i # 0 /\ i \in 0 .. k /\ i - 1 \in 0 .. k
        BY <3>2
      <4> QED  BY <2>3, <2>4, <2>5, <4>1
    <3>3. CASE i = k + 1
      <4>1. i # 0 /\ i - 1 = k /\ k \in 0 .. k
        BY <3>3
      <4> QED  BY <2>4, <2>5, <3>3, <4>1
    <3> QED  BY <3>1, <3>2, <3>3
  <2>7. g = h
    BY <2>6 DEF g, h
  <2>8. g = [i \in 0 .. k + 1 |-> IF i = 0 THEN zero ELSE after(g[i - 1])]
    BY <2>7 DEF h
  <2> USE DEF zero, after
  <2> HIDE DEF g, h
  <2>9. RunBy(d, start, end, size, k + 1, g)
    BY <2>8, Zenon DEF RunBy
  <2>10. k + 1 \in Nat
    OBVIOUS
  <2> QED  BY <2>9, <2>10, Zenon
<1> HIDE DEF T
<1>3. Nat \subseteq T
  BY <1>1, <1>2, SetInduction
<1> QED  BY <1>3 DEF T

RunSteps(d, start, end, size, f) ==
  /\ Run(d, start, end, size) = f[end]
  /\ f[0] = [at |-> start, got |-> << >>]
  /\ \A i \in 1 .. end : f[i] = Take(d, end, size, f[i - 1])

LEMMA RunByIs ==
  ASSUME NEW d, NEW start, NEW end \in Nat, NEW size
  PROVE  \E f : RunSteps(d, start, end, size, f)
<1> DEFINE f == CHOOSE f : RunBy(d, start, end, size, end, f)
<1>1. RunBy(d, start, end, size, end, f)
  <2>1. \E g : RunBy(d, start, end, size, end, g)
    BY RunByExists
  <2> QED  BY <2>1, Zenon
<1>2. Run(d, start, end, size) = f[end]
  BY Zenon DEF Run, RunBy
<1> HIDE DEF f
<1>3. /\ f[0] = [at |-> start, got |-> << >>]
      /\ \A i \in 1 .. end : f[i] = Take(d, end, size, f[i - 1])
  BY <1>1 DEF RunBy
<1> QED  BY <1>2, <1>3 DEF RunSteps

(***************************************************************************)
(* A run of entries moves on or is stuck, and is stuck in the end.         *)
(***************************************************************************)
Sized(end, size) == \A p \in 0 .. end - 1 : size[p] = Nothing \/ size[p] \in Nat \ {0}
Runs == [at : Nat, got : Seq(Bytes)]
Whole(end, size, run) ==
  /\ run.at < end /\ size[run.at] # Nothing /\ run.at + size[run.at] <= end
Taken(d, size, run) ==
  [at  |-> run.at + size[run.at],
   got |-> Append(run.got, Slice(d, run.at, run.at + size[run.at]))]

LEMMA TakeIs ==
  ASSUME NEW d \in Bytes, NEW end \in Nat, end <= Len(d), NEW size, Sized(end, size),
         NEW run \in Runs
  PROVE  /\ Whole(end, size, run) =>
              /\ Take(d, end, size, run) = Taken(d, size, run)
              /\ Taken(d, size, run) \in Runs
              /\ Taken(d, size, run).at > run.at
              /\ Taken(d, size, run).at <= end
              /\ size[run.at] \in Nat \ {0}
         /\ ~Whole(end, size, run) => Take(d, end, size, run) = run
<1>1. run.at \in Nat /\ run.got \in Seq(Bytes)
  BY DEF Runs
<1>2. ASSUME Whole(end, size, run)
      PROVE  /\ Take(d, end, size, run) = Taken(d, size, run)
             /\ Taken(d, size, run) \in Runs
             /\ Taken(d, size, run).at > run.at
             /\ Taken(d, size, run).at <= end
             /\ size[run.at] \in Nat \ {0}
  <2> DEFINE a == run.at
             n == size[a]
  <2>1. a \in Nat /\ a < end /\ n # Nothing /\ a + n <= end
    BY <1>1, <1>2 DEF Whole
  <2>2. n \in Nat \ {0}
    <3>1. a \in 0 .. end - 1
      BY <2>1
    <3> QED  BY <2>1, <3>1 DEF Sized
  <2>3. Take(d, end, size, run) = Taken(d, size, run)
    <3>1. ~(a >= end) /\ n # Nothing /\ ~(a + n > end)
      BY <2>1, <2>2
    <3> QED  BY <3>1 DEF Take, Taken
  <2>4. Slice(d, a, a + n) \in Bytes /\ a + n \in Nat /\ a + n > a
    <3> HIDE DEF a, n
    <3>1. Len(d) \in Nat /\ a + n \in Nat /\ a <= a + n /\ a + n <= Len(d) /\ a + n > a
      BY <2>1, <2>2, Reads
    <3> QED  BY <2>1, <3>1, SliceIs
  <2>5. Append(run.got, Slice(d, a, a + n)) \in Seq(Bytes)
    BY <1>1, <2>4, AppendProperties
  <2> QED  BY <2>1, <2>2, <2>3, <2>4, <2>5 DEF Taken, Runs
<1>3. ASSUME ~Whole(end, size, run)
      PROVE  Take(d, end, size, run) = run
  <2> DEFINE a == run.at
  <2>1. a >= end \/ size[a] = Nothing \/ (size[a] # Nothing /\ a < end /\ ~(a + size[a] <= end))
    BY <1>1, <1>3 DEF Whole
  <2>2. CASE a >= end
    BY <2>2 DEF Take
  <2>3. CASE size[a] = Nothing
    BY <2>3 DEF Take
  <2>4. CASE size[a] # Nothing /\ a < end /\ ~(a + size[a] <= end)
    <3>1. size[a] \in Nat
      <4>1. a \in 0 .. end - 1
        BY <1>1, <2>4
      <4> QED  BY <2>4, <4>1 DEF Sized
    <3>2. a + size[a] > end
      <4> HIDE DEF a
      <4>1. a \in Nat
        BY <1>1 DEF a
      <4> QED  BY <2>4, <3>1, <4>1
    <3> QED  BY <3>2 DEF Take
  <2> QED  BY <2>1, <2>2, <2>3, <2>4
<1> QED  BY <1>2, <1>3

LEMMA RunAdvances ==
  ASSUME NEW d \in Bytes, NEW start \in Nat, NEW end \in Nat, end <= Len(d),
         NEW size, Sized(end, size), NEW f, RunSteps(d, start, end, size, f)
  PROVE  \A i \in 0 .. end :
           /\ f[i] \in Runs /\ f[i].at >= start
           /\ f[i].at >= start + i \/ ~Whole(end, size, f[i])
<1> DEFINE Ok(i) == /\ f[i] \in Runs /\ f[i].at >= start
                    /\ f[i].at >= start + i \/ ~Whole(end, size, f[i])
           T == {i \in Nat : i <= end => Ok(i)}
<1>1. 0 \in T
  <2>1. << >> \in Seq(Bytes)
    BY EmptySeq
  <2>2. f[0] \in Runs /\ f[0].at = start
    BY <2>1 DEF Runs, RunSteps
  <2> QED  BY <2>2
<1>2. ASSUME NEW i \in Nat, i \in T PROVE i + 1 \in T
  <2> SUFFICES ASSUME i + 1 <= end PROVE Ok(i + 1)
    OBVIOUS
  <2>1. i <= end /\ i + 1 \in 1 .. end /\ (i + 1) - 1 = i
    OBVIOUS
  <2>2. Ok(i)
    BY <1>2, <2>1
  <2>3. f[i + 1] = Take(d, end, size, f[i])
    BY <2>1 DEF RunSteps
  <2>4. CASE Whole(end, size, f[i])
    <3>1. f[i + 1] \in Runs /\ f[i + 1].at > f[i].at
      BY <2>2, <2>3, <2>4, TakeIs
    <3>2. f[i].at >= start + i /\ f[i].at \in Nat /\ f[i + 1].at \in Nat
      BY <2>2, <2>4, <3>1 DEF Runs
    <3> QED  BY <3>1, <3>2
  <2>5. CASE ~Whole(end, size, f[i])
    <3>1. f[i + 1] = f[i]
      BY <2>2, <2>3, <2>5, TakeIs
    <3> QED  BY <2>2, <2>5, <3>1
  <2> QED  BY <2>4, <2>5
<1> HIDE DEF T
<1>3. Nat \subseteq T
  BY <1>1, <1>2, SetInduction
<1> QED  BY <1>3 DEF T

\* Once stuck, always stuck.
LEMMA RunStays ==
  ASSUME NEW d \in Bytes, NEW start, NEW end \in Nat, end <= Len(d),
         NEW size, Sized(end, size), NEW f, RunSteps(d, start, end, size, f)
  PROVE  \A k \in 0 .. end : f[k] \in Runs /\ ~Whole(end, size, f[k]) => f[end] = f[k]
<1> SUFFICES ASSUME NEW k \in 0 .. end, f[k] \in Runs, ~Whole(end, size, f[k])
             PROVE  f[end] = f[k]
  OBVIOUS
<1> DEFINE T == {n \in Nat : k + n <= end => f[k + n] = f[k]}
<1>1. 0 \in T
  OBVIOUS
<1>2. ASSUME NEW n \in Nat, n \in T PROVE n + 1 \in T
  <2> SUFFICES ASSUME k + (n + 1) <= end PROVE f[k + (n + 1)] = f[k]
    OBVIOUS
  <2>1. k + n <= end /\ k + (n + 1) \in 1 .. end /\ (k + (n + 1)) - 1 = k + n
    OBVIOUS
  <2>2. f[k + n] = f[k]
    BY <1>2, <2>1
  <2>3. f[k + (n + 1)] = Take(d, end, size, f[k])
    BY <2>1, <2>2 DEF RunSteps
  <2> QED  BY <2>3, TakeIs
<1> HIDE DEF T
<1>3. Nat \subseteq T
  BY <1>1, <1>2, SetInduction
<1>4. end - k \in Nat /\ k + (end - k) = end /\ k + (end - k) <= end
  OBVIOUS
<1>5. f[k + (end - k)] = f[k]
  BY <1>3, <1>4 DEF T
<1> QED  BY <1>4, <1>5

LEMMA RunEnds ==
  ASSUME NEW d \in Bytes, NEW start \in Nat, NEW end \in Nat, end <= Len(d),
         NEW size, Sized(end, size)
  PROVE  /\ Run(d, start, end, size) \in Runs
         /\ Run(d, start, end, size).at >= start
         /\ ~Whole(end, size, Run(d, start, end, size))
<1>1. PICK f : RunSteps(d, start, end, size, f)
  BY RunByIs
<1>2. /\ f[end] \in Runs /\ f[end].at >= start
      /\ f[end].at >= start + end \/ ~Whole(end, size, f[end])
  <2>1. \A i \in 0 .. end :
           /\ f[i] \in Runs /\ f[i].at >= start
           /\ f[i].at >= start + i \/ ~Whole(end, size, f[i])
    BY <1>1, RunAdvances
  <2> QED  BY <2>1
<1>3. f[end].at >= start + end => ~Whole(end, size, f[end])
  BY <1>2 DEF Whole, Runs
<1> QED  BY <1>1, <1>2, <1>3 DEF RunSteps

(***************************************************************************)
(* The labels of a name, when more of the message is there.                *)
(***************************************************************************)
Labels(d, pos) == Run(d, pos, Len(d), LabelSize(d))
Ended(d, pos) ==
  Labels(d, pos).at < Len(d) /\ At(d, Labels(d, pos).at) \notin 1 .. 191

LEMMA LabelSizes ==
  ASSUME NEW d \in Bytes, Nothing \notin Nat
  PROVE  /\ Sized(Len(d), LabelSize(d))
         /\ \A p \in 0 .. Len(d) - 1 :
              /\ At(d, p) \in 1 .. 191 => LabelSize(d)[p] = 1 + At(d, p)
              /\ At(d, p) \notin 1 .. 191 => LabelSize(d)[p] = Nothing
              /\ LabelSize(d)[p] # Nothing => At(d, p) \in 1 .. 191
<1>1. ASSUME NEW p \in 0 .. Len(d) - 1
      PROVE  /\ At(d, p) \in 1 .. 191 => LabelSize(d)[p] = 1 + At(d, p)
             /\ At(d, p) \notin 1 .. 191 => LabelSize(d)[p] = Nothing
             /\ LabelSize(d)[p] # Nothing => At(d, p) \in 1 .. 191
             /\ LabelSize(d)[p] = Nothing \/ LabelSize(d)[p] \in Nat \ {0}
  <2>1. p \in Nat /\ At(d, p) \in Nat
    BY Reads
  <2>2. LabelSize(d)[p] = IF At(d, p) \in 1 .. 191 THEN 1 + At(d, p) ELSE Nothing
    BY <2>1 DEF LabelSize
  <2> QED  BY <2>1, <2>2
<1> QED  BY <1>1 DEF Sized

LEMMA LabelsKept ==
  ASSUME NEW d \in Bytes, NEW e \in Bytes, Continues(e, d), Nothing \notin Nat,
         NEW pos \in Nat,
         Ended(d, pos)
  PROVE  Labels(e, pos) = Labels(d, pos)
<1> DEFINE m == Len(d)
           n == Len(e)
           r == Labels(d, pos)
           sd == LabelSize(d)
           se == LabelSize(e)
<1>1. /\ m \in Nat /\ n \in Nat /\ m <= n
      /\ \A i \in 0 .. m - 1 : At(e, i) = At(d, i)
  BY Reads, ReadsOnward
<1>2. Sized(m, sd) /\ Sized(n, se)
  BY LabelSizes
<1>3. PICK f : RunSteps(d, pos, m, sd, f)
  BY <1>1, RunByIs
<1>4. PICK g : RunSteps(e, pos, n, se, g)
  BY <1>1, RunByIs
<1>5. r = f[m] /\ Labels(e, pos) = g[n]
  BY <1>3, <1>4 DEF Labels, RunSteps
<1>6. r.at < m /\ At(d, r.at) \notin 1 .. 191
  BY DEF Ended
<1>7. /\ \A i \in 1 .. m : f[i] = Take(d, m, sd, f[i - 1])
      /\ \A i \in 1 .. n : g[i] = Take(e, n, se, g[i - 1])
      /\ f[0] = [at |-> pos, got |-> << >>] /\ f[0] = g[0]
  BY <1>3, <1>4 DEF RunSteps
<1>10. m <= Len(d) /\ n <= Len(e) /\ m = Len(d)
  BY <1>1
<1>8. /\ \A p \in 0 .. m - 1 :
           /\ At(d, p) \in 1 .. 191 => sd[p] = 1 + At(d, p)
           /\ At(d, p) \notin 1 .. 191 => sd[p] = Nothing
      /\ \A p \in 0 .. n - 1 :
           /\ At(e, p) \in 1 .. 191 => se[p] = 1 + At(e, p)
           /\ At(e, p) \notin 1 .. 191 => se[p] = Nothing
  BY LabelSizes
<1> HIDE DEF m, n, r, sd, se
<1>9. ASSUME NEW p \in 0 .. m - 1
      PROVE  /\ sd[p] = se[p]
             /\ At(d, p) \notin 1 .. 191 => se[p] = Nothing
  <2>1. p \in 0 .. n - 1 /\ At(e, p) = At(d, p)
    BY <1>1
  <2>2. CASE At(d, p) \in 1 .. 191
    BY <1>8, <2>1, <2>2
  <2>3. CASE At(d, p) \notin 1 .. 191
    BY <1>8, <2>1, <2>3
  <2> QED  BY <2>2, <2>3
<1>20. \A i \in 0 .. m : f[i] \in Runs
  <2>1. \A i \in 0 .. m : /\ f[i] \in Runs /\ f[i].at >= pos
                          /\ f[i].at >= pos + i \/ ~Whole(m, sd, f[i])
    BY <1>1, <1>2, <1>3, <1>10, RunAdvances
  <2> QED  BY <2>1
<1>11. r \in Runs /\ r.at \in 0 .. m - 1
  <2>1. m \in 0 .. m
    BY <1>1
  <2>2. r \in Runs
    BY <1>5, <1>20, <2>1
  <2>3. r.at \in Nat
    BY <2>2 DEF Runs
  <2> QED  BY <1>1, <1>6, <2>2, <2>3
<1>12. ~Whole(n, se, r)
  <2>1. se[r.at] = Nothing
    BY <1>6, <1>9, <1>11
  <2> QED  BY <2>1 DEF Whole
<1> DEFINE T == {i \in Nat : i <= m => g[i] = f[i]}
<1>13. 0 \in T
  BY <1>7
<1>14. ASSUME NEW i \in Nat, i \in T PROVE i + 1 \in T
  <2> SUFFICES ASSUME i + 1 <= m PROVE g[i + 1] = f[i + 1]
    OBVIOUS
  <2>1. i \in 0 .. m /\ i + 1 \in 1 .. m /\ i + 1 \in 1 .. n /\ (i + 1) - 1 = i
    BY <1>1
  <2>2. g[i] = f[i] /\ f[i] \in Runs
    BY <1>20, <1>14, <2>1
  <2>3. f[i + 1] = Take(d, m, sd, f[i]) /\ g[i + 1] = Take(e, n, se, f[i])
    BY <1>7, <2>1, <2>2
  <2>4. CASE Whole(m, sd, f[i])
    <3> DEFINE a == f[i].at
    <3>1. a \in Nat /\ a < m /\ sd[a] # Nothing /\ a + sd[a] <= m
      BY <2>2, <2>4 DEF Whole, Runs
    <3>2. sd[a] = se[a] /\ sd[a] \in Nat \ {0}
      <4>1. a \in 0 .. m - 1
        BY <1>1, <3>1
      <4> QED  BY <1>2, <1>9, <3>1, <4>1 DEF Sized
    <3>3. Whole(n, se, f[i])
      <4>1. a < n /\ se[a] # Nothing /\ a + se[a] <= n
        <5> HIDE DEF a
        <5> QED  BY <1>1, <3>1, <3>2
      <4> QED  BY <4>1 DEF Whole
    <3>4. Slice(e, a, a + sd[a]) = Slice(d, a, a + sd[a])
      <4> HIDE DEF a
      <4>1. a \in Nat /\ a + sd[a] \in Nat /\ a <= a + sd[a] /\ a + sd[a] <= Len(d)
        BY <1>1, <1>10, <3>1, <3>2
      <4> QED  BY <4>1, SliceSame
    <3>5. Taken(e, se, f[i]) = Taken(d, sd, f[i])
      BY <3>2, <3>4 DEF Taken
    <3>6. Take(d, m, sd, f[i]) = Taken(d, sd, f[i])
      BY <1>1, <1>2, <1>10, <2>2, <2>4, TakeIs
    <3>7. Take(e, n, se, f[i]) = Taken(e, se, f[i])
      BY <1>1, <1>2, <1>10, <2>2, <3>3, TakeIs
    <3> QED  BY <2>3, <3>5, <3>6, <3>7
  <2>5. CASE ~Whole(m, sd, f[i])
    <3>1. f[m] = f[i]
      <4>1. \A k \in 0 .. m : f[k] \in Runs /\ ~Whole(m, sd, f[k]) => f[m] = f[k]
        <5>1. m \in Nat /\ m <= Len(d) /\ Sized(m, sd) /\ RunSteps(d, pos, m, sd, f)
          BY <1>1, <1>2, <1>3, <1>10
        <5> QED  BY <5>1, RunStays
      <4> QED  BY <2>1, <2>2, <2>5, <4>1
    <3>2. f[i] = r
      BY <1>5, <3>1
    <3>3. Take(d, m, sd, r) = r
      BY <1>1, <1>2, <1>10, <1>11, <2>5, <3>2, TakeIs
    <3>4. Take(e, n, se, r) = r
      BY <1>1, <1>2, <1>10, <1>11, <1>12, TakeIs
    <3> QED  BY <2>3, <3>2, <3>3, <3>4
  <2> QED  BY <2>4, <2>5
<1> HIDE DEF T
<1>15. Nat \subseteq T
  BY <1>13, <1>14, SetInduction
<1>16. g[m] = r
  BY <1>1, <1>5, <1>15 DEF T
<1>17. g[n] = g[m]
  <2>1. m \in 0 .. n /\ g[m] \in Runs /\ ~Whole(n, se, g[m])
    BY <1>1, <1>11, <1>12, <1>16
  <2>2. \A k \in 0 .. n : g[k] \in Runs /\ ~Whole(n, se, g[k]) => g[n] = g[k]
    BY <1>1, <1>2, <1>4, <1>10, RunStays
  <2> QED  BY <2>1, <2>2
<1> QED  BY <1>5, <1>16, <1>17 DEF r

\* The recursion of Names.
NamesBy(d, base, k, f) ==
  f = [i \in 0 .. k |->
         IF i = 0 THEN [pos \in Nat |-> Refused]
         ELSE [pos \in Nat |-> DnsName(d, pos, base, f[i - 1])]]

LEMMA NamesByExists ==
  ASSUME NEW d, NEW base
  PROVE  \A k \in Nat : \E f : NamesBy(d, base, k, f)
<1> DEFINE T == {k \in Nat : \E f : NamesBy(d, base, k, f)}
           zero == [pos \in Nat |-> Refused]
           after(x) == [pos \in Nat |-> DnsName(d, pos, base, x)]
<1>1. 0 \in T
  <2> DEFINE f == [i \in 0 .. 0 |-> zero]
  <2>1. f = [i \in 0 .. 0 |-> IF i = 0 THEN zero ELSE after(f[i - 1])]
    <3> HIDE DEF zero, after
    <3> QED  OBVIOUS
  <2>2. NamesBy(d, base, 0, f)
    BY <2>1, Zenon DEF NamesBy
  <2> QED  BY <2>2
<1>2. ASSUME NEW k \in Nat, k \in T PROVE k + 1 \in T
  <2>1. PICK f : NamesBy(d, base, k, f)
    BY <1>2
  <2> DEFINE g == [i \in 0 .. k + 1 |-> IF i = k + 1 THEN after(f[k]) ELSE f[i]]
             h == [i \in 0 .. k + 1 |-> IF i = 0 THEN zero ELSE after(g[i - 1])]
  <2>2. f = [i \in 0 .. k |-> IF i = 0 THEN zero ELSE after(f[i - 1])]
    BY <2>1, Zenon DEF NamesBy
  <2> HIDE DEF zero, after
  <2>3. \A i \in 0 .. k : f[i] = IF i = 0 THEN zero ELSE after(f[i - 1])
    BY <2>2
  <2>4. /\ \A i \in 0 .. k : g[i] = f[i]
        /\ g[k + 1] = after(f[k])
    <3>1. k + 1 \in 0 .. k + 1 /\ \A i \in 0 .. k : i \in 0 .. k + 1 /\ i # k + 1
      OBVIOUS
    <3>2. g[k + 1] = after(f[k])
      BY <3>1, Zenon
    <3>3. ASSUME NEW i \in 0 .. k PROVE g[i] = f[i]
      BY <3>1, Zenon
    <3> QED  BY <3>2, <3>3
  <2>5. \A i \in 0 .. k + 1 : h[i] = IF i = 0 THEN zero ELSE after(g[i - 1])
    BY DEF h
  <2> HIDE DEF g, h
  <2>6. ASSUME NEW i \in 0 .. k + 1 PROVE g[i] = h[i]
    <3>1. CASE i = 0
      <4>1. 0 \in 0 .. k
        OBVIOUS
      <4> QED  BY <2>3, <2>4, <2>5, <3>1, <4>1
    <3>2. CASE i \in 1 .. k
      <4>1. i # 0 /\ i \in 0 .. k /\ i - 1 \in 0 .. k
        BY <3>2
      <4> QED  BY <2>3, <2>4, <2>5, <4>1
    <3>3. CASE i = k + 1
      <4>1. i # 0 /\ i - 1 = k /\ k \in 0 .. k
        BY <3>3
      <4> QED  BY <2>4, <2>5, <3>3, <4>1
    <3> QED  BY <3>1, <3>2, <3>3
  <2>7. g = h
    BY <2>6 DEF g, h
  <2>8. g = [i \in 0 .. k + 1 |-> IF i = 0 THEN zero ELSE after(g[i - 1])]
    BY <2>7 DEF h
  <2> USE DEF zero, after
  <2> HIDE DEF g, h
  <2>9. NamesBy(d, base, k + 1, g)
    BY <2>8, Zenon DEF NamesBy
  <2>10. k + 1 \in Nat
    OBVIOUS
  <2> QED  BY <2>9, <2>10, Zenon
<1> HIDE DEF T
<1>3. Nat \subseteq T
  BY <1>1, <1>2, SetInduction
<1> QED  BY <1>3 DEF T

NamesSteps(d, base, f) ==
  /\ Names(d, base) = f[MaxJumps + 1]
  /\ f[0] = [pos \in Nat |-> Refused]
  /\ \A i \in 1 .. MaxJumps + 1 : f[i] = [pos \in Nat |-> DnsName(d, pos, base, f[i - 1])]

LEMMA NamesByIs ==
  ASSUME NEW d, NEW base
  PROVE  \E f : NamesSteps(d, base, f)
<1> DEFINE k == MaxJumps + 1
           f == CHOOSE f : NamesBy(d, base, k, f)
<1>1. k \in Nat
  BY ParsersAssumption
<1>2. NamesBy(d, base, k, f)
  <2> HIDE DEF k
  <2>1. \E g : NamesBy(d, base, k, g)
    BY <1>1, NamesByExists
  <2> QED  BY <2>1, Zenon
<1>3. Names(d, base) = f[k]
  BY Zenon DEF Names, NamesBy
<1> HIDE DEF f, k
<1>4. /\ f[0] = [pos \in Nat |-> Refused]
      /\ \A i \in 1 .. k : f[i] = [pos \in Nat |-> DnsName(d, pos, base, f[i - 1])]
  <2> DEFINE zero == [pos \in Nat |-> Refused]
             after(x) == [pos \in Nat |-> DnsName(d, pos, base, x)]
  <2>1. f = [i \in 0 .. k |-> IF i = 0 THEN zero ELSE after(f[i - 1])]
    BY <1>2, Zenon DEF NamesBy
  <2> HIDE DEF zero, after
  <2>2. f[0] = zero /\ \A i \in 1 .. k : f[i] = after(f[i - 1])
    BY <1>1, <2>1
  <2> QED  BY <2>2, Zenon DEF zero, after
<1> USE DEF k
<1> QED  BY <1>3, <1>4 DEF NamesSteps

(***************************************************************************)
(* A name that was read ends behind its start and within the message, and  *)
(* is read the same when more of the message is there.                     *)
(***************************************************************************)
LEMMA Pointers ==
  ASSUME NEW d \in Bytes, NEW e \in Bytes, Continues(e, d), NEW p \in 0 .. Len(d) - 2
  PROVE  Pointer(d, p) \in Nat /\ Pointer(e, p) = Pointer(d, p)
<1>1. U16(d, p) \in Nat /\ U16(e, p) = U16(d, p)
  BY Reads, ReadsOnward
<1> DEFINE u == U16(d, p)
<1>2. u % 16384 \in Nat
  <2> HIDE DEF u
  <2>1. u \in Nat
    BY <1>1 DEF u
  <2> QED  BY <2>1
<1> QED  BY <1>1, <1>2 DEF Pointer

NameOk(d, pos, pointed, base) ==
  LET a == Labels(d, pos).at
  IN  /\ a < Len(d)
      /\ \/ At(d, a) = 0
         \/ /\ At(d, a) # 0 /\ ~(At(d, a) < 192) /\ a + 1 < Len(d)
            /\ pointed[base + Pointer(d, a)].ok

LEMMA NameOkIs ==
  ASSUME NEW d \in Bytes, NEW pos \in Nat, NEW base \in Nat, NEW pointed,
         DnsName(d, pos, base, pointed).ok
  PROVE  /\ NameOk(d, pos, pointed, base)
         /\ Labels(d, pos).at \in Nat /\ Labels(d, pos).at >= pos
         /\ DnsName(d, pos, base, pointed).end =
              IF At(d, Labels(d, pos).at) = 0 THEN Labels(d, pos).at + 1
              ELSE Labels(d, pos).at + 2
<1> DEFINE a == Labels(d, pos).at
           m == Len(d)
           b == At(d, a)
           part == pointed[base + Pointer(d, a)]
           name == DnsName(d, pos, base, pointed)
<1>1. m \in Nat /\ Labels(d, pos) \in Runs /\ a >= pos
  <2>1. Sized(m, LabelSize(d))
    BY LabelSizes, ParsersAssumption
  <2>2. m \in Nat /\ m <= Len(d)
    BY Reads
  <2> QED  BY <2>1, <2>2, RunEnds DEF Labels
<1>2. a \in Nat
  BY <1>1 DEF Runs
<1>3. a >= m => ~name.ok
  BY DEF DnsName, Labels, Refused
<1>4. ~(a >= m) /\ b # 0 /\ (b < 192 \/ a + 1 >= m \/ ~part.ok) => ~name.ok
  BY DEF DnsName, Labels, Refused
<1>5. ~(a >= m) /\ b = 0 => name.end = a + 1
  BY DEF DnsName, Labels, NameRead
<1>6. ~(a >= m) /\ b # 0 /\ ~(b < 192) /\ ~(a + 1 >= m) /\ part.ok => name.end = a + 2
  BY DEF DnsName, Labels, NameRead
<1>7. name.ok
  OBVIOUS
<1>8. NameOk(d, pos, pointed, base) <=>
        a < m /\ (b = 0 \/ (b # 0 /\ ~(b < 192) /\ a + 1 < m /\ part.ok))
  BY DEF NameOk
<1> HIDE DEF name, part, b, m, a
<1>9. a < m /\ (b = 0 \/ (b # 0 /\ ~(b < 192) /\ a + 1 < m /\ part.ok))
  BY <1>1, <1>2, <1>3, <1>4, <1>7
<1>10. name.end = IF b = 0 THEN a + 1 ELSE a + 2
  BY <1>1, <1>2, <1>5, <1>6, <1>9
<1> QED  BY <1>1, <1>2, <1>8, <1>9, <1>10 DEF name, b, a

Keeps(before, after) == \A p \in Nat : before[p].ok => after[p] = before[p]

LEMMA NameKept ==
  ASSUME NEW d \in Bytes, NEW e \in Bytes, Continues(e, d),
         NEW base \in Nat, NEW before, NEW after, Keeps(before, after)
  PROVE  \A pos \in Nat :
           DnsName(d, pos, base, before).ok =>
             DnsName(e, pos, base, after) = DnsName(d, pos, base, before)
<1> SUFFICES ASSUME NEW pos \in Nat, DnsName(d, pos, base, before).ok
             PROVE  DnsName(e, pos, base, after) = DnsName(d, pos, base, before)
  OBVIOUS
<1> DEFINE a == Labels(d, pos).at
           m == Len(d)
           n == Len(e)
           b == At(d, a)
           p == base + Pointer(d, a)
<1>1. NameOk(d, pos, before, base) /\ a \in Nat
  BY NameOkIs
<1>2. a < m /\ (b = 0 \/ (b # 0 /\ ~(b < 192) /\ a + 1 < m /\ before[p].ok))
  BY <1>1 DEF NameOk
<1>3. m \in Nat /\ n \in Nat /\ m <= n
  BY Reads, ReadsOnward
<1>4. a \in 0 .. m - 1
  <2> HIDE DEF a, m, b, p
  <2> QED  BY <1>1, <1>2, <1>3
<1>5. At(e, a) = b /\ b \in Nat
  BY <1>4, Reads, ReadsOnward
<1>6. Labels(e, pos) = Labels(d, pos)
  <2>1. b \notin 1 .. 191
    <3> HIDE DEF b, p, a, m
    <3> QED  BY <1>2, <1>5
  <2>2. Ended(d, pos)
    BY <1>2, <2>1 DEF Ended
  <2> QED  BY <2>2, LabelsKept, ParsersAssumption
<1>7. ASSUME b # 0
      PROVE  p \in Nat /\ base + Pointer(e, a) = p /\ after[p] = before[p]
  <2>1. a \in 0 .. m - 2
    <3> HIDE DEF b, p, a, m
    <3> QED  BY <1>1, <1>2, <1>3, <1>7
  <2>2. Pointer(d, a) \in Nat /\ Pointer(e, a) = Pointer(d, a)
    BY <2>1, Pointers
  <2>3. p \in Nat
    <3> DEFINE q == Pointer(d, a)
    <3> HIDE DEF q
    <3>1. base + q \in Nat
      BY <2>2 DEF q
    <3> QED  BY <3>1 DEF q
  <2>4. after[p] = before[p]
    <3> HIDE DEF p
    <3> QED  BY <1>2, <1>7, <2>3 DEF Keeps
  <2> QED  BY <2>2, <2>3, <2>4
<1>8. CASE b = 0
  <2>1. ~(a >= m) /\ ~(a >= n)
    <3> HIDE DEF b, p, a, m, n
    <3> QED  BY <1>1, <1>2, <1>3
  <2>2. DnsName(d, pos, base, before) =
          NameRead([i \in DOMAIN Labels(d, pos).got |-> Tail(Labels(d, pos).got[i])], a + 1)
    BY <1>8, <2>1 DEF DnsName, Labels
  <2>3. DnsName(e, pos, base, after) =
          NameRead([i \in DOMAIN Labels(e, pos).got |-> Tail(Labels(e, pos).got[i])],
                   Labels(e, pos).at + 1)
    <3>1. Labels(e, pos).at = a
      BY <1>6
    <3>2. ~(Labels(e, pos).at >= n) /\ At(e, Labels(e, pos).at) = 0
      BY <1>5, <1>8, <2>1, <3>1
    <3> QED  BY <3>2 DEF DnsName, Labels
  <2> QED  BY <1>6, <2>2, <2>3
<1>9. CASE b # 0
  <2>1. ~(a >= m) /\ ~(a >= n) /\ ~(b < 192) /\ ~(a + 1 >= m) /\ ~(a + 1 >= n)
    <3> HIDE DEF b, p, a, m, n
    <3> QED  BY <1>1, <1>2, <1>3, <1>9
  <2> DEFINE ls(r) == [i \in DOMAIN r.got |-> Tail(r.got[i])]
             name(r, part) ==
               NameRead(ls(r) \o (IF ls(r) # << >> /\ part.name = << >> THEN << << >> >>
                                  ELSE part.name), r.at + 2)
  <2>2. DnsName(d, pos, base, before) = name(Labels(d, pos), before[p])
    BY <1>2, <1>9, <2>1 DEF DnsName, Labels
  <2>3. DnsName(e, pos, base, after) =
          name(Labels(e, pos), after[base + Pointer(e, Labels(e, pos).at)])
    <3> DEFINE c == Labels(e, pos).at
    <3>1. c = a
      BY <1>6
    <3>2. /\ ~(c >= n) /\ At(e, c) # 0 /\ ~(At(e, c) < 192) /\ ~(c + 1 >= n)
          /\ after[base + Pointer(e, c)].ok
      BY <1>2, <1>5, <1>7, <1>9, <2>1, <3>1
    <3> QED  BY <3>2 DEF DnsName, Labels
  <2>4. after[base + Pointer(e, Labels(e, pos).at)] = before[p]
    BY <1>6, <1>7, <1>9
  <2> HIDE DEF name
  <2> QED  BY <1>6, <2>2, <2>3, <2>4
<1> QED  BY <1>8, <1>9

\* A name by what it was read at.
NameSpan(d, pos, base) ==
  LET name == Name(d, pos, base)
  IN  name.ok => name.end \in Nat /\ pos < name.end /\ name.end <= Len(d)

LEMMA NamesKept ==
  ASSUME NEW d \in Bytes, NEW e \in Bytes, Continues(e, d), NEW base \in Nat
  PROVE  \A pos \in Nat :
           Name(d, pos, base).ok => Name(e, pos, base) = Name(d, pos, base)
<1> DEFINE k == MaxJumps + 1
<1>1. k \in Nat
  BY ParsersAssumption
<1>2. PICK f : NamesSteps(d, base, f)
  BY NamesByIs
<1>3. PICK g : NamesSteps(e, base, g)
  BY NamesByIs
<1>4. /\ f[0] = [pos \in Nat |-> Refused]
      /\ \A i \in 1 .. k : \A pos \in Nat : f[i][pos] = DnsName(d, pos, base, f[i - 1])
      /\ \A i \in 1 .. k : \A pos \in Nat : g[i][pos] = DnsName(e, pos, base, g[i - 1])
  <2>1. ASSUME NEW i \in 1 .. k, NEW pos \in Nat
        PROVE  /\ f[i][pos] = DnsName(d, pos, base, f[i - 1])
               /\ g[i][pos] = DnsName(e, pos, base, g[i - 1])
    <3>1. /\ f[i] = [p \in Nat |-> DnsName(d, p, base, f[i - 1])]
          /\ g[i] = [p \in Nat |-> DnsName(e, p, base, g[i - 1])]
      BY <1>2, <1>3 DEF NamesSteps
    <3> QED  BY <3>1, Zenon
  <2> QED  BY <1>2, <2>1 DEF NamesSteps
<1>5. Names(d, base) = f[k] /\ Names(e, base) = g[k]
  BY <1>2, <1>3 DEF NamesSteps
<1> HIDE DEF k
<1> DEFINE Kept(i) == \A pos \in Nat : f[i][pos].ok => g[i][pos] = f[i][pos]
           T == {i \in Nat : i <= k => Kept(i)}
<1>6. 0 \in T
  <2>1. \A pos \in Nat : ~f[0][pos].ok
    BY <1>4 DEF Refused
  <2> QED  BY <2>1
<1>7. ASSUME NEW i \in Nat, i \in T PROVE i + 1 \in T
  <2> SUFFICES ASSUME i + 1 <= k PROVE Kept(i + 1)
    OBVIOUS
  <2>1. i <= k /\ i + 1 \in 1 .. k /\ (i + 1) - 1 = i
    BY <1>1
  <2>2. Kept(i)
    BY <1>7, <2>1
  <2>3. \A pos \in Nat : /\ f[i + 1][pos] = DnsName(d, pos, base, f[i])
                         /\ g[i + 1][pos] = DnsName(e, pos, base, g[i])
    BY <1>4, <2>1
  <2>4. \A pos \in Nat :
          DnsName(d, pos, base, f[i]).ok =>
            DnsName(e, pos, base, g[i]) = DnsName(d, pos, base, f[i])
    <3> DEFINE before == f[i]
               after == g[i]
    <3>1. Keeps(before, after)
      BY <2>2 DEF Keeps
    <3> HIDE DEF before, after
    <3>2. \A pos \in Nat :
            DnsName(d, pos, base, before).ok =>
              DnsName(e, pos, base, after) = DnsName(d, pos, base, before)
      BY <3>1, NameKept
    <3> QED  BY <3>2 DEF before, after
  <2> QED  BY <2>3, <2>4, Zenon
<1> HIDE DEF T
<1>8. Nat \subseteq T
  BY <1>6, <1>7, SetInduction
<1>9. Kept(k)
  BY <1>1, <1>8 DEF T
<1> QED  BY <1>5, <1>9 DEF Name

LEMMA NamesSpan ==
  ASSUME NEW d \in Bytes, NEW base \in Nat
  PROVE  \A pos \in Nat : NameSpan(d, pos, base)
<1> TAKE pos \in Nat
<1> DEFINE k == MaxJumps + 1
<1>1. k \in Nat /\ k \in 1 .. k
  BY ParsersAssumption
<1>2. PICK f : NamesSteps(d, base, f)
  BY NamesByIs
<1>3. Name(d, pos, base) = DnsName(d, pos, base, f[k - 1])
  <2>1. Names(d, base) = f[k] /\ f[k] = [p \in Nat |-> DnsName(d, p, base, f[k - 1])]
    BY <1>1, <1>2 DEF NamesSteps
  <2> QED  BY <2>1 DEF Name
<1> HIDE DEF k
<1> SUFFICES ASSUME Name(d, pos, base).ok
             PROVE  LET name == Name(d, pos, base)
                    IN  name.end \in Nat /\ pos < name.end /\ name.end <= Len(d)
  BY DEF NameSpan
<1> DEFINE name == Name(d, pos, base)
           a == Labels(d, pos).at
           m == Len(d)
           b == At(d, a)
<1>4. /\ NameOk(d, pos, f[k - 1], base) /\ a \in Nat /\ a >= pos
      /\ name.end = IF b = 0 THEN a + 1 ELSE a + 2
  BY <1>3, NameOkIs
<1>5. a < m /\ (b = 0 \/ a + 1 < m)
  BY <1>4 DEF NameOk
<1>6. m \in Nat
  BY Reads
<1> HIDE DEF name, a, m, b
<1>7. name.end \in Nat /\ pos < name.end /\ name.end <= m
  BY <1>4, <1>5, <1>6
<1> QED  BY <1>7 DEF name, m

(***************************************************************************)
(* Records.                                                                *)
(***************************************************************************)
\* Data without a name is made of its own bytes.
Bare(bytes, n, type) ==
  IF (type = 1 /\ n = 4) \/ (type = 28 /\ n = 16) THEN <<"address", bytes>>
  ELSE IF type = 16 THEN <<"texts", Entries(bytes, 0, n, TextSize(bytes))>>
  ELSE <<"raw", bytes>>

LEMMA RdataIs ==
  ASSUME NEW d, NEW pos, NEW n, NEW base, NEW type, type \notin WithNames
  PROVE  Rdata(d, pos, n, base, type) = Bare(Slice(d, pos, pos + n), n, type)
<1>1. type \notin {2, 5, 12} /\ type # 15 /\ type # 33 /\ type # 6
  BY DEF WithNames
<1>2. CASE (type = 1 /\ n = 4) \/ (type = 28 /\ n = 16)
  <2>1. type # 16
    BY <1>2
  <2> QED  BY <1>1, <1>2, <2>1 DEF Rdata, Bare
<1>3. CASE ~((type = 1 /\ n = 4) \/ (type = 28 /\ n = 16)) /\ type = 16
  BY <1>1, <1>3 DEF Rdata, Bare
<1>4. CASE ~((type = 1 /\ n = 4) \/ (type = 28 /\ n = 16)) /\ type # 16
  BY <1>1, <1>4 DEF Rdata, Bare
<1> QED  BY <1>2, <1>3, <1>4

LEMMA RecordIs ==
  ASSUME NEW d \in Bytes, NEW pos \in Nat, NEW base \in Nat
  PROVE  LET name == Name(d, pos, base)
             a == name.end
             n == U16(d, a + 8)
         IN  /\ Record(d, pos, base).ok <=>
                  name.ok /\ a + 10 <= Len(d) /\ a + 10 + n <= Len(d)
             /\ Record(d, pos, base).ok =>
                  /\ a \in Nat /\ pos < a /\ n \in Nat
                  /\ Record(d, pos, base) =
                       [ok |-> TRUE, name |-> name.name, type |-> U16(d, a),
                        rdata |-> Rdata(d, a + 10, n, base, U16(d, a)), end |-> a + 10 + n]
<1> DEFINE name == Name(d, pos, base)
           a == name.end
           n == U16(d, a + 8)
           m == Len(d)
           record == [ok |-> TRUE, name |-> name.name, type |-> U16(d, a),
                      rdata |-> Rdata(d, a + 10, n, base, U16(d, a)), end |-> a + 10 + n]
<1>1. name.ok => a \in Nat /\ pos < a /\ a <= m
  BY NamesSpan DEF NameSpan
<1>2. m \in Nat
  BY Reads
<1>3. name.ok /\ a + 10 <= m => n \in Nat
  <2> SUFFICES ASSUME name.ok, a + 10 <= m PROVE n \in Nat
    OBVIOUS
  <2>1. a + 8 \in 0 .. m - 2
    <3> HIDE DEF a, m, name
    <3> QED  BY <1>1, <1>2
  <2> QED  BY <2>1, Reads
<1>4. ~name.ok => Record(d, pos, base) = NoRecord
  BY DEF Record
<1>5. name.ok /\ a + 10 > m => Record(d, pos, base) = NoRecord
  BY DEF Record
<1>6. name.ok /\ ~(a + 10 > m) /\ a + 10 + n > m => Record(d, pos, base) = NoRecord
  BY DEF Record
<1>7. name.ok /\ ~(a + 10 > m) /\ ~(a + 10 + n > m) => Record(d, pos, base) = record
  BY DEF Record
<1>8. ~NoRecord.ok
  BY DEF NoRecord
<1>9. record.ok
  OBVIOUS
<1> HIDE DEF record
<1> SUFFICES /\ Record(d, pos, base).ok <=> name.ok /\ a + 10 <= m /\ a + 10 + n <= m
             /\ Record(d, pos, base).ok =>
                  a \in Nat /\ pos < a /\ n \in Nat /\ Record(d, pos, base) = record
  BY DEF record
<1> HIDE DEF name, a, n, m
<1>10. CASE ~name.ok
  BY <1>4, <1>8, <1>10
<1>11. CASE name.ok /\ a + 10 > m
  BY <1>1, <1>2, <1>5, <1>8, <1>11
<1>12. CASE name.ok /\ a + 10 <= m /\ a + 10 + n > m
  BY <1>1, <1>2, <1>3, <1>6, <1>8, <1>12
<1>13. CASE name.ok /\ a + 10 <= m /\ a + 10 + n <= m
  BY <1>1, <1>2, <1>3, <1>7, <1>9, <1>13
<1>14. name.ok => a + 10 > m \/ (a + 10 <= m /\ (a + 10 + n > m \/ a + 10 + n <= m))
  BY <1>1, <1>2, <1>3
<1> QED  BY <1>10, <1>11, <1>12, <1>13, <1>14

RecordSpan(d, pos, base) ==
  LET record == Record(d, pos, base)
  IN  record.ok => record.end \in Nat /\ pos + 10 < record.end /\ record.end <= Len(d)

LEMMA RecordsSpan ==
  ASSUME NEW d \in Bytes, NEW pos \in Nat, NEW base \in Nat
  PROVE  RecordSpan(d, pos, base)
<1> SUFFICES ASSUME Record(d, pos, base).ok
             PROVE  LET end == Record(d, pos, base).end
                    IN  end \in Nat /\ pos + 10 < end /\ end <= Len(d)
  BY DEF RecordSpan
<1> DEFINE name == Name(d, pos, base)
           a == name.end
           n == U16(d, a + 8)
           m == Len(d)
           end == Record(d, pos, base).end
<1>1. a \in Nat /\ pos < a /\ n \in Nat /\ a + 10 + n <= m
  BY RecordIs
<1>2. end = a + 10 + n
  BY RecordIs
<1>3. m \in Nat
  BY Reads
<1> HIDE DEF a, n, m, end
<1>4. end \in Nat /\ pos + 10 < end /\ end <= m
  BY <1>1, <1>2, <1>3
<1> QED  BY <1>4 DEF end, m

\* A record that is whole is the same when more of the message is there, but
\* for names in its data.
LEMMA RecordKept ==
  ASSUME NEW d \in Bytes, NEW e \in Bytes, Continues(e, d),
         NEW pos \in Nat, NEW base \in Nat, Record(d, pos, base).ok
  PROVE  /\ Record(e, pos, base).ok
         /\ Record(e, pos, base).end = Record(d, pos, base).end
         /\ Key(Record(e, pos, base)) = Key(Record(d, pos, base))
<1> DEFINE name == Name(d, pos, base)
           a == name.end
           n == U16(d, a + 8)
           m == Len(d)
           t == U16(d, a)
           r == Record(d, pos, base)
           s == Record(e, pos, base)
<1>1. /\ name.ok /\ a + 10 <= m /\ a + 10 + n <= m /\ a \in Nat /\ n \in Nat
      /\ r = [ok |-> TRUE, name |-> name.name, type |-> t,
              rdata |-> Rdata(d, a + 10, n, base, t), end |-> a + 10 + n]
  BY RecordIs
<1>2. Name(e, pos, base) = name
  BY <1>1, NamesKept
<1>3. m \in Nat /\ Len(e) \in Nat /\ m <= Len(e)
  BY Reads, ReadsOnward
<1>4. U16(e, a + 8) = n /\ U16(e, a) = t
  <2>1. a + 8 \in 0 .. m - 2 /\ a \in 0 .. m - 2
    <3> HIDE DEF a, m, name, n, t, r, s
    <3> QED  BY <1>1, <1>3
  <2> QED  BY <2>1, ReadsOnward
<1>5. a + 10 <= Len(e) /\ a + 10 + n <= Len(e)
  <2> DEFINE l == Len(e)
  <2>1. m <= l /\ l \in Nat
    BY <1>3
  <2> HIDE DEF a, m, name, n, t, r, s, l
  <2>2. a + 10 <= l /\ a + 10 + n <= l
    BY <1>1, <1>3, <2>1
  <2> QED  BY <2>2 DEF l
<1>6. Slice(e, a + 10, a + 10 + n) = Slice(d, a + 10, a + 10 + n)
  <2>1. a + 10 \in Nat /\ a + 10 + n \in Nat /\ a + 10 <= a + 10 + n
    <3> HIDE DEF a, m, name, n, t, r, s
    <3> QED  BY <1>1, <1>3
  <2> QED  BY <1>1, <2>1, SliceSame
<1>7. s.ok
  BY <1>1, <1>2, <1>4, <1>5, RecordIs
<1>8. s = [ok |-> TRUE, name |-> name.name, type |-> t,
           rdata |-> Rdata(e, a + 10, n, base, t), end |-> a + 10 + n]
  <2> DEFINE c == Name(e, pos, base).end
  <2>1. s = [ok |-> TRUE, name |-> Name(e, pos, base).name, type |-> U16(e, c),
             rdata |-> Rdata(e, c + 10, U16(e, c + 8), base, U16(e, c)),
             end |-> c + 10 + U16(e, c + 8)]
    BY <1>7, RecordIs
  <2>2. c = a /\ Name(e, pos, base).name = name.name
    BY <1>2
  <2>3. U16(e, c + 8) = n /\ U16(e, c) = t
    BY <1>4, <2>2
  <2> HIDE DEF c, a, n, t, name, s, r
  <2> QED  BY <2>1, <2>2, <2>3
<1>9. t \notin WithNames => Rdata(e, a + 10, n, base, t) = Rdata(d, a + 10, n, base, t)
  BY <1>6, RdataIs
<1>10. s.end = r.end /\ s.name = r.name /\ s.type = r.type /\ r.type = t
       /\ (t \notin WithNames => s.rdata = r.rdata)
  <2> HIDE DEF a, m, name, n, t, r, s
  <2> QED  BY <1>1, <1>8, <1>9
<1>11. Key(s) = Key(r)
  <2> HIDE DEF a, m, name, n, t, r, s
  <2> QED  BY <1>10, Zenon DEF Key
<1> QED  BY <1>7, <1>10, <1>11

\* The recursion of Records.
RecordsBy(d, pos, base, k, f) ==
  f = [i \in 0 .. k |->
         IF i = 0 THEN [records |-> << >>, end |-> pos] ELSE TakeRecord(d, base, f[i - 1])]

LEMMA RecordsByExists ==
  ASSUME NEW d, NEW pos, NEW base
  PROVE  \A k \in Nat : \E f : RecordsBy(d, pos, base, k, f)
<1> DEFINE T == {k \in Nat : \E f : RecordsBy(d, pos, base, k, f)}
           zero == [records |-> << >>, end |-> pos]
           after(x) == TakeRecord(d, base, x)
<1>1. 0 \in T
  <2> DEFINE f == [i \in 0 .. 0 |-> zero]
  <2>1. f = [i \in 0 .. 0 |-> IF i = 0 THEN zero ELSE after(f[i - 1])]
    <3> HIDE DEF zero, after
    <3> QED  OBVIOUS
  <2>2. RecordsBy(d, pos, base, 0, f)
    BY <2>1, Zenon DEF RecordsBy
  <2> QED  BY <2>2
<1>2. ASSUME NEW k \in Nat, k \in T PROVE k + 1 \in T
  <2>1. PICK f : RecordsBy(d, pos, base, k, f)
    BY <1>2
  <2> DEFINE g == [i \in 0 .. k + 1 |-> IF i = k + 1 THEN after(f[k]) ELSE f[i]]
             h == [i \in 0 .. k + 1 |-> IF i = 0 THEN zero ELSE after(g[i - 1])]
  <2>2. f = [i \in 0 .. k |-> IF i = 0 THEN zero ELSE after(f[i - 1])]
    BY <2>1, Zenon DEF RecordsBy
  <2> HIDE DEF zero, after
  <2>3. \A i \in 0 .. k : f[i] = IF i = 0 THEN zero ELSE after(f[i - 1])
    BY <2>2
  <2>4. /\ \A i \in 0 .. k : g[i] = f[i]
        /\ g[k + 1] = after(f[k])
    <3>1. k + 1 \in 0 .. k + 1 /\ \A i \in 0 .. k : i \in 0 .. k + 1 /\ i # k + 1
      OBVIOUS
    <3>2. g[k + 1] = after(f[k])
      BY <3>1, Zenon
    <3>3. ASSUME NEW i \in 0 .. k PROVE g[i] = f[i]
      BY <3>1, Zenon
    <3> QED  BY <3>2, <3>3
  <2>5. \A i \in 0 .. k + 1 : h[i] = IF i = 0 THEN zero ELSE after(g[i - 1])
    BY DEF h
  <2> HIDE DEF g, h
  <2>6. ASSUME NEW i \in 0 .. k + 1 PROVE g[i] = h[i]
    <3>1. CASE i = 0
      <4>1. 0 \in 0 .. k
        OBVIOUS
      <4> QED  BY <2>3, <2>4, <2>5, <3>1, <4>1
    <3>2. CASE i \in 1 .. k
      <4>1. i # 0 /\ i \in 0 .. k /\ i - 1 \in 0 .. k
        BY <3>2
      <4> QED  BY <2>3, <2>4, <2>5, <4>1
    <3>3. CASE i = k + 1
      <4>1. i # 0 /\ i - 1 = k /\ k \in 0 .. k
        BY <3>3
      <4> QED  BY <2>4, <2>5, <3>3, <4>1
    <3> QED  BY <3>1, <3>2, <3>3
  <2>7. g = h
    BY <2>6 DEF g, h
  <2>8. g = [i \in 0 .. k + 1 |-> IF i = 0 THEN zero ELSE after(g[i - 1])]
    BY <2>7 DEF h
  <2> USE DEF zero, after
  <2> HIDE DEF g, h
  <2>9. RecordsBy(d, pos, base, k + 1, g)
    BY <2>8, Zenon DEF RecordsBy
  <2>10. k + 1 \in Nat
    OBVIOUS
  <2> QED  BY <2>9, <2>10, Zenon
<1> HIDE DEF T
<1>3. Nat \subseteq T
  BY <1>1, <1>2, SetInduction
<1> QED  BY <1>3 DEF T

RecordsSteps(d, pos, base, count, f) ==
  /\ Records(d, pos, base, count) = f[count]
  /\ f[0] = [records |-> << >>, end |-> pos]
  /\ \A i \in 1 .. count : f[i] = TakeRecord(d, base, f[i - 1])

LEMMA RecordsByIs ==
  ASSUME NEW d, NEW pos, NEW base, NEW count \in Nat
  PROVE  \E f : RecordsSteps(d, pos, base, count, f)
<1> DEFINE f == CHOOSE f : RecordsBy(d, pos, base, count, f)
<1>1. RecordsBy(d, pos, base, count, f)
  <2>1. \E g : RecordsBy(d, pos, base, count, g)
    BY RecordsByExists
  <2> QED  BY <2>1, Zenon
<1>2. Records(d, pos, base, count) = f[count]
  BY Zenon DEF Records, RecordsBy
<1> HIDE DEF f
<1>3. f[0] = [records |-> << >>, end |-> pos]
      /\ \A i \in 1 .. count : f[i] = TakeRecord(d, base, f[i - 1])
  BY <1>1 DEF RecordsBy
<1> QED  BY <1>2, <1>3 DEF RecordsSteps

\* What is read of records, as a sequence of the records that can be read.
Recs(d, base) == {Record(d, p, base) : p \in Nat}
Gots(d, base) == [records : Seq(Recs(d, base)), end : Nat]
Longer(got, next) == [records |-> Append(got.records, next), end |-> next.end]

LEMMA TakeRecordIs ==
  ASSUME NEW d \in Bytes, NEW base \in Nat, NEW got \in Gots(d, base)
  PROVE  LET next == Record(d, got.end, base)
         IN  /\ ~next.ok => TakeRecord(d, base, got) = got
             /\ next.ok =>
                  /\ TakeRecord(d, base, got) = Longer(got, next)
                  /\ Longer(got, next) \in Gots(d, base)
                  /\ Len(Longer(got, next).records) = Len(got.records) + 1
                  /\ \A i \in 1 .. Len(got.records) :
                       Longer(got, next).records[i] = got.records[i]
                  /\ Longer(got, next).records[Len(got.records) + 1] = next
                  /\ Len(got.records) \in Nat
<1> DEFINE next == Record(d, got.end, base)
<1>1. got.end \in Nat /\ got.records \in Seq(Recs(d, base))
  BY DEF Gots
<1>2. next \in Recs(d, base)
  BY <1>1 DEF Recs
<1>3. /\ Append(got.records, next) \in Seq(Recs(d, base))
      /\ Len(Append(got.records, next)) = Len(got.records) + 1
      /\ \A i \in 1 .. Len(got.records) : Append(got.records, next)[i] = got.records[i]
      /\ Append(got.records, next)[Len(got.records) + 1] = next
      /\ Len(got.records) \in Nat
  BY <1>1, <1>2, AppendProperties, LenProperties
<1>4. next.ok => next.end \in Nat
  BY <1>1, RecordsSpan DEF RecordSpan
<1>5. next.ok => TakeRecord(d, base, got) = Longer(got, next)
  BY DEF TakeRecord, Longer
<1>6. ~next.ok => TakeRecord(d, base, got) = got
  BY DEF TakeRecord
<1>7. /\ Longer(got, next).records = Append(got.records, next)
      /\ Longer(got, next).end = next.end
      /\ next.ok => Longer(got, next) \in Gots(d, base)
  <2> HIDE DEF next
  <2> QED  BY <1>3, <1>4 DEF Longer, Gots
<1> HIDE DEF next
<1>8. next.ok =>
        /\ Longer(got, next) \in Gots(d, base)
        /\ Len(Longer(got, next).records) = Len(got.records) + 1
        /\ \A i \in 1 .. Len(got.records) : Longer(got, next).records[i] = got.records[i]
        /\ Longer(got, next).records[Len(got.records) + 1] = next
        /\ Len(got.records) \in Nat
  BY <1>3, <1>7
<1> QED  BY <1>5, <1>6, <1>8 DEF next

\* Either as many were read as there should be, or one is not whole.
LEMMA RecordsRun ==
  ASSUME NEW d \in Bytes, NEW base \in Nat, NEW pos \in Nat, NEW count \in Nat,
         NEW f, RecordsSteps(d, pos, base, count, f)
  PROVE  \A i \in 0 .. count :
           /\ f[i] \in Gots(d, base)
           /\ Len(f[i].records) \in 0 .. i
           /\ Len(f[i].records) = i \/ ~Record(d, f[i].end, base).ok
           /\ f[i].records = << >> => f[i].end = pos
<1> DEFINE Ok(i) == /\ f[i] \in Gots(d, base)
                    /\ Len(f[i].records) \in 0 .. i
                    /\ Len(f[i].records) = i \/ ~Record(d, f[i].end, base).ok
                    /\ f[i].records = << >> => f[i].end = pos
           T == {i \in Nat : i <= count => Ok(i)}
<1>1. 0 \in T
  <2>1. f[0] = [records |-> << >>, end |-> pos]
    BY DEF RecordsSteps
  <2>2. << >> \in Seq(Recs(d, base)) /\ Len(<< >>) = 0
    BY EmptySeq
  <2>3. f[0].records = << >> /\ f[0].end = pos /\ f[0] \in Gots(d, base)
    BY <2>1, <2>2 DEF Gots
  <2>4. Ok(0)
    BY <2>2, <2>3
  <2> QED  BY <2>4
<1>2. ASSUME NEW i \in Nat, i \in T PROVE i + 1 \in T
  <2> SUFFICES ASSUME i + 1 <= count PROVE Ok(i + 1)
    OBVIOUS
  <2>1. i <= count /\ i + 1 \in 1 .. count /\ (i + 1) - 1 = i
    OBVIOUS
  <2>2. Ok(i)
    BY <1>2, <2>1
  <2> DEFINE got == f[i]
             next == Record(d, got.end, base)
  <2>3. f[i + 1] = TakeRecord(d, base, got)
    BY <2>1 DEF RecordsSteps
  <2>4. CASE ~next.ok
    <3>1. f[i + 1] = f[i]
      BY <2>2, <2>3, <2>4, TakeRecordIs
    <3>2. Len(f[i].records) \in 0 .. i + 1
      <4> DEFINE n == Len(f[i].records)
      <4>1. n \in 0 .. i
        BY <2>2
      <4> HIDE DEF n
      <4>2. n \in 0 .. i + 1
        BY <4>1
      <4> QED  BY <4>2 DEF n
    <3> QED  BY <2>2, <2>4, <3>1, <3>2
  <2>5. CASE next.ok
    <3> DEFINE n == Len(got.records)
    <3>1. n = i
      BY <2>2, <2>5
    <3>2. /\ f[i + 1] = Longer(got, next) /\ Longer(got, next) \in Gots(d, base)
          /\ Len(Longer(got, next).records) = n + 1
      BY <2>2, <2>3, <2>5, TakeRecordIs
    <3>3. Len(f[i + 1].records) = i + 1
      BY <3>1, <3>2
    <3>4. f[i + 1].records # << >>
      BY <3>3, EmptySeq
    <3>5. i + 1 \in 0 .. i + 1
      OBVIOUS
    <3> QED  BY <3>2, <3>3, <3>4, <3>5
  <2> QED  BY <2>4, <2>5
<1> HIDE DEF T
<1>3. Nat \subseteq T
  BY <1>1, <1>2, SetInduction
<1> QED  BY <1>3 DEF T

(***************************************************************************)
(* Sequences that begin with what was read before.                         *)
(***************************************************************************)
LEMMA PrefixIs ==
  ASSUME NEW S, NEW s \in Seq(S), NEW t \in Seq(S),
         Len(s) <= Len(t), \A i \in 1 .. Len(s) : s[i] = t[i]
  PROVE  IsPrefix(s, t)
<1> DEFINE n == Len(s)
<1>1. /\ n \in Nat /\ Len(t) \in Nat
      /\ \A i \in 1 .. n : s[i] \in S /\ t[i] \in S
  BY LenProperties, ElementOfSeq
<1>2. n <= Len(t) /\ \A i \in 1 .. n : s[i] = t[i]
  OBVIOUS
<1>3. 1 \in Int /\ n \in Int
  BY <1>1
<1>4. /\ SubSeq(s, 1, n) \in Seq(S) /\ SubSeq(t, 1, n) \in Seq(S)
      /\ Len(SubSeq(s, 1, n)) = IF 1 <= n THEN n - 1 + 1 ELSE 0
      /\ Len(SubSeq(t, 1, n)) = IF 1 <= n THEN n - 1 + 1 ELSE 0
      /\ \A i \in 1 .. n - 1 + 1 : SubSeq(s, 1, n)[i] = s[1 + i - 1]
      /\ \A i \in 1 .. n - 1 + 1 : SubSeq(t, 1, n)[i] = t[1 + i - 1]
  <2> HIDE DEF n
  <2> QED  BY <1>1, <1>3, SubSeqProperties
<1>5. /\ Len(SubSeq(s, 1, n)) = Len(SubSeq(t, 1, n)) /\ Len(SubSeq(s, 1, n)) = n
      /\ \A i \in 1 .. n : SubSeq(s, 1, n)[i] = SubSeq(t, 1, n)[i]
  <2> HIDE DEF n
  <2>1. n - 1 + 1 = n /\ \A i \in 1 .. n : 1 + i - 1 = i
    BY <1>1
  <2>2. ~(1 <= n) => n = 0
    BY <1>1
  <2> QED  BY <1>2, <1>4, <2>1, <2>2
<1>6. SubSeq(s, 1, n) = SubSeq(t, 1, n)
  <2> HIDE DEF n
  <2> QED  BY <1>4, <1>5, SeqEqual
<1> QED  BY <1>2, <1>6 DEF IsPrefix

\* As many records or more, of which the first are the same.
Grown(rs, ss) ==
  /\ Len(rs) <= Len(ss)
  /\ \A i \in 1 .. Len(rs) : Key(ss[i]) = Key(rs[i])

LEMMA GrownLonger ==
  ASSUME NEW R, NEW rs \in Seq(R), NEW S, NEW ss \in Seq(S), Grown(rs, ss),
         NEW s \in S
  PROVE  /\ Grown(rs, Append(ss, s))
         /\ \A r \in R : Len(rs) = Len(ss) /\ Key(s) = Key(r)
                           => Grown(Append(rs, r), Append(ss, s))
<1>1. /\ Len(rs) \in Nat /\ Len(ss) \in Nat
      /\ Len(Append(ss, s)) = Len(ss) + 1
      /\ \A i \in 1 .. Len(ss) : Append(ss, s)[i] = ss[i]
      /\ Append(ss, s)[Len(ss) + 1] = s
  BY LenProperties, AppendProperties
<1>2. Len(rs) <= Len(ss) /\ \A i \in 1 .. Len(rs) : Key(ss[i]) = Key(rs[i])
  BY DEF Grown
<1> DEFINE m == Len(rs)
           n == Len(ss)
           next == Append(ss, s)
<1>3. Len(rs) <= Len(next) /\ \A i \in 1 .. Len(rs) : Key(next[i]) = Key(rs[i])
  <2>1. m <= n /\ m \in Nat /\ n \in Nat /\ Len(next) = n + 1
        /\ \A i \in 1 .. n : next[i] = ss[i]
    BY <1>1, <1>2
  <2> HIDE DEF m, n, next
  <2>2. m <= n + 1 /\ \A i \in 1 .. m : i \in 1 .. n
    BY <2>1
  <2>3. m <= Len(next) /\ \A i \in 1 .. m : next[i] = ss[i]
    BY <2>1, <2>2
  <2> QED  BY <1>2, <2>3 DEF m
<1>4. ASSUME NEW r \in R, m = n, Key(s) = Key(r)
      PROVE  Grown(Append(rs, r), next)
  <2> DEFINE prev == Append(rs, r)
  <2>1. Len(prev) = m + 1 /\ (\A i \in 1 .. m : prev[i] = rs[i]) /\ prev[m + 1] = r
    BY AppendProperties
  <2>2. /\ m \in Nat /\ m = n /\ Len(next) = n + 1 /\ next[n + 1] = s
        /\ \A i \in 1 .. n : next[i] = ss[i]
        /\ \A i \in 1 .. m : Key(ss[i]) = Key(rs[i])
    BY <1>1, <1>2, <1>4
  <2> HIDE DEF m, n, prev, next
  <2>3. Len(prev) <= Len(next)
    BY <2>1, <2>2
  <2>4. ASSUME NEW i \in 1 .. Len(prev) PROVE Key(next[i]) = Key(prev[i])
    <3>1. CASE i = m + 1
      BY <1>4, <2>1, <2>2, <3>1
    <3>2. CASE i \in 1 .. m
      <4>1. next[i] = ss[i] /\ prev[i] = rs[i] /\ Key(ss[i]) = Key(rs[i])
        BY <2>1, <2>2, <3>2
      <4> QED  BY <4>1
    <3>3. i = m + 1 \/ i \in 1 .. m
      BY <2>1, <2>2
    <3> QED  BY <3>1, <3>2, <3>3
  <2> QED  BY <2>3, <2>4 DEF Grown, prev
<1> QED  BY <1>3, <1>4 DEF Grown

LEMMA GrownKeys ==
  ASSUME NEW R, NEW rs \in Seq(R), NEW S, NEW ss \in Seq(S), Grown(rs, ss)
  PROVE  /\ IsPrefix(Keys(rs), Keys(ss))
         /\ Len(rs) = Len(ss) => Keys(rs) = Keys(ss)
<1> DEFINE m == Len(rs)
           n == Len(ss)
           ks == {Key(rs[i]) : i \in 1 .. m} \cup {Key(ss[i]) : i \in 1 .. n}
           k == Keys(rs)
           l == Keys(ss)
<1>1. m \in Nat /\ n \in Nat /\ DOMAIN rs = 1 .. m /\ DOMAIN ss = 1 .. n
  BY LenProperties
<1>2. m <= n /\ \A i \in 1 .. m : Key(ss[i]) = Key(rs[i])
  BY DEF Grown
<1>3. k = [i \in 1 .. m |-> Key(rs[i])] /\ l = [i \in 1 .. n |-> Key(ss[i])]
  BY <1>1 DEF Keys
<1>4. k \in [1 .. m -> ks] /\ l \in [1 .. n -> ks]
  <2> HIDE DEF m, n, k, l
  <2> QED  BY <1>3
<1>5. k \in Seq(ks) /\ l \in Seq(ks) /\ Len(k) = m /\ Len(l) = n
  <2> HIDE DEF m, n, k, l, ks
  <2> QED  BY <1>1, <1>4
<1>6. \A i \in 1 .. Len(k) : k[i] = l[i]
  <2> TAKE i \in 1 .. Len(k)
  <2>1. i \in 1 .. m /\ i \in 1 .. n
    <3> HIDE DEF m, n, k, l, ks
    <3> QED  BY <1>1, <1>2, <1>5
  <2>2. k[i] = Key(rs[i]) /\ l[i] = Key(ss[i])
    BY <1>3, <2>1
  <2> QED  BY <1>2, <2>1, <2>2
<1> HIDE DEF k, l, ks
<1>7. Len(k) <= Len(l)
  BY <1>2, <1>5
<1>8. IsPrefix(k, l)
  BY <1>5, <1>6, <1>7, PrefixIs
<1>9. m = n => k = l
  BY <1>5, <1>6, SeqEqual
<1> QED  BY <1>8, <1>9 DEF k, l

\* Where the next section begins: at the same place, or nowhere yet.
Lined(d, base, was, is) == was = is \/ ~Record(d, was, base).ok

LEMMA RecordsGrow ==
  ASSUME NEW d \in Bytes, NEW e \in Bytes, Continues(e, d),
         NEW base \in Nat, NEW pos \in Nat, NEW count \in Nat,
         NEW f, RecordsSteps(d, pos, base, count, f),
         NEW g, RecordsSteps(e, pos, base, count, g)
  PROVE  \A i \in 0 .. count :
           /\ Grown(f[i].records, g[i].records)
           /\ Len(f[i].records) = i =>
                Len(g[i].records) = i /\ g[i].end = f[i].end
<1> DEFINE Ok(i) == /\ Grown(f[i].records, g[i].records)
                    /\ Len(f[i].records) = i =>
                         Len(g[i].records) = i /\ g[i].end = f[i].end
           T == {i \in Nat : i <= count => Ok(i)}
<1>1. 0 \in T
  <2>1. f[0].records = << >> /\ g[0].records = << >> /\ f[0].end = pos /\ g[0].end = pos
    BY DEF RecordsSteps
  <2>2. Grown(<< >>, << >>)
    BY DEF Grown
  <2>3. Ok(0)
    BY <2>1, <2>2, EmptySeq
  <2> QED  BY <2>3
<1>2. ASSUME NEW i \in Nat, i \in T PROVE i + 1 \in T
  <2> SUFFICES ASSUME i + 1 <= count PROVE Ok(i + 1)
    OBVIOUS
  <2>1. i \in 0 .. count /\ i + 1 \in 1 .. count /\ (i + 1) - 1 = i
    OBVIOUS
  <2>2. Ok(i)
    BY <1>2, <2>1
  <2> DEFINE next == Record(d, f[i].end, base)
             also == Record(e, g[i].end, base)
  <2>3. f[i + 1] = TakeRecord(d, base, f[i]) /\ g[i + 1] = TakeRecord(e, base, g[i])
    BY <2>1 DEF RecordsSteps
  <2>4. /\ f[i] \in Gots(d, base) /\ Len(f[i].records) \in 0 .. i
        /\ Len(f[i].records) = i \/ ~next.ok
    BY <2>1, RecordsRun
  <2>5. g[i] \in Gots(e, base)
    BY <2>1, RecordsRun
  <2>6. /\ f[i].records \in Seq(Recs(d, base)) /\ f[i].end \in Nat
        /\ g[i].records \in Seq(Recs(e, base)) /\ g[i].end \in Nat
    BY <2>4, <2>5 DEF Gots
  <2>7. next \in Recs(d, base) /\ also \in Recs(e, base)
    BY <2>6 DEF Recs
  <2>8. /\ ~next.ok => f[i + 1] = f[i]
        /\ next.ok => f[i + 1] = Longer(f[i], next)
        /\ ~also.ok => g[i + 1] = g[i]
        /\ also.ok => g[i + 1] = Longer(g[i], also)
    BY <2>3, <2>4, <2>5, TakeRecordIs
  <2>9. CASE ~next.ok
    <3>1. f[i + 1] = f[i] /\ Len(f[i].records) # i + 1
      <4> DEFINE n == Len(f[i].records)
      <4>1. n \in 0 .. i
        BY <2>4
      <4> HIDE DEF n
      <4>2. n # i + 1
        BY <4>1
      <4> QED  BY <2>8, <2>9, <4>2 DEF n
    <3>2. Grown(f[i].records, g[i + 1].records)
      <4>1. CASE ~also.ok
        BY <2>2, <2>8, <4>1
      <4>2. CASE also.ok
        <5>1. g[i + 1].records = Append(g[i].records, also)
          BY <2>8, <4>2 DEF Longer
        <5>2. Grown(f[i].records, Append(g[i].records, also))
          BY <2>2, <2>6, <2>7, GrownLonger
        <5> QED  BY <5>1, <5>2
      <4> QED  BY <4>1, <4>2
    <3> QED  BY <3>1, <3>2
  <2>10. CASE next.ok
    <3>1. Len(f[i].records) = i /\ Len(g[i].records) = i /\ g[i].end = f[i].end
      BY <2>2, <2>4, <2>10
    <3>2. also.ok /\ also.end = next.end /\ Key(also) = Key(next)
      BY <2>6, <2>10, <3>1, RecordKept
    <3> HIDE DEF next, also
    <3>3. /\ f[i + 1].records = Append(f[i].records, next) /\ f[i + 1].end = next.end
          /\ g[i + 1].records = Append(g[i].records, also) /\ g[i + 1].end = also.end
      <4>1. f[i + 1] = Longer(f[i], next) /\ g[i + 1] = Longer(g[i], also)
        BY <2>8, <2>10, <3>2
      <4> QED  BY <4>1, SMTT(30) DEF Longer
    <3>4. Grown(Append(f[i].records, next), Append(g[i].records, also))
      BY <2>2, <2>6, <2>7, <3>1, <3>2, GrownLonger
    <3>5. Len(Append(g[i].records, also)) = i + 1
      BY <2>6, <2>7, <3>1, AppendProperties
    <3> QED  BY <3>2, <3>3, <3>4, <3>5
  <2> QED  BY <2>9, <2>10
<1> HIDE DEF T
<1>3. Nat \subseteq T
  BY <1>1, <1>2, SetInduction
<1> QED  BY <1>3 DEF T

LEMMA RecordsNone ==
  ASSUME NEW d \in Bytes, NEW base \in Nat, NEW pos \in Nat, NEW count \in Nat,
         ~Record(d, pos, base).ok
  PROVE  Records(d, pos, base, count) = [records |-> << >>, end |-> pos]
<1>1. PICK f : RecordsSteps(d, pos, base, count, f)
  BY RecordsByIs
<1> DEFINE T == {i \in Nat : i <= count => f[i] = [records |-> << >>, end |-> pos]}
<1>2. 0 \in T
  BY <1>1 DEF RecordsSteps
<1>3. ASSUME NEW i \in Nat, i \in T PROVE i + 1 \in T
  <2> SUFFICES ASSUME i + 1 <= count PROVE f[i + 1] = [records |-> << >>, end |-> pos]
    OBVIOUS
  <2>1. i <= count /\ i + 1 \in 1 .. count /\ (i + 1) - 1 = i
    OBVIOUS
  <2>2. f[i] = [records |-> << >>, end |-> pos] /\ f[i + 1] = TakeRecord(d, base, f[i])
    BY <1>1, <1>3, <2>1 DEF RecordsSteps
  <2>3. f[i].end = pos
    BY <2>2
  <2> QED  BY <2>2, <2>3 DEF TakeRecord
<1> HIDE DEF T
<1>4. Nat \subseteq T
  BY <1>2, <1>3, SetInduction
<1>5. f[count] = [records |-> << >>, end |-> pos]
  BY <1>4 DEF T
<1> QED  BY <1>1, <1>5 DEF RecordsSteps

\* A section, and the same section of the longer message, which begins at the
\* same place or has none of it yet.
Section(d, e, base, count, was, is) ==
  /\ IsPrefix(Keys(was.records), Keys(is.records))
  /\ was.end \in Nat /\ is.end \in Nat
  /\ Lined(d, base, was.end, is.end)
  /\ Len(was.records) = count \/ ~Record(d, was.end, base).ok
Same(was, is) == Keys(is.records) = Keys(was.records) /\ is.end = was.end

LEMMA SectionGrows ==
  ASSUME NEW d \in Bytes, NEW e \in Bytes, Continues(e, d),
         NEW base \in Nat, NEW was \in Nat, NEW is \in Nat, NEW count \in Nat,
         Lined(d, base, was, is)
  PROVE  LET rs == Records(d, was, base, count)
             ss == Records(e, is, base, count)
         IN  /\ Section(d, e, base, count, rs, ss)
             /\ rs.records # << >> => Record(d, was, base).ok
             /\ was = is /\ Len(rs.records) = count => Same(rs, ss)
<1> DEFINE rs == Records(d, was, base, count)
           ss == Records(e, is, base, count)
<1>1. PICK f : RecordsSteps(d, was, base, count, f)
  BY RecordsByIs
<1>2. PICK g : RecordsSteps(e, is, base, count, g)
  BY RecordsByIs
<1>3. rs = f[count] /\ ss = g[count]
  BY <1>1, <1>2 DEF RecordsSteps
<1>4. count \in 0 .. count
  OBVIOUS
<1>5. /\ rs \in Gots(d, base)
      /\ Len(rs.records) = count \/ ~Record(d, rs.end, base).ok
      /\ ss \in Gots(e, base)
  <2>1. /\ f[count] \in Gots(d, base)
        /\ Len(f[count].records) = count \/ ~Record(d, f[count].end, base).ok
    BY <1>1, <1>4, RecordsRun
  <2>2. g[count] \in Gots(e, base)
    BY <1>2, <1>4, RecordsRun
  <2> QED  BY <1>3, <2>1, <2>2
<1>6. /\ rs.records \in Seq(Recs(d, base)) /\ rs.end \in Nat
      /\ ss.records \in Seq(Recs(e, base)) /\ ss.end \in Nat
  <2> HIDE DEF rs, ss
  <2> QED  BY <1>5 DEF Gots
<1>7. CASE was = is
  <2>1. /\ Grown(rs.records, ss.records)
        /\ Len(rs.records) = count => Len(ss.records) = count /\ ss.end = rs.end
    <3>1. RecordsSteps(e, was, base, count, g)
      BY <1>2, <1>7
    <3>2. /\ Grown(f[count].records, g[count].records)
          /\ Len(f[count].records) = count =>
               Len(g[count].records) = count /\ g[count].end = f[count].end
      BY <1>1, <1>4, <3>1, RecordsGrow
    <3> QED  BY <1>3, <3>2
  <2> HIDE DEF rs, ss
  <2>2. /\ IsPrefix(Keys(rs.records), Keys(ss.records))
        /\ Len(rs.records) = Len(ss.records) => Keys(rs.records) = Keys(ss.records)
    BY <1>6, <2>1, GrownKeys
  <2>3. Section(d, e, base, count, rs, ss)
    BY <1>5, <1>6, <2>1, <2>2 DEF Section, Lined
  <2>4. Len(rs.records) = count => Same(rs, ss)
    BY <2>1, <2>2 DEF Same
  <2>5. ~Record(d, was, base).ok => rs.records = << >>
    <3>1. ~Record(d, was, base).ok => rs = [records |-> << >>, end |-> was]
      BY RecordsNone DEF rs
    <3> QED  BY <3>1
  <2> QED  BY <2>3, <2>4, <2>5 DEF rs, ss
<1>8. CASE was # is
  <2>1. ~Record(d, was, base).ok
    BY <1>8 DEF Lined
  <2>2. rs = [records |-> << >>, end |-> was]
    BY <2>1, RecordsNone
  <2> HIDE DEF rs, ss
  <2>3. rs.records = << >> /\ rs.end = was
    BY <2>2
  <2>4. Grown(rs.records, ss.records)
    <3>1. Len(rs.records) = 0 /\ Len(ss.records) \in Nat
      BY <1>6, <2>3, LenProperties, EmptySeq
    <3> QED  BY <3>1 DEF Grown
  <2>5. IsPrefix(Keys(rs.records), Keys(ss.records))
    BY <1>6, <2>4, GrownKeys
  <2>6. Section(d, e, base, count, rs, ss)
    BY <1>5, <1>6, <2>1, <2>3, <2>5 DEF Section, Lined
  <2> QED  BY <1>8, <2>3, <2>6 DEF rs, ss
<1> QED  BY <1>7, <1>8

\* The recursion of Questions.
QuestionsBy(d, pos, base, k, f) ==
  f = [i \in 0 .. k |->
         IF i = 0 THEN [ok |-> TRUE, open |-> TRUE, questions |-> << >>, end |-> pos]
         ELSE TakeQuestion(d, base, f[i - 1])]

LEMMA QuestionsByExists ==
  ASSUME NEW d, NEW pos, NEW base
  PROVE  \A k \in Nat : \E f : QuestionsBy(d, pos, base, k, f)
<1> DEFINE T == {k \in Nat : \E f : QuestionsBy(d, pos, base, k, f)}
           zero == [ok |-> TRUE, open |-> TRUE, questions |-> << >>, end |-> pos]
           after(x) == TakeQuestion(d, base, x)
<1>1. 0 \in T
  <2> DEFINE f == [i \in 0 .. 0 |-> zero]
  <2>1. f = [i \in 0 .. 0 |-> IF i = 0 THEN zero ELSE after(f[i - 1])]
    <3> HIDE DEF zero, after
    <3> QED  OBVIOUS
  <2>2. QuestionsBy(d, pos, base, 0, f)
    BY <2>1, Zenon DEF QuestionsBy
  <2> QED  BY <2>2
<1>2. ASSUME NEW k \in Nat, k \in T PROVE k + 1 \in T
  <2>1. PICK f : QuestionsBy(d, pos, base, k, f)
    BY <1>2
  <2> DEFINE g == [i \in 0 .. k + 1 |-> IF i = k + 1 THEN after(f[k]) ELSE f[i]]
             h == [i \in 0 .. k + 1 |-> IF i = 0 THEN zero ELSE after(g[i - 1])]
  <2>2. f = [i \in 0 .. k |-> IF i = 0 THEN zero ELSE after(f[i - 1])]
    BY <2>1, Zenon DEF QuestionsBy
  <2> HIDE DEF zero, after
  <2>3. \A i \in 0 .. k : f[i] = IF i = 0 THEN zero ELSE after(f[i - 1])
    BY <2>2
  <2>4. /\ \A i \in 0 .. k : g[i] = f[i]
        /\ g[k + 1] = after(f[k])
    <3>1. k + 1 \in 0 .. k + 1 /\ \A i \in 0 .. k : i \in 0 .. k + 1 /\ i # k + 1
      OBVIOUS
    <3>2. g[k + 1] = after(f[k])
      BY <3>1, Zenon
    <3>3. ASSUME NEW i \in 0 .. k PROVE g[i] = f[i]
      BY <3>1, Zenon
    <3> QED  BY <3>2, <3>3
  <2>5. \A i \in 0 .. k + 1 : h[i] = IF i = 0 THEN zero ELSE after(g[i - 1])
    BY DEF h
  <2> HIDE DEF g, h
  <2>6. ASSUME NEW i \in 0 .. k + 1 PROVE g[i] = h[i]
    <3>1. CASE i = 0
      <4>1. 0 \in 0 .. k
        OBVIOUS
      <4> QED  BY <2>3, <2>4, <2>5, <3>1, <4>1
    <3>2. CASE i \in 1 .. k
      <4>1. i # 0 /\ i \in 0 .. k /\ i - 1 \in 0 .. k
        BY <3>2
      <4> QED  BY <2>3, <2>4, <2>5, <4>1
    <3>3. CASE i = k + 1
      <4>1. i # 0 /\ i - 1 = k /\ k \in 0 .. k
        BY <3>3
      <4> QED  BY <2>4, <2>5, <3>3, <4>1
    <3> QED  BY <3>1, <3>2, <3>3
  <2>7. g = h
    BY <2>6 DEF g, h
  <2>8. g = [i \in 0 .. k + 1 |-> IF i = 0 THEN zero ELSE after(g[i - 1])]
    BY <2>7 DEF h
  <2> USE DEF zero, after
  <2> HIDE DEF g, h
  <2>9. QuestionsBy(d, pos, base, k + 1, g)
    BY <2>8, Zenon DEF QuestionsBy
  <2>10. k + 1 \in Nat
    OBVIOUS
  <2> QED  BY <2>9, <2>10, Zenon
<1> HIDE DEF T
<1>3. Nat \subseteq T
  BY <1>1, <1>2, SetInduction
<1> QED  BY <1>3 DEF T

QuestionsSteps(d, pos, base, count, f) ==
  /\ Questions(d, pos, base, count) = f[count]
  /\ f[0] = [ok |-> TRUE, open |-> TRUE, questions |-> << >>, end |-> pos]
  /\ \A i \in 1 .. count : f[i] = TakeQuestion(d, base, f[i - 1])

LEMMA QuestionsByIs ==
  ASSUME NEW d, NEW pos, NEW base, NEW count \in Nat
  PROVE  \E f : QuestionsSteps(d, pos, base, count, f)
<1> DEFINE f == CHOOSE f : QuestionsBy(d, pos, base, count, f)
<1>1. QuestionsBy(d, pos, base, count, f)
  <2>1. \E g : QuestionsBy(d, pos, base, count, g)
    BY QuestionsByExists
  <2> QED  BY <2>1, Zenon
<1>2. Questions(d, pos, base, count) = f[count]
  BY Zenon DEF Questions, QuestionsBy
<1> HIDE DEF f
<1>3. f[0] = [ok |-> TRUE, open |-> TRUE, questions |-> << >>, end |-> pos]
      /\ \A i \in 1 .. count : f[i] = TakeQuestion(d, base, f[i - 1])
  <2> DEFINE zero == [ok |-> TRUE, open |-> TRUE, questions |-> << >>, end |-> pos]
             after(x) == TakeQuestion(d, base, x)
  <2>1. f = [i \in 0 .. count |-> IF i = 0 THEN zero ELSE after(f[i - 1])]
    BY <1>1, Zenon DEF QuestionsBy
  <2> HIDE DEF zero, after
  <2>2. f[0] = zero /\ \A i \in 1 .. count : f[i] = after(f[i - 1])
    BY <2>1
  <2> QED  BY <2>2, Zenon DEF zero, after
<1> QED  BY <1>2, <1>3 DEF QuestionsSteps

\* What is known of the questions read so far.
Ask(d, pos, base) == <<Name(d, pos, base).name, U16(d, Name(d, pos, base).end)>>
Asks(d, base) == {Ask(d, p, base) : p \in Nat}
Asked(S) == [ok : BOOLEAN, open : BOOLEAN, questions : Seq(S), end : Nat]
Fails(got) == [got EXCEPT !.ok = FALSE, !.open = FALSE]
Cuts(got, end) == [got EXCEPT !.open = FALSE, !.end = end]
Asks1(got, ask, end) == [got EXCEPT !.questions = Append(@, ask), !.end = end]

LEMMA TakeQuestionIs ==
  ASSUME NEW d \in Bytes, NEW base \in Nat, NEW S, Asks(d, base) \subseteq S,
         NEW got \in Asked(S)
  PROVE  LET name == Name(d, got.end, base)
             next == TakeQuestion(d, base, got)
             ask == Ask(d, got.end, base)
         IN  /\ next \in Asked(S) /\ ask \in S
             /\ ~got.open => next = got
             /\ got.open /\ ~name.ok => next = Fails(got)
             /\ got.open /\ name.ok /\ name.end + 4 > Len(d) => next = Cuts(got, name.end)
             /\ got.open /\ name.ok /\ ~(name.end + 4 > Len(d)) =>
                  next = Asks1(got, ask, name.end + 4)
<1> DEFINE name == Name(d, got.end, base)
           next == TakeQuestion(d, base, got)
           ask == Ask(d, got.end, base)
           m == Len(d)
<1>1. got.end \in Nat
  BY DEF Asked
<1>2. ask \in S
  BY <1>1 DEF Asks
<1>3. name.ok => name.end \in Nat
  BY <1>1, NamesSpan DEF NameSpan
<1>4. ~got.open => next = got
  BY DEF TakeQuestion
<1>5. got.open /\ ~name.ok => next = Fails(got)
  BY DEF TakeQuestion, Fails
<1>6. got.open /\ name.ok /\ name.end + 4 > m => next = Cuts(got, name.end)
  BY DEF TakeQuestion, Cuts
<1>7. got.open /\ name.ok /\ ~(name.end + 4 > m) => next = Asks1(got, ask, name.end + 4)
  BY DEF TakeQuestion, Asks1, Ask
<1> HIDE DEF name, next, ask, m
<1>8. next \in Asked(S)
  <2>1. CASE ~got.open
    BY <1>4, <2>1
  <2>2. Fails(got) \in Asked(S)
    BY DEF Fails, Asked
  <2>3. name.ok => Cuts(got, name.end) \in Asked(S)
    BY <1>3 DEF Cuts, Asked
  <2>4. name.ok => Asks1(got, ask, name.end + 4) \in Asked(S)
    <3> SUFFICES ASSUME name.ok PROVE Asks1(got, ask, name.end + 4) \in Asked(S)
      OBVIOUS
    <3>1. got.questions \in Seq(S)
      BY DEF Asked
    <3>2. Append(got.questions, ask) \in Seq(S)
      BY <1>2, <3>1, AppendProperties
    <3>3. name.end + 4 \in Nat
      BY <1>3
    <3> QED  BY <3>2, <3>3 DEF Asks1, Asked
  <2> QED  BY <1>5, <1>6, <1>7, <2>1, <2>2, <2>3, <2>4
<1> QED  BY <1>2, <1>4, <1>5, <1>6, <1>7, <1>8 DEF name, next, ask, m

\* No record begins behind a question that is cut.
LEMMA CutsTheRest ==
  ASSUME NEW d \in Bytes, NEW base \in Nat, NEW pos \in Nat, pos + 4 > Len(d)
  PROVE  ~Record(d, pos, base).ok
<1> SUFFICES ASSUME Record(d, pos, base).ok PROVE FALSE
  OBVIOUS
<1> DEFINE end == Record(d, pos, base).end
           m == Len(d)
<1>1. end \in Nat /\ pos + 10 < end /\ end <= m
  BY RecordsSpan DEF RecordSpan
<1>2. m \in Nat /\ pos + 4 > m
  BY Reads
<1> HIDE DEF end, m
<1> QED  BY <1>1, <1>2

\* The questions are open as long as each was whole; else nothing is read
\* behind them.
AskedSoFar(d, base, S, got, i) ==
  /\ got \in Asked(S)
  /\ Len(got.questions) \in 0 .. i
  /\ got.open <=> Len(got.questions) = i
  /\ got.ok /\ ~got.open => ~Record(d, got.end, base).ok
  /\ got.open => got.ok

LEMMA QuestionsRun ==
  ASSUME NEW d \in Bytes, NEW base \in Nat, NEW pos \in Nat, NEW count \in Nat,
         NEW S, Asks(d, base) \subseteq S,
         NEW f, QuestionsSteps(d, pos, base, count, f)
  PROVE  \A i \in 0 .. count : AskedSoFar(d, base, S, f[i], i)
<1> DEFINE Ok(i) == AskedSoFar(d, base, S, f[i], i)
           T == {i \in Nat : i <= count => Ok(i)}
<1>1. 0 \in T
  <2>1. f[0] = [ok |-> TRUE, open |-> TRUE, questions |-> << >>, end |-> pos]
    BY DEF QuestionsSteps
  <2>2. << >> \in Seq(S) /\ Len(<< >>) = 0
    BY EmptySeq
  <2>3. f[0] \in Asked(S)
    BY <2>1, <2>2 DEF Asked
  <2>4. f[0].ok /\ f[0].open /\ f[0].questions = << >>
    BY <2>1
  <2>5. Ok(0)
    BY <2>2, <2>3, <2>4 DEF AskedSoFar
  <2> QED  BY <2>5
<1>2. ASSUME NEW i \in Nat, i \in T PROVE i + 1 \in T
  <2> SUFFICES ASSUME i + 1 <= count PROVE Ok(i + 1)
    OBVIOUS
  <2>1. i <= count /\ i + 1 \in 1 .. count /\ (i + 1) - 1 = i
    OBVIOUS
  <2>2. Ok(i)
    BY <1>2, <2>1
  <2> DEFINE got == f[i]
             name == Name(d, got.end, base)
             ask == Ask(d, got.end, base)
             next == TakeQuestion(d, base, got)
             n == Len(got.questions)
             m == Len(d)
  <2>3. f[i + 1] = next
    BY <2>1 DEF QuestionsSteps
  <2>4. /\ next \in Asked(S) /\ ask \in S
        /\ ~got.open => next = got
        /\ got.open /\ ~name.ok => next = Fails(got)
        /\ got.open /\ name.ok /\ name.end + 4 > m => next = Cuts(got, name.end)
        /\ got.open /\ name.ok /\ ~(name.end + 4 > m) =>
             next = Asks1(got, ask, name.end + 4)
    <3>1. got \in Asked(S)
      BY <2>2 DEF AskedSoFar
    <3> HIDE DEF got
    <3> QED  BY <3>1, TakeQuestionIs
  <2>5. /\ got \in Asked(S) /\ n \in 0 .. i /\ (got.open <=> n = i)
        /\ (got.ok /\ ~got.open => ~Record(d, got.end, base).ok)
        /\ (got.open => got.ok)
    BY <2>2 DEF AskedSoFar
  <2>6. got.open \in BOOLEAN /\ got.questions \in Seq(S) /\ got.end \in Nat
    BY <2>5 DEF Asked
  <2>7. name.ok => name.end \in Nat
    BY <2>6, NamesSpan DEF NameSpan
  <2>8. name.ok /\ name.end + 4 > m => ~Record(d, name.end, base).ok
    BY <2>7, CutsTheRest
  <2>9. Len(Append(got.questions, ask)) = n + 1
    BY <2>4, <2>6, AppendProperties
  <2> HIDE DEF name, ask, next, n, m
  <2> SUFFICES /\ next \in Asked(S)
               /\ Len(next.questions) \in 0 .. i + 1
               /\ next.open <=> Len(next.questions) = i + 1
               /\ next.ok /\ ~next.open => ~Record(d, next.end, base).ok
               /\ next.open => next.ok
    BY <2>3 DEF AskedSoFar
  <2> HIDE DEF got
  <2>10. CASE ~got.open
    <3>1. next = got /\ n \in 0 .. i + 1 /\ n # i + 1
      BY <2>4, <2>5, <2>10
    <3> QED  BY <2>4, <2>5, <2>10, <3>1 DEF n
  <2>11. CASE got.open /\ ~name.ok
    <3>1. next.questions = got.questions /\ ~next.open /\ ~next.ok
      BY <2>4, <2>5, <2>11 DEF Fails, Asked
    <3>2. n \in 0 .. i + 1 /\ n # i + 1
      BY <2>5
    <3>3. Len(next.questions) = n
      BY <3>1 DEF n
    <3> QED  BY <2>4, <3>1, <3>2, <3>3
  <2>12. CASE got.open /\ name.ok /\ name.end + 4 > m
    <3>1. next.questions = got.questions /\ ~next.open /\ next.end = name.end
      BY <2>4, <2>5, <2>12 DEF Cuts, Asked
    <3>2. n \in 0 .. i + 1 /\ n # i + 1
      BY <2>5
    <3>3. Len(next.questions) = n
      BY <3>1 DEF n
    <3>4. ~Record(d, next.end, base).ok
      BY <2>8, <2>12, <3>1
    <3> QED  BY <2>4, <3>1, <3>2, <3>3, <3>4
  <2>13. CASE got.open /\ name.ok /\ ~(name.end + 4 > m)
    <3>1. next.questions = Append(got.questions, ask) /\ next.open = got.open /\ next.ok = got.ok
      BY <2>4, <2>5, <2>13 DEF Asks1, Asked
    <3>2. n = i
      BY <2>5, <2>13
    <3>3. Len(next.questions) = i + 1 /\ i + 1 \in 0 .. i + 1
      BY <2>9, <3>1, <3>2
    <3> QED  BY <2>4, <2>5, <2>13, <3>1, <3>3
  <2> QED  BY <2>6, <2>10, <2>11, <2>12, <2>13
<1> HIDE DEF T
<1>3. Nat \subseteq T
  BY <1>1, <1>2, SetInduction
<1> QED  BY <1>3 DEF T

\* The questions of a message that goes on begin with those read before, and
\* are the same as long as none was cut.
Begins(s, t) == Len(s) <= Len(t) /\ \A j \in 1 .. Len(s) : s[j] = t[j]

LEMMA BeginsLonger ==
  ASSUME NEW S, NEW s \in Seq(S), NEW t \in Seq(S), Begins(s, t), NEW x \in S
  PROVE  Begins(s, Append(t, x))
<1> DEFINE m == Len(s)
           n == Len(t)
           u == Append(t, x)
<1>1. m \in Nat /\ n \in Nat /\ Len(u) = n + 1 /\ \A j \in 1 .. n : u[j] = t[j]
  BY LenProperties, AppendProperties
<1>2. m <= n /\ \A j \in 1 .. m : s[j] = t[j]
  BY DEF Begins
<1> HIDE DEF m, n, u
<1>3. m <= Len(u) /\ \A j \in 1 .. m : j \in 1 .. n
  BY <1>1, <1>2
<1>4. m <= Len(u) /\ \A j \in 1 .. m : s[j] = u[j]
  BY <1>1, <1>2, <1>3
<1> QED  BY <1>4 DEF Begins, m, u

LEMMA TakesOnly ==
  ASSUME NEW d \in Bytes, NEW base \in Nat, NEW S, Asks(d, base) \subseteq S,
         NEW got \in Asked(S), NEW s \in Seq(S), Begins(s, got.questions)
  PROVE  Begins(s, TakeQuestion(d, base, got).questions)
<1> DEFINE name == Name(d, got.end, base)
           next == TakeQuestion(d, base, got)
           ask == Ask(d, got.end, base)
           m == Len(d)
<1>1. /\ next \in Asked(S) /\ ask \in S
      /\ ~got.open => next = got
      /\ got.open /\ ~name.ok => next = Fails(got)
      /\ got.open /\ name.ok /\ name.end + 4 > m => next = Cuts(got, name.end)
      /\ got.open /\ name.ok /\ ~(name.end + 4 > m) =>
           next = Asks1(got, ask, name.end + 4)
  BY TakeQuestionIs
<1>2. got.questions \in Seq(S)
  BY DEF Asked
<1> HIDE DEF name, next, ask, m
<1>3. Fails(got).questions = got.questions /\ \A x : Cuts(got, x).questions = got.questions
  BY DEF Fails, Cuts, Asked
<1>4. \A x : Asks1(got, ask, x).questions = Append(got.questions, ask)
  BY DEF Asks1, Asked
<1>5. Begins(s, Append(got.questions, ask))
  BY <1>1, <1>2, BeginsLonger
<1>6. next.questions = got.questions \/ next.questions = Append(got.questions, ask)
  BY <1>1, <1>3, <1>4, Zenon
<1> QED  BY <1>5, <1>6 DEF next

LEMMA QuestionsGrow ==
  ASSUME NEW d \in Bytes, NEW e \in Bytes, Continues(e, d),
         NEW base \in Nat, NEW pos \in Nat, NEW count \in Nat,
         NEW f, QuestionsSteps(d, pos, base, count, f),
         NEW g, QuestionsSteps(e, pos, base, count, g)
  PROVE  \A i \in 0 .. count :
           /\ Begins(f[i].questions, g[i].questions)
           /\ f[i].open => g[i] = f[i]
<1> DEFINE S == Asks(d, base) \cup Asks(e, base)
<1>1. Asks(d, base) \subseteq S /\ Asks(e, base) \subseteq S
  OBVIOUS
<1> HIDE DEF S
<1> DEFINE Ok(i) == /\ Begins(f[i].questions, g[i].questions)
                    /\ f[i].open => g[i] = f[i]
           T == {i \in Nat : i <= count => Ok(i)}
<1>2. 0 \in T
  <2>1. f[0] = g[0] /\ f[0].questions = << >>
    BY DEF QuestionsSteps
  <2>2. Begins(<< >>, << >>)
    BY DEF Begins
  <2>3. Ok(0)
    BY <2>1, <2>2
  <2> QED  BY <2>3
<1>3. ASSUME NEW i \in Nat, i \in T PROVE i + 1 \in T
  <2> SUFFICES ASSUME i + 1 <= count PROVE Ok(i + 1)
    OBVIOUS
  <2>1. i \in 0 .. count /\ i + 1 \in 1 .. count /\ (i + 1) - 1 = i
    OBVIOUS
  <2>2. Ok(i)
    BY <1>3, <2>1
  <2> DEFINE was == f[i]
             is == g[i]
             next == TakeQuestion(d, base, was)
             also == TakeQuestion(e, base, is)
  <2>3. f[i + 1] = next /\ g[i + 1] = also
    BY <2>1 DEF QuestionsSteps
  <2>4. was \in Asked(S) /\ is \in Asked(S)
    <3>1. AskedSoFar(d, base, S, f[i], i) /\ AskedSoFar(e, base, S, g[i], i)
      BY <1>1, <2>1, QuestionsRun
    <3> QED  BY <3>1 DEF AskedSoFar
  <2>5. /\ Begins(was.questions, is.questions)
        /\ was.open => is = was
    BY <2>2
  <2> HIDE DEF was, is
  <2>6. was.questions \in Seq(S) /\ was.open \in BOOLEAN /\ was.end \in Nat
    BY <2>4 DEF Asked
  <2>7. Begins(was.questions, also.questions)
    BY <1>1, <2>4, <2>5, <2>6, TakesOnly
  <2> DEFINE name == Name(d, was.end, base)
             ask == Ask(d, was.end, base)
             m == Len(d)
  <2>8. /\ next \in Asked(S)
        /\ ~was.open => next = was
        /\ was.open /\ ~name.ok => next = Fails(was)
        /\ was.open /\ name.ok /\ name.end + 4 > m => next = Cuts(was, name.end)
        /\ was.open /\ name.ok /\ ~(name.end + 4 > m) =>
             next = Asks1(was, ask, name.end + 4)
    BY <1>1, <2>4, TakeQuestionIs
  <2>9. /\ Fails(was).questions = was.questions /\ ~Fails(was).open
        /\ \A x : Cuts(was, x).questions = was.questions /\ ~Cuts(was, x).open
    BY <2>4 DEF Fails, Cuts, Asked
  <2>10. CASE was.open /\ name.ok /\ ~(name.end + 4 > m)
    <3>1. is = was
      BY <2>5, <2>10
    <3>2. Name(e, was.end, base) = name
      BY <2>6, <2>10, NamesKept
    <3>3. name.end \in Nat
      BY <2>6, <2>10, NamesSpan DEF NameSpan
    <3>4. m \in Nat /\ Len(e) \in Nat /\ m <= Len(e)
      BY Reads, ReadsOnward
    <3>5. name.end \in 0 .. m - 2 /\ ~(name.end + 4 > Len(e))
      <4> DEFINE n == name.end
                 l == Len(e)
      <4>1. n \in Nat /\ m \in Nat /\ l \in Nat /\ m <= l /\ ~(n + 4 > m)
        BY <2>10, <3>3, <3>4
      <4> HIDE DEF n, l, m
      <4>2. n \in 0 .. m - 2 /\ ~(n + 4 > l)
        BY <4>1
      <4> QED  BY <4>2 DEF n, l
    <3>6. U16(e, name.end) = U16(d, name.end)
      BY <3>5, ReadsOnward
    <3>7. Ask(e, was.end, base) = ask
      BY <3>2, <3>6 DEF Ask
    <3>8. also = Asks1(was, ask, name.end + 4)
      <4> DEFINE name2 == Name(e, was.end, base)
      <4>1. was.open /\ name2.ok /\ ~(name2.end + 4 > Len(e)) =>
              TakeQuestion(e, base, was) = Asks1(was, Ask(e, was.end, base), name2.end + 4)
        BY <1>1, <2>4, TakeQuestionIs
      <4>2. name2 = name
        BY <3>2
      <4> HIDE DEF name2, name
      <4>3. was.open /\ name2.ok /\ ~(name2.end + 4 > Len(e))
        BY <2>10, <3>5, <4>2
      <4> QED  BY <3>1, <3>7, <4>1, <4>2, <4>3
    <3>9. next = also
      BY <2>8, <2>10, <3>8
    <3>10. Begins(next.questions, also.questions)
      <4>1. next.questions \in Seq(S)
        BY <2>8 DEF Asked
      <4>2. Len(next.questions) \in Nat
        BY <4>1, LenProperties
      <4> HIDE DEF next, also
      <4> QED  BY <3>9, <4>2 DEF Begins
    <3> QED  BY <2>3, <3>9, <3>10
  <2>11. CASE ~(was.open /\ name.ok /\ ~(name.end + 4 > m))
    <3>1. next.questions = was.questions /\ ~next.open
      <4> HIDE DEF next, name, m
      <4>1. CASE ~was.open
        BY <2>8, <4>1
      <4>2. CASE was.open /\ ~name.ok
        BY <2>8, <2>9, <4>2
      <4>3. CASE was.open /\ name.ok /\ name.end + 4 > m
        BY <2>8, <2>9, <4>3
      <4> QED  BY <2>11, <4>1, <4>2, <4>3
    <3> QED  BY <2>3, <2>7, <3>1
  <2> QED  BY <2>10, <2>11
<1> HIDE DEF T
<1>4. Nat \subseteq T
  BY <1>2, <1>3, SetInduction
<1> QED  BY <1>4 DEF T

(***************************************************************************)
(* A DNS message.                                                          *)
(***************************************************************************)
DnsHead(d, o) ==
  /\ ~(Len(d) < o + 12)
  /\ ~(U16(d, o + 4) > 100 \/ \E i \in {6, 8, 10} : U16(d, o + i) > 4096)
DnsQ(d, o) == Questions(d, o + 12, o, U16(d, o + 4))
DnsA(d, o) == Records(d, DnsQ(d, o).end, o, U16(d, o + 6))
DnsN(d, o) == Records(d, DnsA(d, o).end, o, U16(d, o + 8))
DnsX(d, o) == Records(d, DnsN(d, o).end, o, U16(d, o + 10))
DnsOpen(d, o) == DnsHead(d, o) /\ DnsQ(d, o).ok /\ DnsQ(d, o).questions # << >>
DnsParts(d, o) ==
  [questions |-> DnsQ(d, o).questions, answers |-> DnsA(d, o).records,
   authorities |-> DnsN(d, o).records, additionals |-> DnsX(d, o).records,
   end |-> DnsX(d, o).end]

LEMMA DnsIs ==
  ASSUME NEW d, NEW o
  PROVE  /\ DnsOpen(d, o) => Dns(d, o) = DnsParts(d, o)
         /\ Dns(d, o) # Nothing => DnsOpen(d, o)
<1> DEFINE q == DnsQ(d, o)
           parts == DnsParts(d, o)
           long == Len(d) < o + 12
           many == U16(d, o + 4) > 100 \/ \E i \in {6, 8, 10} : U16(d, o + i) > 4096
           none == ~q.ok \/ q.questions = << >>
<1>1. Dns(d, o) = IF long THEN Nothing
                  ELSE IF many THEN Nothing
                  ELSE IF none THEN Nothing ELSE parts
  BY Zenon DEF Dns, DnsQ, DnsA, DnsN, DnsX, DnsParts
<1>2. DnsOpen(d, o) <=> ~long /\ ~many /\ ~none
  BY Zenon DEF DnsOpen, DnsHead
<1> HIDE DEF long, many, none, parts
<1> QED  BY <1>1, <1>2, Zenon DEF parts

LEMMA HeadKept ==
  ASSUME NEW d \in Bytes, NEW e \in Bytes, Continues(e, d), NEW o \in Nat, DnsHead(d, o)
  PROVE  /\ DnsHead(e, o)
         /\ \A i \in {4, 6, 8, 10} : U16(d, o + i) \in Nat /\ U16(e, o + i) = U16(d, o + i)
<1> DEFINE m == Len(d)
           n == Len(e)
<1>1. m \in Nat /\ n \in Nat /\ m <= n
  BY Reads, ReadsOnward
<1>2. ~(m < o + 12) /\ ~(U16(d, o + 4) > 100 \/ \E i \in {6, 8, 10} : U16(d, o + i) > 4096)
  BY DEF DnsHead
<1>3. \A i \in {4, 6, 8, 10} : o + i \in 0 .. m - 2
  <2> HIDE DEF m, n
  <2> QED  BY <1>1, <1>2
<1>4. \A i \in {4, 6, 8, 10} : U16(d, o + i) \in Nat /\ U16(e, o + i) = U16(d, o + i)
  BY <1>3, Reads, ReadsOnward
<1>5. ~(n < o + 12)
  <2> HIDE DEF m, n
  <2> QED  BY <1>1, <1>2
<1>6. U16(e, o + 4) = U16(d, o + 4) /\ \A i \in {6, 8, 10} : U16(e, o + i) = U16(d, o + i)
  BY <1>4
<1>7. ~(U16(e, o + 4) > 100 \/ \E i \in {6, 8, 10} : U16(e, o + i) > 4096)
  BY <1>2, <1>6
<1> QED  BY <1>4, <1>5, <1>7 DEF DnsHead

LEMMA QuestionsKept ==
  ASSUME NEW d \in Bytes, NEW e \in Bytes, Continues(e, d), NEW o \in Nat, DnsOpen(d, o)
  PROVE  /\ IsPrefix(DnsQ(d, o).questions, DnsQ(e, o).questions)
         /\ DnsQ(d, o).end \in Nat /\ DnsQ(e, o).end \in Nat
         /\ Lined(d, o, DnsQ(d, o).end, DnsQ(e, o).end)
         /\ Len(DnsQ(d, o).questions) = U16(d, o + 4) => DnsQ(e, o) = DnsQ(d, o)
<1> DEFINE count == U16(d, o + 4)
           S == Asks(d, o) \cup Asks(e, o)
           q == DnsQ(d, o)
           p == DnsQ(e, o)
<1>1. DnsHead(d, o) /\ q.ok
  BY DEF DnsOpen
<1>2. count \in Nat /\ U16(e, o + 4) = count
  BY <1>1, HeadKept
<1>3. o + 12 \in Nat /\ count \in 0 .. count
  BY <1>2
<1>4. PICK f : QuestionsSteps(d, o + 12, o, count, f)
  BY <1>2, QuestionsByIs
<1>5. PICK g : QuestionsSteps(e, o + 12, o, count, g)
  BY <1>2, QuestionsByIs
<1>6. q = f[count] /\ p = g[count]
  <2>1. q = f[count]
    BY <1>4, Zenon DEF QuestionsSteps, DnsQ
  <2>2. p = Questions(e, o + 12, o, count)
    BY <1>2, Zenon DEF DnsQ
  <2> QED  BY <1>5, <2>1, <2>2, Zenon DEF QuestionsSteps
<1>7. Asks(d, o) \subseteq S /\ Asks(e, o) \subseteq S
  OBVIOUS
<1> HIDE DEF S, count
<1>8. /\ f[count] \in Asked(S)
      /\ f[count].open <=> Len(f[count].questions) = count
      /\ f[count].ok /\ ~f[count].open => ~Record(d, f[count].end, o).ok
  <2>1. AskedSoFar(d, o, S, f[count], count)
    BY <1>2, <1>3, <1>4, <1>7, QuestionsRun
  <2> QED  BY <2>1 DEF AskedSoFar
<1>9. g[count] \in Asked(S)
  <2>1. AskedSoFar(e, o, S, g[count], count)
    BY <1>2, <1>3, <1>5, <1>7, QuestionsRun
  <2> QED  BY <2>1 DEF AskedSoFar
<1>10. /\ Begins(f[count].questions, g[count].questions)
       /\ f[count].open => g[count] = f[count]
  BY <1>2, <1>3, <1>4, <1>5, QuestionsGrow
<1> HIDE DEF p, q
<1>11. /\ q \in Asked(S) /\ p \in Asked(S)
       /\ q.open <=> Len(q.questions) = count
       /\ q.ok /\ ~q.open => ~Record(d, q.end, o).ok
       /\ Begins(q.questions, p.questions)
       /\ q.open => p = q
  BY <1>6, <1>8, <1>9, <1>10
<1>12. /\ q.questions \in Seq(S) /\ p.questions \in Seq(S)
       /\ q.end \in Nat /\ p.end \in Nat /\ q.open \in BOOLEAN
  BY <1>11 DEF Asked
<1>13. IsPrefix(q.questions, p.questions)
  BY <1>11, <1>12, PrefixIs DEF Begins
<1>14. Lined(d, o, q.end, p.end)
  BY <1>1, <1>11, <1>12 DEF Lined
<1>15. Len(q.questions) = count => p = q
  BY <1>11, <1>12
<1> QED  BY <1>12, <1>13, <1>14, <1>15 DEF p, q, count

\* The sections of a message, and those of the longer one.
LEMMA DnsGrows ==
  ASSUME NEW d \in Bytes, NEW e \in Bytes, Continues(e, d), NEW o \in Nat, DnsOpen(d, o)
  PROVE  /\ DnsHead(e, o)
         /\ IsPrefix(DnsQ(d, o).questions, DnsQ(e, o).questions)
         /\ Len(DnsQ(d, o).questions) = U16(d, o + 4) => DnsQ(e, o) = DnsQ(d, o)
         /\ Section(d, e, o, U16(d, o + 6), DnsA(d, o), DnsA(e, o))
         /\ Section(d, e, o, U16(d, o + 8), DnsN(d, o), DnsN(e, o))
         /\ DnsN(d, o).records # << >> => Len(DnsA(d, o).records) = U16(d, o + 6)
         /\ DnsQ(e, o).end = DnsQ(d, o).end /\ Len(DnsA(d, o).records) = U16(d, o + 6)
              => Same(DnsA(d, o), DnsA(e, o))
         /\ DnsA(e, o).end = DnsA(d, o).end /\ Len(DnsN(d, o).records) = U16(d, o + 8)
              => Same(DnsN(d, o), DnsN(e, o))
         /\ DnsN(e, o).end = DnsN(d, o).end /\ Len(DnsX(d, o).records) = U16(d, o + 10)
              => Same(DnsX(d, o), DnsX(e, o))
<1> DEFINE q == DnsQ(d, o)
           p == DnsQ(e, o)
           ca == U16(d, o + 6)
           cn == U16(d, o + 8)
           cx == U16(d, o + 10)
<1>1. DnsHead(d, o)
  BY DEF DnsOpen
<1>2. /\ DnsHead(e, o) /\ ca \in Nat /\ cn \in Nat /\ cx \in Nat
      /\ U16(e, o + 6) = ca /\ U16(e, o + 8) = cn /\ U16(e, o + 10) = cx
  BY <1>1, HeadKept
<1>3. /\ IsPrefix(q.questions, p.questions)
      /\ q.end \in Nat /\ p.end \in Nat /\ Lined(d, o, q.end, p.end)
      /\ Len(q.questions) = U16(d, o + 4) => p = q
  BY QuestionsKept
<1> HIDE DEF ca, cn, cx
<1>4. /\ DnsA(d, o) = Records(d, q.end, o, ca) /\ DnsA(e, o) = Records(e, p.end, o, ca)
      /\ DnsN(d, o) = Records(d, DnsA(d, o).end, o, cn)
      /\ DnsN(e, o) = Records(e, DnsA(e, o).end, o, cn)
      /\ DnsX(d, o) = Records(d, DnsN(d, o).end, o, cx)
      /\ DnsX(e, o) = Records(e, DnsN(e, o).end, o, cx)
  BY <1>2, Zenon DEF DnsA, DnsN, DnsX, ca, cn, cx
<1> HIDE DEF q, p
<1> DEFINE a == DnsA(d, o)
           b == DnsA(e, o)
<1>5. /\ Section(d, e, o, ca, a, b)
      /\ q.end = p.end /\ Len(a.records) = ca => Same(a, b)
  <2> DEFINE was == q.end
             is == p.end
  <2>1. was \in Nat /\ is \in Nat /\ Lined(d, o, was, is)
    BY <1>3
  <2> HIDE DEF was, is
  <2>2. LET rs == Records(d, was, o, ca)
            ss == Records(e, is, o, ca)
        IN  /\ Section(d, e, o, ca, rs, ss)
            /\ was = is /\ Len(rs.records) = ca => Same(rs, ss)
    BY <1>2, <2>1, SectionGrows
  <2> QED  BY <1>4, <2>2 DEF was, is
<1> HIDE DEF a, b
<1>6. a.end \in Nat /\ b.end \in Nat /\ Lined(d, o, a.end, b.end)
      /\ (Len(a.records) = ca \/ ~Record(d, a.end, o).ok)
  BY <1>5 DEF Section
<1> DEFINE n == DnsN(d, o)
           l == DnsN(e, o)
<1>7. /\ Section(d, e, o, cn, n, l)
      /\ n.records # << >> => Record(d, a.end, o).ok
      /\ a.end = b.end /\ Len(n.records) = cn => Same(n, l)
  <2> DEFINE was == a.end
             is == b.end
  <2>1. was \in Nat /\ is \in Nat /\ Lined(d, o, was, is)
    BY <1>6
  <2>2. n = Records(d, was, o, cn) /\ l = Records(e, is, o, cn)
    BY <1>4 DEF a, b
  <2> HIDE DEF was, is, n, l
  <2>3. LET rs == Records(d, was, o, cn)
            ss == Records(e, is, o, cn)
        IN  /\ Section(d, e, o, cn, rs, ss)
            /\ rs.records # << >> => Record(d, was, o).ok
            /\ was = is /\ Len(rs.records) = cn => Same(rs, ss)
    BY <1>2, <2>1, SectionGrows
  <2> QED  BY <2>2, <2>3 DEF was, is
<1> HIDE DEF n, l
<1>8. n.end \in Nat /\ l.end \in Nat /\ Lined(d, o, n.end, l.end)
  BY <1>7 DEF Section
<1> DEFINE x == DnsX(d, o)
           y == DnsX(e, o)
<1>9. n.end = l.end /\ Len(x.records) = cx => Same(x, y)
  <2> DEFINE was == n.end
             is == l.end
  <2>1. was \in Nat /\ is \in Nat /\ Lined(d, o, was, is)
    BY <1>8
  <2>2. x = Records(d, was, o, cx) /\ y = Records(e, is, o, cx)
    BY <1>4 DEF n, l
  <2> HIDE DEF was, is, x, y
  <2>3. LET rs == Records(d, was, o, cx)
            ss == Records(e, is, o, cx)
        IN  was = is /\ Len(rs.records) = cx => Same(rs, ss)
    BY <1>2, <2>1, SectionGrows
  <2> QED  BY <2>2, <2>3 DEF was, is
<1> HIDE DEF x, y
<1>10. n.records # << >> => Len(a.records) = ca
  BY <1>6, <1>7
<1> QED  BY <1>2, <1>3, <1>5, <1>7, <1>9, <1>10 DEF q, p, a, b, n, l, x, y, ca, cn, cx

LEMMA DnsComes ==
  ASSUME NEW d \in Bytes, NEW e \in Bytes, Continues(e, d), NEW o \in Nat
  PROVE  /\ DnsComplete(d, o) =>
              LET was == Dns(d, o)
                  is  == Dns(e, o)
              IN  /\ is.questions = was.questions /\ is.end = was.end
                  /\ Keys(is.answers) = Keys(was.answers)
                  /\ Keys(is.authorities) = Keys(was.authorities)
                  /\ Keys(is.additionals) = Keys(was.additionals)
         /\ Dns(d, o) # Nothing /\ Dns(e, o) # Nothing =>
              LET was == Dns(d, o)
                  is  == Dns(e, o)
              IN  /\ IsPrefix(was.questions, is.questions)
                  /\ IsPrefix(Keys(was.answers), Keys(is.answers))
                  /\ IsPrefix(Keys(was.authorities), Keys(is.authorities))
                  /\ was.authorities # << >> => Len(was.answers) = U16(d, o + 6)
<1> SUFFICES ASSUME Dns(d, o) # Nothing
             PROVE  /\ DnsComplete(d, o) =>
                         LET was == Dns(d, o)
                             is  == Dns(e, o)
                         IN  /\ is.questions = was.questions /\ is.end = was.end
                             /\ Keys(is.answers) = Keys(was.answers)
                             /\ Keys(is.authorities) = Keys(was.authorities)
                             /\ Keys(is.additionals) = Keys(was.additionals)
                    /\ Dns(e, o) # Nothing =>
                         LET was == Dns(d, o)
                             is  == Dns(e, o)
                         IN  /\ IsPrefix(was.questions, is.questions)
                             /\ IsPrefix(Keys(was.answers), Keys(is.answers))
                             /\ IsPrefix(Keys(was.authorities), Keys(is.authorities))
                             /\ was.authorities # << >> =>
                                  Len(was.answers) = U16(d, o + 6)
  BY Zenon DEF DnsComplete
<1> DEFINE was == Dns(d, o)
           is == Dns(e, o)
           q == DnsQ(d, o)
           p == DnsQ(e, o)
           a == DnsA(d, o)
           b == DnsA(e, o)
           n == DnsN(d, o)
           l == DnsN(e, o)
           x == DnsX(d, o)
           y == DnsX(e, o)
<1>1. DnsOpen(d, o) /\ was = DnsParts(d, o)
  BY DnsIs
<1>2. /\ was.questions = q.questions /\ was.answers = a.records
      /\ was.authorities = n.records /\ was.additionals = x.records /\ was.end = x.end
  BY <1>1 DEF DnsParts
<1>3. /\ DnsHead(e, o)
      /\ IsPrefix(q.questions, p.questions)
      /\ Len(q.questions) = U16(d, o + 4) => p = q
      /\ Section(d, e, o, U16(d, o + 6), a, b)
      /\ Section(d, e, o, U16(d, o + 8), n, l)
      /\ n.records # << >> => Len(a.records) = U16(d, o + 6)
      /\ p.end = q.end /\ Len(a.records) = U16(d, o + 6) => Same(a, b)
      /\ b.end = a.end /\ Len(n.records) = U16(d, o + 8) => Same(n, l)
      /\ l.end = n.end /\ Len(x.records) = U16(d, o + 10) => Same(x, y)
  BY <1>1, DnsGrows
<1>4. DnsOpen(e, o) =>
        /\ is.questions = p.questions /\ is.answers = b.records
        /\ is.authorities = l.records /\ is.additionals = y.records /\ is.end = y.end
  <2>1. DnsOpen(e, o) => is = DnsParts(e, o)
    BY DnsIs
  <2> QED  BY <2>1 DEF DnsParts
<1>5. is # Nothing => DnsOpen(e, o)
  BY DnsIs
<1>6. q.ok /\ q.questions # << >>
  BY <1>1 DEF DnsOpen
<1>7. p = q => DnsOpen(e, o)
  <2> HIDE DEF q
  <2> QED  BY <1>3, <1>6 DEF DnsOpen
<1>8. DnsComplete(d, o) =>
        /\ Len(was.questions) = U16(d, o + 4) /\ Len(was.answers) = U16(d, o + 6)
        /\ Len(was.authorities) = U16(d, o + 8) /\ Len(was.additionals) = U16(d, o + 10)
  BY Zenon DEF DnsComplete
<1> HIDE DEF was, is, q, p, a, b, n, l, x, y
<1>9. ASSUME DnsComplete(d, o)
      PROVE  /\ is.questions = was.questions /\ is.end = was.end
             /\ Keys(is.answers) = Keys(was.answers)
             /\ Keys(is.authorities) = Keys(was.authorities)
             /\ Keys(is.additionals) = Keys(was.additionals)
  <2>1. p = q /\ DnsOpen(e, o)
    BY <1>2, <1>3, <1>7, <1>8, <1>9
  <2>2. Same(a, b)
    BY <1>2, <1>3, <1>8, <1>9, <2>1
  <2>3. Same(n, l)
    BY <1>2, <1>3, <1>8, <1>9, <2>2 DEF Same
  <2>4. Same(x, y)
    BY <1>2, <1>3, <1>8, <1>9, <2>3 DEF Same
  <2> QED  BY <1>2, <1>4, <2>1, <2>2, <2>3, <2>4 DEF Same
<1>10. ASSUME is # Nothing
       PROVE  /\ IsPrefix(was.questions, is.questions)
              /\ IsPrefix(Keys(was.answers), Keys(is.answers))
              /\ IsPrefix(Keys(was.authorities), Keys(is.authorities))
              /\ was.authorities # << >> => Len(was.answers) = U16(d, o + 6)
  BY <1>2, <1>3, <1>4, <1>5, <1>10 DEF Section
<1> QED  BY <1>9, <1>10 DEF was, is

(***************************************************************************)
(* The other parsers.                                                      *)
(***************************************************************************)
LEMMA MinIs ==
  ASSUME NEW S, S \subseteq Nat, S # {}
  PROVE  Min(S) \in S /\ Min(S) \in Nat /\ \A x \in S : Min(S) <= x
<1> DEFINE R == OpToRel(<, Nat)
<1>1. PICK n \in S : \A m \in S : <<m, n>> \notin R
  <2>1. IsWellFoundedOn(R, Nat)
    BY NatLessThanWellFounded
  <2> HIDE DEF R
  <2> QED  BY <2>1, WFMin
<1>2. \A m \in S : n <= m
  <2> TAKE m \in S
  <2>1. ~(m < n)
    BY <1>1 DEF OpToRel
  <2> QED  BY <2>1
<1>3. \E x \in S : \A y \in S : x =< y
  BY <1>2
<1>4. Min(S) \in S /\ \A y \in S : Min(S) =< y
  BY <1>3, Zenon DEF Min
<1> QED  BY <1>4

\* More behind the first does not change which is the first.
LEMMA MinKept ==
  ASSUME NEW S, S \subseteq Nat, S # {}, NEW T, T \subseteq Nat, S \subseteq T,
         \A y \in T : y <= Min(S) => y \in S
  PROVE  Min(T) = Min(S)
<1> DEFINE s == Min(S)
           t == Min(T)
<1>1. s \in S /\ s \in Nat /\ \A x \in S : s <= x
  BY MinIs
<1>2. t \in T /\ t \in Nat /\ \A x \in T : t <= x
  <2>1. T # {}
    OBVIOUS
  <2> QED  BY <2>1, MinIs
<1>3. \A y \in T : y <= s => y \in S
  OBVIOUS
<1> HIDE DEF s, t
<1>4. t = s
  BY <1>1, <1>2, <1>3
<1> QED  BY <1>4 DEF s, t

LEMMA RecordStays ==
  ASSUME NEW d \in Bytes, NEW e \in Bytes, Continues(e, d), TlsRecord(d) # Nothing
  PROVE  TlsRecord(e) = TlsRecord(d)
<1> DEFINE m == Len(d)
           n == Len(e)
           u == U16(d, 3)
           v == U24(d, 6)
           bad(x, k) == At(x, 0) # 22 \/ U16(x, 3) < 4 \/ k < 5 + U16(x, 3)
           whole(x) == [type |-> At(x, 5), body |-> Slice(x, 9, 9 + U24(x, 6))]
<1>1. m \in Nat /\ n \in Nat /\ m <= n
  BY Reads, ReadsOnward
<1>2. \A x : TlsRecord(x) =
        IF Len(x) < 6 THEN Nothing
        ELSE IF bad(x, Len(x)) THEN Nothing
        ELSE IF 9 + U24(x, 6) > Len(x) THEN Nothing ELSE whole(x)
  BY Zenon DEF TlsRecord
<1> HIDE DEF bad, whole
<1>3. ~(m < 6) /\ ~bad(d, m) /\ ~(9 + v > m) /\ TlsRecord(d) = whole(d)
  BY <1>2, Zenon
<1>4. At(d, 0) = 22 /\ ~(u < 4) /\ ~(m < 5 + u)
  BY <1>3, Zenon DEF bad
<1>5. u \in Nat /\ U16(e, 3) = u /\ At(e, 0) = At(d, 0) /\ At(e, 5) = At(d, 5)
  <2>1. 3 \in 0 .. m - 2 /\ 0 \in 0 .. m - 1 /\ 5 \in 0 .. m - 1
    BY <1>1, <1>3
  <2> QED  BY <2>1, Reads, ReadsOnward
<1>6. v \in Nat /\ U24(e, 6) = v
  <2>1. 6 \in 0 .. m - 3
    <3> HIDE DEF u, m
    <3> QED  BY <1>1, <1>4, <1>5
  <2> QED  BY <2>1, Reads, ReadsOnward
<1>7. Slice(e, 9, 9 + v) = Slice(d, 9, 9 + v)
  <2> DEFINE k == 9 + v
  <2>1. 9 \in Nat /\ k \in Nat /\ 9 <= k /\ k <= m
    <3> HIDE DEF v, m
    <3> QED  BY <1>1, <1>3, <1>6
  <2> HIDE DEF k
  <2>2. Slice(e, 9, k) = Slice(d, 9, k)
    BY <2>1, SliceSame
  <2> QED  BY <2>2 DEF k
<1>8. ~(n < 6) /\ ~(n < 5 + u) /\ ~(9 + v > n)
  <2> HIDE DEF m, n, u, v
  <2> QED  BY <1>1, <1>3, <1>4, <1>5, <1>6
<1>9. ~bad(e, n)
  BY <1>4, <1>5, <1>8, Zenon DEF bad
<1>10. TlsRecord(e) = whole(e)
  BY <1>2, <1>6, <1>8, <1>9, Zenon
<1>11. whole(e) = whole(d)
  BY <1>5, <1>6, <1>7, Zenon DEF whole
<1> QED  BY <1>3, <1>10, <1>11

LEMMA CidStays ==
  ASSUME NEW d \in Bytes, NEW e \in Bytes, Continues(e, d), NEW p \in Nat,
         Cid(d, p) # Nothing
  PROVE  Cid(e, p) = Cid(d, p) /\ Cid(d, p) \in Bytes
<1> DEFINE m == Len(d)
           n == Len(e)
           b == At(d, p)
<1>1. m \in Nat /\ n \in Nat /\ m <= n
  BY Reads, ReadsOnward
<1>2. \A x : Cid(x, p) = IF p >= Len(x) THEN Nothing
                         ELSE IF At(x, p) > 20 \/ p + 1 + At(x, p) > Len(x) THEN Nothing
                         ELSE Slice(x, p + 1, p + 1 + At(x, p))
  BY Zenon DEF Cid
<1>3. ~(p >= m) /\ ~(b > 20) /\ ~(p + 1 + b > m) /\ Cid(d, p) = Slice(d, p + 1, p + 1 + b)
  BY <1>2, Zenon
<1>4. b \in Nat /\ At(e, p) = b
  <2>1. p \in 0 .. m - 1
    <3> HIDE DEF m
    <3> QED  BY <1>1, <1>3
  <2> QED  BY <2>1, Reads, ReadsOnward
<1>5. ~(p >= n) /\ ~(p + 1 + b > n)
  <2> HIDE DEF m, n, b
  <2> QED  BY <1>1, <1>3, <1>4
<1>6. Cid(e, p) = Slice(e, p + 1, p + 1 + b)
  BY <1>2, <1>3, <1>4, <1>5, Zenon
<1> DEFINE from == p + 1
           to == p + 1 + b
<1>7. from \in Nat /\ to \in Nat /\ from <= to /\ to <= m
  <2> HIDE DEF m, b
  <2> QED  BY <1>1, <1>3, <1>4
<1> HIDE DEF from, to
<1>8. Slice(e, from, to) = Slice(d, from, to) /\ Slice(d, from, to) \in Bytes
  BY <1>7, SliceSame, SliceIs
<1> QED  BY <1>3, <1>6, <1>8 DEF from, to

LEMMA HeaderStays ==
  ASSUME NEW d \in Bytes, NEW e \in Bytes, Continues(e, d), QuicHeader(d) # Nothing
  PROVE  QuicHeader(e) = QuicHeader(d)
<1> DEFINE m == Len(d)
           n == Len(e)
           c == Cid(d, 5)
           p == 6 + Len(c)
<1>1. m \in Nat /\ n \in Nat /\ m <= n
  BY Reads, ReadsOnward
<1>2. \A x : QuicHeader(x) =
        IF Len(x) < 6 THEN Nothing
        ELSE IF At(x, 0) < 128 \/ Cid(x, 5) = Nothing THEN Nothing
        ELSE IF Cid(x, 6 + Len(Cid(x, 5))) = Nothing THEN Nothing
        ELSE [dcid |-> Cid(x, 5), scid |-> Cid(x, 6 + Len(Cid(x, 5)))]
  BY Zenon DEF QuicHeader
<1>3. /\ ~(m < 6) /\ ~(At(d, 0) < 128) /\ c # Nothing /\ Cid(d, p) # Nothing
      /\ QuicHeader(d) = [dcid |-> c, scid |-> Cid(d, p)]
  BY <1>2, Zenon
<1>4. At(e, 0) = At(d, 0) /\ ~(n < 6)
  <2>1. 0 \in 0 .. m - 1
    BY <1>1, <1>3
  <2>2. ~(n < 6)
    <3> HIDE DEF m, n
    <3> QED  BY <1>1, <1>3
  <2> QED  BY <2>1, <2>2, ReadsOnward
<1>5. Cid(e, 5) = c /\ c \in Bytes
  BY <1>3, CidStays
<1>6. p \in Nat
  <2>1. Len(c) \in Nat
    BY <1>5, Reads
  <2> QED  BY <2>1
<1> HIDE DEF p
<1>7. Cid(e, p) = Cid(d, p)
  BY <1>3, <1>6, CidStays
<1>8. 6 + Len(Cid(e, 5)) = p
  BY <1>5 DEF p
<1> QED  BY <1>2, <1>3, <1>4, <1>5, <1>7, <1>8, Zenon

Blank(line) == line = ""
HeadOf(lines) ==
  LET blank == {i \in DOMAIN lines : Blank(lines[i])}
  IN  IF blank = {} THEN lines ELSE SubSeq(lines, 1, Min(blank) - 1)
Heading(head) ==
  LET hosts == {i \in 2..Len(head) : head[i] \in {"host a", "host b"}}
  IN IF head = << >> THEN Nothing
     ELSE IF head[1] \notin {RequestLine, StatusLine} THEN Nothing
     ELSE [request |-> head[1] = RequestLine,
           host    |-> IF hosts = {} THEN Nothing ELSE head[Max(hosts)],
           chunked |-> \E i \in 2..Len(head) : head[i] = "chunked"]

LEMMA HeadStays ==
  ASSUME NEW Lines, NEW d \in Seq(Lines), NEW x \in Lines, \E i \in DOMAIN d : Blank(d[i])
  PROVE  HttpHead(Append(d, x)) = HttpHead(d)
<1> DEFINE e == Append(d, x)
           m == Len(d)
           S == {i \in DOMAIN d : Blank(d[i])}
           T == {i \in DOMAIN e : Blank(e[i])}
           k == Min(S)
<1>1. /\ m \in Nat /\ DOMAIN d = 1 .. m /\ e \in Seq(Lines) /\ Len(e) = m + 1
      /\ DOMAIN e = 1 .. m + 1 /\ \A i \in 1 .. m : e[i] = d[i] /\ d[i] \in Lines
  <2>1. /\ e \in Seq(Lines) /\ Len(e) = m + 1
        /\ \A i \in 1 .. m : e[i] = d[i]
    BY AppendProperties
  <2>2. m \in Nat /\ DOMAIN d = 1 .. m /\ \A i \in 1 .. m : d[i] \in Lines
    BY LenProperties, ElementOfSeq
  <2>3. DOMAIN e = 1 .. Len(e)
    <3> HIDE DEF e
    <3> QED  BY <2>1, LenProperties
  <2> QED  BY <2>1, <2>2, <2>3
<1>2. S \subseteq Nat /\ T \subseteq Nat /\ S # {} /\ S \subseteq T /\ S \subseteq 1 .. m
  <2> HIDE DEF e, m
  <2>1. S \subseteq 1 .. m /\ S # {}
    BY <1>1
  <2>2. T \subseteq Nat
    BY <1>1
  <2>3. S \subseteq T
    BY <1>1
  <2> QED  BY <2>1, <2>2, <2>3
<1>3. \A y \in T : y <= m => y \in S
  <2> HIDE DEF e, m
  <2> QED  BY <1>1
<1> HIDE DEF S, T
<1>4. k \in S /\ k \in Nat /\ \A y \in S : k <= y
  BY <1>2, MinIs
<1>5. k \in 1 .. m
  BY <1>2, <1>4
<1>6. Min(T) = k
  <2>1. \A y \in T : y <= k => y \in S
    <3> TAKE y \in T
    <3>1. y \in Nat
      BY <1>2
    <3> HIDE DEF k, m
    <3>2. y <= k => y <= m
      BY <1>1, <1>5, <3>1
    <3> QED  BY <1>3, <3>2
  <2> QED  BY <1>2, <2>1, MinKept
<1>7. SubSeq(e, 1, k - 1) = SubSeq(d, 1, k - 1)
  <2> DEFINE j == k - 1
  <2>1. 1 \in Int /\ j \in Int /\ j \in 0 .. m
    <3> HIDE DEF k, m
    <3> QED  BY <1>1, <1>5
  <2> HIDE DEF j, e
  <2>2. \A i \in 1 .. j : i \in 1 .. m
    BY <1>1, <2>1
  <2>3. \A i \in 1 .. j : e[i] \in Lines /\ d[i] \in Lines /\ e[i] = d[i]
    BY <1>1, <2>2
  <2> DEFINE a == SubSeq(e, 1, j)
             b == SubSeq(d, 1, j)
  <2>4. /\ a \in Seq(Lines) /\ b \in Seq(Lines)
        /\ Len(a) = IF 1 <= j THEN j - 1 + 1 ELSE 0
        /\ Len(b) = IF 1 <= j THEN j - 1 + 1 ELSE 0
        /\ \A i \in 1 .. j - 1 + 1 : a[i] = e[1 + i - 1]
        /\ \A i \in 1 .. j - 1 + 1 : b[i] = d[1 + i - 1]
    BY <2>1, <2>3, SubSeqProperties
  <2> HIDE DEF a, b, m
  <2>5. Len(a) = Len(b) /\ Len(a) = j
    BY <2>1, <2>4
  <2>6. j - 1 + 1 = j /\ \A i \in 1 .. j : 1 + i - 1 = i
    BY <2>1
  <2>7. \A i \in 1 .. Len(a) : a[i] = b[i]
    BY <2>3, <2>4, <2>5, <2>6
  <2>8. a = b
    BY <2>4, <2>5, <2>7, SeqEqual
  <2> QED  BY <2>8 DEF a, b, j
<1>8. HeadOf(e) = IF T = {} THEN e ELSE SubSeq(e, 1, Min(T) - 1)
  BY Zenon DEF HeadOf, T
<1>9. HeadOf(d) = IF S = {} THEN d ELSE SubSeq(d, 1, k - 1)
  BY Zenon DEF HeadOf, S
<1>10. T # {}
  BY <1>2
<1>11. HeadOf(e) = HeadOf(d)
  BY <1>2, <1>6, <1>7, <1>8, <1>9, <1>10, Zenon
<1>12. HttpHead(e) = Heading(HeadOf(e)) /\ HttpHead(d) = Heading(HeadOf(d))
  BY Zenon DEF HttpHead, Heading, HeadOf, Blank
<1> QED  BY <1>11, <1>12, Zenon

LEMMA ContinuedStays ==
  ASSUME NEW d \in Bytes, NEW e \in Bytes, Continues(e, d), NEW p \in Nat, NEW value,
         Continued(d, p, value) # Nothing
  PROVE  Continued(e, p, value) = Continued(d, p, value)
<1> DEFINE m == Len(d)
           n == Len(e)
           S == {i \in 1 .. Least(5, m - p) : At(d, p + i - 1) < 128}
           T == {i \in 1 .. Least(5, n - p) : At(e, p + i - 1) < 128}
           k == Min(S)
<1>1. m \in Nat /\ n \in Nat /\ m <= n /\ \A i \in 0 .. m - 1 : At(e, i) = At(d, i)
  BY Reads, ReadsOnward
<1>2. Continued(d, p, value) =
        IF S = {} THEN Nothing ELSE <<value + Added(Slice(d, p, p + k)), p + k>>
  BY Zenon DEF Continued
<1>3. Continued(e, p, value) =
        IF T = {} THEN Nothing ELSE <<value + Added(Slice(e, p, p + Min(T))), p + Min(T)>>
  BY Zenon DEF Continued
<1> DEFINE a == Least(5, m - p)
           b == Least(5, n - p)
<1>4. a \in Int /\ b \in Int /\ a <= b /\ a <= m - p
  <2> HIDE DEF m, n
  <2> QED  BY <1>1 DEF Least
<1>5. \A i \in 1 .. a : p + i - 1 \in 0 .. m - 1 /\ i \in 1 .. b /\ i \in Nat
  <2> HIDE DEF a, b, m, n
  <2> QED  BY <1>1, <1>4
<1>6. \A i \in 1 .. a : At(e, p + i - 1) = At(d, p + i - 1)
  <2> HIDE DEF a
  <2> QED  BY <1>1, <1>5
<1>7. /\ S = {i \in 1 .. a : At(d, p + i - 1) < 128}
      /\ T = {i \in 1 .. b : At(e, p + i - 1) < 128}
  OBVIOUS
<1> HIDE DEF a, b, m, n, S, T
<1>8. S # {} /\ S \subseteq Nat /\ S \subseteq 1 .. a
  BY <1>2, <1>5, <1>7
<1>9. T \subseteq Nat /\ S \subseteq T
  <2>1. T \subseteq Nat
    BY <1>7
  <2>2. ASSUME NEW i \in S PROVE i \in T
    <3>1. i \in 1 .. a /\ At(d, p + i - 1) < 128
      BY <1>7
    <3>2. i \in 1 .. b /\ At(e, p + i - 1) = At(d, p + i - 1)
      BY <1>5, <1>6, <3>1
    <3> QED  BY <1>7, <3>1, <3>2
  <2> QED  BY <2>1, <2>2
<1>10. k \in S /\ k \in 1 .. a
  BY <1>8, MinIs
<1>11. ASSUME NEW y \in T, y <= k PROVE y \in S
  <2>1. y \in 1 .. b /\ At(e, p + y - 1) < 128
    BY <1>7
  <2>2. y \in 1 .. a
    <3> HIDE DEF k
    <3> QED  BY <1>4, <1>10, <1>11, <2>1
  <2>3. At(e, p + y - 1) = At(d, p + y - 1)
    BY <1>6, <2>2
  <2> QED  BY <1>7, <2>1, <2>2, <2>3
<1>12. Min(T) = k /\ T # {}
  <2>1. \A y \in T : y <= k => y \in S
    BY <1>11
  <2> QED  BY <1>8, <1>9, <2>1, MinKept
<1> DEFINE to == p + k
<1>13. to \in Nat /\ p <= to /\ to <= m
  <2> HIDE DEF k
  <2> QED  BY <1>1, <1>4, <1>10
<1> HIDE DEF to
<1>14. Slice(e, p, to) = Slice(d, p, to)
  BY <1>13, SliceSame DEF m
<1> QED  BY <1>2, <1>3, <1>8, <1>12, <1>14, Zenon DEF to

LEMMA IntStays ==
  ASSUME NEW d \in Bytes, NEW e \in Bytes, Continues(e, d), NEW p \in Nat, NEW bits,
         HpackInt(d, p, bits) # Nothing
  PROVE  HpackInt(e, p, bits) = HpackInt(d, p, bits)
<1> DEFINE m == Len(d)
           n == Len(e)
           mask == Power(bits) - 1
           small(b) == b % (mask + 1) < mask
           short(b) == <<b % (mask + 1), p + 1>>
<1>1. m \in Nat /\ n \in Nat /\ m <= n
  BY Reads, ReadsOnward
<1>2. \A x : HpackInt(x, p, bits) =
        IF p >= Len(x) THEN Nothing
        ELSE IF small(At(x, p)) THEN short(At(x, p)) ELSE Continued(x, p + 1, mask)
  BY Zenon DEF HpackInt
<1> HIDE DEF mask, small, short
<1>3. ~(p >= m)
  BY <1>2, Zenon
<1>4. At(e, p) = At(d, p) /\ ~(p >= n)
  <2>1. p \in 0 .. m - 1 /\ ~(p >= n)
    <3> HIDE DEF m, n
    <3> QED  BY <1>1, <1>3
  <2> QED  BY <2>1, ReadsOnward
<1>5. CASE small(At(d, p))
  BY <1>2, <1>3, <1>4, <1>5, Zenon
<1>6. CASE ~small(At(d, p))
  <2> DEFINE next == p + 1
  <2>1. next \in Nat
    OBVIOUS
  <2>2. /\ HpackInt(d, p, bits) = Continued(d, next, mask)
        /\ HpackInt(e, p, bits) = Continued(e, next, mask)
    BY <1>2, <1>3, <1>4, <1>6, Zenon
  <2> HIDE DEF next
  <2>3. Continued(e, next, mask) = Continued(d, next, mask)
    BY <2>1, <2>2, ContinuedStays
  <2> QED  BY <2>2, <2>3
<1> QED  BY <1>5, <1>6

(***************************************************************************)
(* The inputs, as they grow.                                               *)
(***************************************************************************)
Readable == kind \in Formats /\ data \in Seq(Alphabet(kind))

\* A piece that arrives is of the alphabet of its input.
LEMMA PiecesFit ==
  ASSUME Readable, NEW piece \in Pieces(kind, Len(data)), Grow(piece)
  PROVE  /\ piece \in Alphabet(kind) /\ data' = Append(data, piece)
         /\ data \in Seq(Alphabet(kind))
<1>1. kind \in Formats /\ data \in Seq(Alphabet(kind))
  BY DEF Readable
<1>2. data' = Append(data, piece) /\ Len(data) < MaxLen(kind)
  BY DEF Grow
<1> DEFINE n == Len(data)
           k == MaxLen(kind)
<1>3. n \in Nat
  BY <1>1, LenProperties
<1>4. k \in Nat /\ \A at \in 0 .. k : Pieces(kind, at) \subseteq Alphabet(kind)
  BY <1>1, ParsersAssumption
<1>5. n \in 0 .. k
  <2> HIDE DEF n, k
  <2>1. n < k
    BY <1>2 DEF n, k
  <2> QED  BY <1>3, <1>4, <2>1
<1> QED  BY <1>1, <1>2, <1>4, <1>5

LEMMA ReadableAlways == ParsersSpec => []Readable
<1>1. ParsersInit => Readable
  BY ParsersAssumption DEF ParsersInit, Readable
<1>2. Readable /\ [ParsersNext]_parsed => Readable'
  <2> SUFFICES ASSUME Readable, [ParsersNext]_parsed PROVE Readable'
    OBVIOUS
  <2>1. CASE UNCHANGED parsed
    BY <2>1 DEF Readable, parsed
  <2>2. CASE End
    BY <2>2 DEF End, Readable, parsed
  <2>3. ASSUME NEW piece \in Pieces(kind, Len(data)), Grow(piece) PROVE Readable'
    <3>1. kind' = kind
      BY <2>3 DEF Grow
    <3>2. /\ piece \in Alphabet(kind) /\ data' = Append(data, piece)
          /\ data \in Seq(Alphabet(kind))
      BY <2>3, PiecesFit
    <3>3. data' \in Seq(Alphabet(kind))
      BY <3>2
    <3> QED  BY <3>1, <3>3 DEF Readable
  <2> QED  BY <2>1, <2>2, <2>3 DEF ParsersNext
<1> QED  BY <1>1, <1>2, PTL DEF ParsersSpec

\* What the properties say of one kind of input.
LEMMA KindsAre ==
  ASSUME NEW d
  PROVE  /\ kind = "name" => (Complete(d) <=> Name(d, 1, 1).ok) /\ Result(d) = Name(d, 1, 1)
         /\ kind = "dns" =>
              (Complete(d) <=> DnsComplete(d, 0))
                /\ Result(d) = <<Dns(d, 0).questions, Keys(Dns(d, 0).answers),
                                 Keys(Dns(d, 0).authorities), Keys(Dns(d, 0).additionals),
                                 Dns(d, 0).end>>
         /\ kind = "record" =>
              (Complete(d) <=> TlsRecord(d) # Nothing) /\ Result(d) = TlsRecord(d)
         /\ kind = "quic" =>
              (Complete(d) <=> QuicHeader(d) # Nothing) /\ Result(d) = QuicHeader(d)
         /\ kind = "int" =>
              (Complete(d) <=> HpackInt(d, 0, 5) # Nothing) /\ Result(d) = HpackInt(d, 0, 5)
         /\ kind = "http" =>
              (Complete(d) <=> \E i \in DOMAIN d : Blank(d[i])) /\ Result(d) = HttpHead(d)
         /\ kind \notin {"name", "dns", "record", "quic", "int", "http"} => ~Complete(d)
<1> DEFINE ended == \E i \in DOMAIN d : Blank(d[i])
<1>1. Complete(d) = CASE kind = "name" -> Name(d, 1, 1).ok
                      [] kind = "dns"  -> DnsComplete(d, 0)
                      [] kind = "http" -> ended
                      [] kind \in {"record", "quic", "int"} -> Result(d) # Nothing
                      [] OTHER -> FALSE
  BY Zenon DEF Complete, Blank
<1>2. Result(d) = CASE kind = "name"   -> Name(d, 1, 1)
                    [] kind = "dns"    -> <<Dns(d, 0).questions, Keys(Dns(d, 0).answers),
                                            Keys(Dns(d, 0).authorities),
                                            Keys(Dns(d, 0).additionals), Dns(d, 0).end>>
                    [] kind = "record" -> TlsRecord(d)
                    [] kind = "quic"   -> QuicHeader(d)
                    [] kind = "http"   -> HttpHead(d)
                    [] kind = "int"    -> HpackInt(d, 0, 5)
                    [] OTHER           -> Nothing
  BY Zenon DEF Result
<1> HIDE DEF ended
<1>3. CASE kind = "name"
  BY <1>1, <1>2, <1>3
<1>4. CASE kind = "dns"
  BY <1>1, <1>2, <1>4
<1>5. CASE kind = "record"
  BY <1>1, <1>2, <1>5
<1>6. CASE kind = "quic"
  BY <1>1, <1>2, <1>6
<1>7. CASE kind = "int"
  BY <1>1, <1>2, <1>7
<1>8. CASE kind = "http"
  BY <1>1, <1>2, <1>8 DEF ended
<1>9. CASE kind \notin {"name", "dns", "record", "quic", "int", "http"}
  BY <1>1, <1>9
<1> QED  BY <1>3, <1>4, <1>5, <1>6, <1>7, <1>8, <1>9

LEMMA GrowsOn ==
  ASSUME Readable, NEW piece \in Pieces(kind, Len(data)), Grow(piece)
  PROVE  CompleteIsStable /\ SectionsGrow
<1>1. kind' = kind
  BY DEF Grow
<1>2. piece \in Alphabet(kind) /\ data' = Append(data, piece) /\ data \in Seq(Alphabet(kind))
  BY PiecesFit
<1> DEFINE d == data
           e == data'
<1>3. kind \notin {"hpack", "ja", "http"} => d \in Bytes /\ e \in Bytes /\ Continues(e, d)
  <2> SUFFICES ASSUME kind \notin {"hpack", "ja", "http"}
               PROVE  d \in Bytes /\ e \in Bytes /\ Continues(e, d)
    OBVIOUS
  <2>1. Alphabet(kind) = Byte
    BY Zenon DEF Alphabet
  <2>2. piece \in Byte /\ e = Append(d, piece) /\ d \in Bytes
    BY <1>2, <2>1 DEF Bytes
  <2> HIDE DEF d, e
  <2> QED  BY <2>2, AppendContinues
<1>4. CompleteIsStable <=> (Complete(d) => Result(e) = Result(d))
  BY <1>1, Zenon DEF CompleteIsStable
<1> HIDE DEF d, e
<1>5. SectionsGrow
  <2> SUFFICES ASSUME kind = "dns", Dns(d, 0) # Nothing, Dns(e, 0) # Nothing
               PROVE  LET was == Dns(d, 0)
                          is  == Dns(e, 0)
                      IN  /\ IsPrefix(was.questions, is.questions)
                          /\ IsPrefix(Keys(was.answers), Keys(is.answers))
                          /\ IsPrefix(Keys(was.authorities), Keys(is.authorities))
                          /\ was.authorities # << >> => Len(was.answers) = U16(d, 6)
    BY Zenon DEF SectionsGrow, d, e
  <2>1. d \in Bytes /\ e \in Bytes /\ Continues(e, d)
    BY <1>3
  <2>2. 0 \in Nat /\ 0 + 6 = 6
    OBVIOUS
  <2> DEFINE o == 0
  <2>3. o \in Nat /\ Dns(d, o) # Nothing /\ Dns(e, o) # Nothing
    BY <2>2
  <2> HIDE DEF o
  <2>4. LET was == Dns(d, o)
            is  == Dns(e, o)
        IN  /\ IsPrefix(was.questions, is.questions)
            /\ IsPrefix(Keys(was.answers), Keys(is.answers))
            /\ IsPrefix(Keys(was.authorities), Keys(is.authorities))
            /\ was.authorities # << >> => Len(was.answers) = U16(d, o + 6)
    BY <2>1, <2>3, DnsComes
  <2> QED  BY <2>2, <2>4, Zenon DEF o
<1>6. ASSUME Complete(d) PROVE Result(e) = Result(d)
  <2>1. CASE kind = "name"
    <3>1. Name(e, 1, 1) = Name(d, 1, 1)
      <4>1. Name(d, 1, 1).ok
        BY <1>6, <2>1, KindsAre
      <4>2. d \in Bytes /\ e \in Bytes /\ Continues(e, d)
        BY <1>3, <2>1
      <4> QED  BY <4>1, <4>2, NamesKept
    <3> QED  BY <2>1, <3>1, KindsAre
  <2>2. CASE kind = "dns"
    <3>1. d \in Bytes /\ e \in Bytes /\ Continues(e, d)
      BY <1>3, <2>2
    <3>2. DnsComplete(d, 0)
      BY <1>6, <2>2, KindsAre
    <3>3. /\ Dns(e, 0).questions = Dns(d, 0).questions /\ Dns(e, 0).end = Dns(d, 0).end
          /\ Keys(Dns(e, 0).answers) = Keys(Dns(d, 0).answers)
          /\ Keys(Dns(e, 0).authorities) = Keys(Dns(d, 0).authorities)
          /\ Keys(Dns(e, 0).additionals) = Keys(Dns(d, 0).additionals)
      <4> DEFINE o == 0
      <4>1. o \in Nat /\ DnsComplete(d, o)
        BY <3>2
      <4> HIDE DEF o
      <4>2. /\ Dns(e, o).questions = Dns(d, o).questions /\ Dns(e, o).end = Dns(d, o).end
            /\ Keys(Dns(e, o).answers) = Keys(Dns(d, o).answers)
            /\ Keys(Dns(e, o).authorities) = Keys(Dns(d, o).authorities)
            /\ Keys(Dns(e, o).additionals) = Keys(Dns(d, o).additionals)
        BY <3>1, <4>1, DnsComes
      <4> QED  BY <4>2, Zenon DEF o
    <3>4. \A x : Result(x) = <<Dns(x, 0).questions, Keys(Dns(x, 0).answers),
                               Keys(Dns(x, 0).authorities), Keys(Dns(x, 0).additionals),
                               Dns(x, 0).end>>
      BY <2>2, KindsAre
    <3> QED  BY <3>3, <3>4, Zenon
  <2>3. CASE kind = "record"
    <3>1. d \in Bytes /\ e \in Bytes /\ Continues(e, d) /\ TlsRecord(d) # Nothing
      BY <1>3, <1>6, <2>3, KindsAre
    <3>2. TlsRecord(e) = TlsRecord(d)
      BY <3>1, RecordStays
    <3> QED  BY <2>3, <3>2, KindsAre
  <2>4. CASE kind = "quic"
    <3>1. d \in Bytes /\ e \in Bytes /\ Continues(e, d) /\ QuicHeader(d) # Nothing
      BY <1>3, <1>6, <2>4, KindsAre
    <3>2. QuicHeader(e) = QuicHeader(d)
      BY <3>1, HeaderStays
    <3> QED  BY <2>4, <3>2, KindsAre
  <2>5. CASE kind = "int"
    <3>1. d \in Bytes /\ e \in Bytes /\ Continues(e, d) /\ HpackInt(d, 0, 5) # Nothing
      BY <1>3, <1>6, <2>5, KindsAre
    <3>2. HpackInt(e, 0, 5) = HpackInt(d, 0, 5)
      BY <3>1, IntStays
    <3> QED  BY <2>5, <3>2, KindsAre
  <2>6. CASE kind = "http"
    <3>1. piece \in Alphabet(kind) /\ e = Append(d, piece) /\ d \in Seq(Alphabet(kind))
      BY <1>2, <2>6 DEF d, e
    <3>2. \E i \in DOMAIN d : Blank(d[i])
      BY <1>6, <2>6, KindsAre
    <3>3. HttpHead(e) = HttpHead(d)
      BY <3>1, <3>2, HeadStays
    <3> QED  BY <2>6, <3>3, KindsAre
  <2>7. CASE kind \notin {"name", "dns", "record", "quic", "int", "http"}
    BY <1>6, <2>7, KindsAre
  <2> QED  BY <2>1, <2>2, <2>3, <2>4, <2>5, <2>6, <2>7
<1> QED  BY <1>4, <1>5, <1>6

(***************************************************************************)
(* ReadsOn, for inputs of every length and every content: once a message   *)
(* is there as a whole, nothing that follows changes what is read of it,   *)
(* and while a DNS message arrives its sections only grow, one behind the  *)
(* other (decode/dns.rs, tls.rs, quic.rs, http.rs, http2.rs).              *)
(***************************************************************************)
THEOREM MoreTakesNothingBack == ParsersSpec => ReadsOn
<1>1. Readable /\ [ParsersNext]_parsed => [CompleteIsStable /\ SectionsGrow]_parsed
  <2> SUFFICES ASSUME Readable, ParsersNext, parsed' # parsed
               PROVE  CompleteIsStable /\ SectionsGrow
    OBVIOUS
  <2>1. ~End
    BY DEF End
  <2>2. PICK piece \in Pieces(kind, Len(data)) : Grow(piece)
    BY <2>1 DEF ParsersNext
  <2> QED  BY <2>2, GrowsOn
<1> QED  BY <1>1, ReadableAlways, PTL DEF ParsersSpec, ReadsOn

(***************************************************************************)
(* The dynamic table of HPACK: what its newest entries take.               *)
(***************************************************************************)
\* The recursion of SizeOf.
SizesBy(s, k, f) ==
  f = [i \in 0 .. k |-> IF i = 0 THEN 0 ELSE f[i - 1] + s[i].size]

LEMMA SizesByExists ==
  ASSUME NEW s
  PROVE  \A k \in Nat : \E f : SizesBy(s, k, f)
<1> DEFINE T == {k \in Nat : \E f : SizesBy(s, k, f)}
           zero == 0
           after(i, x) == x + s[i].size
<1>1. 0 \in T
  <2> DEFINE f == [i \in 0 .. 0 |-> zero]
  <2>1. f = [i \in 0 .. 0 |-> IF i = 0 THEN zero ELSE after(i, f[i - 1])]
    <3> HIDE DEF zero, after
    <3> QED  OBVIOUS
  <2>2. SizesBy(s, 0, f)
    BY <2>1, Zenon DEF SizesBy
  <2> QED  BY <2>2
<1>2. ASSUME NEW k \in Nat, k \in T PROVE k + 1 \in T
  <2>1. PICK f : SizesBy(s, k, f)
    BY <1>2
  <2> DEFINE g == [i \in 0 .. k + 1 |-> IF i = k + 1 THEN after(k + 1, f[k]) ELSE f[i]]
             h == [i \in 0 .. k + 1 |-> IF i = 0 THEN zero ELSE after(i, g[i - 1])]
  <2>2. f = [i \in 0 .. k |-> IF i = 0 THEN zero ELSE after(i, f[i - 1])]
    BY <2>1, Zenon DEF SizesBy
  <2> HIDE DEF zero, after
  <2>3. \A i \in 0 .. k : f[i] = IF i = 0 THEN zero ELSE after(i, f[i - 1])
    BY <2>2
  <2>4. /\ \A i \in 0 .. k : g[i] = f[i]
        /\ g[k + 1] = after(k + 1, f[k])
    <3>1. k + 1 \in 0 .. k + 1 /\ \A i \in 0 .. k : i \in 0 .. k + 1 /\ i # k + 1
      OBVIOUS
    <3>2. g[k + 1] = after(k + 1, f[k])
      BY <3>1, Zenon
    <3>3. ASSUME NEW i \in 0 .. k PROVE g[i] = f[i]
      BY <3>1, Zenon
    <3> QED  BY <3>2, <3>3
  <2>5. \A i \in 0 .. k + 1 : h[i] = IF i = 0 THEN zero ELSE after(i, g[i - 1])
    BY DEF h
  <2> HIDE DEF g, h
  <2>6. ASSUME NEW i \in 0 .. k + 1 PROVE g[i] = h[i]
    <3>1. CASE i = 0
      <4>1. 0 \in 0 .. k
        OBVIOUS
      <4> QED  BY <2>3, <2>4, <2>5, <3>1, <4>1
    <3>2. CASE i \in 1 .. k
      <4>1. i # 0 /\ i \in 0 .. k /\ i - 1 \in 0 .. k
        BY <3>2
      <4> QED  BY <2>3, <2>4, <2>5, <4>1
    <3>3. CASE i = k + 1
      <4>1. i # 0 /\ i - 1 = k /\ k \in 0 .. k
        BY <3>3
      <4> QED  BY <2>4, <2>5, <3>3, <4>1
    <3> QED  BY <3>1, <3>2, <3>3
  <2>7. g = h
    BY <2>6 DEF g, h
  <2>8. g = [i \in 0 .. k + 1 |-> IF i = 0 THEN zero ELSE after(i, g[i - 1])]
    BY <2>7 DEF h
  <2> USE DEF zero, after
  <2> HIDE DEF g, h
  <2>9. SizesBy(s, k + 1, g)
    BY <2>8, Zenon DEF SizesBy
  <2>10. k + 1 \in Nat
    OBVIOUS
  <2> QED  BY <2>9, <2>10, Zenon
<1> HIDE DEF T
<1>3. Nat \subseteq T
  BY <1>1, <1>2, SetInduction
<1> QED  BY <1>3 DEF T

SizesSteps(s, f) ==
  /\ \A n : SizeOf(s, n) = f[n]
  /\ f[0] = 0
  /\ \A i \in 1 .. Len(s) : f[i] = f[i - 1] + s[i].size

LEMMA SizesByIs ==
  ASSUME NEW s, Len(s) \in Nat
  PROVE  \E f : SizesSteps(s, f)
<1> DEFINE k == Len(s)
           f == CHOOSE f : SizesBy(s, k, f)
<1>1. SizesBy(s, k, f)
  <2>1. k \in Nat
    OBVIOUS
  <2> HIDE DEF k
  <2>2. \E g : SizesBy(s, k, g)
    BY <2>1, SizesByExists
  <2> QED  BY <2>2, Zenon
<1>2. \A n : SizeOf(s, n) = f[n]
  BY Zenon DEF SizeOf, SizesBy
<1> HIDE DEF f, k
<1>3. f[0] = 0 /\ \A i \in 1 .. k : f[i] = f[i - 1] + s[i].size
  <2> DEFINE zero == 0
             after(i, x) == x + s[i].size
  <2>1. f = [i \in 0 .. k |-> IF i = 0 THEN zero ELSE after(i, f[i - 1])]
    BY <1>1, Zenon DEF SizesBy
  <2> HIDE DEF zero, after
  <2>2. k \in Nat
    BY DEF k
  <2>3. f[0] = zero /\ \A i \in 1 .. k : f[i] = after(i, f[i - 1])
    BY <2>1, <2>2
  <2> QED  BY <2>3, Zenon DEF zero, after
<1> QED  BY <1>2, <1>3, Zenon DEF SizesSteps, k

\* The recursion of Table.
TableBy(reps, k, f) ==
  f = [i \in 0 .. k |-> IF i = 0 THEN NewTable ELSE Decoded(f[i - 1], reps[i])]

LEMMA TableByExists ==
  ASSUME NEW reps
  PROVE  \A k \in Nat : \E f : TableBy(reps, k, f)
<1> DEFINE T == {k \in Nat : \E f : TableBy(reps, k, f)}
           zero == NewTable
           after(i, x) == Decoded(x, reps[i])
<1>1. 0 \in T
  <2> DEFINE f == [i \in 0 .. 0 |-> zero]
  <2>1. f = [i \in 0 .. 0 |-> IF i = 0 THEN zero ELSE after(i, f[i - 1])]
    <3> HIDE DEF zero, after
    <3> QED  OBVIOUS
  <2>2. TableBy(reps, 0, f)
    BY <2>1, Zenon DEF TableBy
  <2> QED  BY <2>2
<1>2. ASSUME NEW k \in Nat, k \in T PROVE k + 1 \in T
  <2>1. PICK f : TableBy(reps, k, f)
    BY <1>2
  <2> DEFINE g == [i \in 0 .. k + 1 |-> IF i = k + 1 THEN after(k + 1, f[k]) ELSE f[i]]
             h == [i \in 0 .. k + 1 |-> IF i = 0 THEN zero ELSE after(i, g[i - 1])]
  <2>2. f = [i \in 0 .. k |-> IF i = 0 THEN zero ELSE after(i, f[i - 1])]
    BY <2>1, Zenon DEF TableBy
  <2> HIDE DEF zero, after
  <2>3. \A i \in 0 .. k : f[i] = IF i = 0 THEN zero ELSE after(i, f[i - 1])
    BY <2>2
  <2>4. /\ \A i \in 0 .. k : g[i] = f[i]
        /\ g[k + 1] = after(k + 1, f[k])
    <3>1. k + 1 \in 0 .. k + 1 /\ \A i \in 0 .. k : i \in 0 .. k + 1 /\ i # k + 1
      OBVIOUS
    <3>2. g[k + 1] = after(k + 1, f[k])
      BY <3>1, Zenon
    <3>3. ASSUME NEW i \in 0 .. k PROVE g[i] = f[i]
      BY <3>1, Zenon
    <3> QED  BY <3>2, <3>3
  <2>5. \A i \in 0 .. k + 1 : h[i] = IF i = 0 THEN zero ELSE after(i, g[i - 1])
    BY DEF h
  <2> HIDE DEF g, h
  <2>6. ASSUME NEW i \in 0 .. k + 1 PROVE g[i] = h[i]
    <3>1. CASE i = 0
      <4>1. 0 \in 0 .. k
        OBVIOUS
      <4> QED  BY <2>3, <2>4, <2>5, <3>1, <4>1
    <3>2. CASE i \in 1 .. k
      <4>1. i # 0 /\ i \in 0 .. k /\ i - 1 \in 0 .. k
        BY <3>2
      <4> QED  BY <2>3, <2>4, <2>5, <4>1
    <3>3. CASE i = k + 1
      <4>1. i # 0 /\ i - 1 = k /\ k \in 0 .. k
        BY <3>3
      <4> QED  BY <2>4, <2>5, <3>3, <4>1
    <3> QED  BY <3>1, <3>2, <3>3
  <2>7. g = h
    BY <2>6 DEF g, h
  <2>8. g = [i \in 0 .. k + 1 |-> IF i = 0 THEN zero ELSE after(i, g[i - 1])]
    BY <2>7 DEF h
  <2> USE DEF zero, after
  <2> HIDE DEF g, h
  <2>9. TableBy(reps, k + 1, g)
    BY <2>8, Zenon DEF TableBy
  <2>10. k + 1 \in Nat
    OBVIOUS
  <2> QED  BY <2>9, <2>10, Zenon
<1> HIDE DEF T
<1>3. Nat \subseteq T
  BY <1>1, <1>2, SetInduction
<1> QED  BY <1>3 DEF T

TableSteps(reps, f) ==
  /\ Table(reps) = f[Len(reps)]
  /\ f[0] = NewTable
  /\ \A i \in 1 .. Len(reps) : f[i] = Decoded(f[i - 1], reps[i])

LEMMA TableByIs ==
  ASSUME NEW reps, Len(reps) \in Nat
  PROVE  \E f : TableSteps(reps, f)
<1> DEFINE k == Len(reps)
           f == CHOOSE f : TableBy(reps, k, f)
<1>1. TableBy(reps, k, f)
  <2>1. k \in Nat
    OBVIOUS
  <2> HIDE DEF k
  <2>2. \E g : TableBy(reps, k, g)
    BY <2>1, TableByExists
  <2> QED  BY <2>2, Zenon
<1>2. Table(reps) = f[Len(reps)]
  BY Zenon DEF Table, TableBy
<1> HIDE DEF f, k
<1>3. f[0] = NewTable /\ \A i \in 1 .. k : f[i] = Decoded(f[i - 1], reps[i])
  <2> DEFINE zero == NewTable
             after(i, x) == Decoded(x, reps[i])
  <2>1. f = [i \in 0 .. k |-> IF i = 0 THEN zero ELSE after(i, f[i - 1])]
    BY <1>1, Zenon DEF TableBy
  <2> HIDE DEF zero, after
  <2>2. k \in Nat
    BY DEF k
  <2>3. f[0] = zero /\ \A i \in 1 .. k : f[i] = after(i, f[i - 1])
    BY <2>1, <2>2
  <2> QED  BY <2>3, Zenon DEF zero, after
<1> QED  BY <1>2, <1>3, Zenon DEF TableSteps, k

\* The recursion of PeerTables.
PeerBy(reps, k, f) ==
  f = [i \in 0 .. k |-> IF i = 0 THEN NewTable ELSE PeerDecoded(f[i - 1], reps[i])]

LEMMA PeerByExists ==
  ASSUME NEW reps
  PROVE  \A k \in Nat : \E f : PeerBy(reps, k, f)
<1> DEFINE T == {k \in Nat : \E f : PeerBy(reps, k, f)}
           zero == NewTable
           after(i, x) == PeerDecoded(x, reps[i])
<1>1. 0 \in T
  <2> DEFINE f == [i \in 0 .. 0 |-> zero]
  <2>1. f = [i \in 0 .. 0 |-> IF i = 0 THEN zero ELSE after(i, f[i - 1])]
    <3> HIDE DEF zero, after
    <3> QED  OBVIOUS
  <2>2. PeerBy(reps, 0, f)
    BY <2>1, Zenon DEF PeerBy
  <2> QED  BY <2>2
<1>2. ASSUME NEW k \in Nat, k \in T PROVE k + 1 \in T
  <2>1. PICK f : PeerBy(reps, k, f)
    BY <1>2
  <2> DEFINE g == [i \in 0 .. k + 1 |-> IF i = k + 1 THEN after(k + 1, f[k]) ELSE f[i]]
             h == [i \in 0 .. k + 1 |-> IF i = 0 THEN zero ELSE after(i, g[i - 1])]
  <2>2. f = [i \in 0 .. k |-> IF i = 0 THEN zero ELSE after(i, f[i - 1])]
    BY <2>1, Zenon DEF PeerBy
  <2> HIDE DEF zero, after
  <2>3. \A i \in 0 .. k : f[i] = IF i = 0 THEN zero ELSE after(i, f[i - 1])
    BY <2>2
  <2>4. /\ \A i \in 0 .. k : g[i] = f[i]
        /\ g[k + 1] = after(k + 1, f[k])
    <3>1. k + 1 \in 0 .. k + 1 /\ \A i \in 0 .. k : i \in 0 .. k + 1 /\ i # k + 1
      OBVIOUS
    <3>2. g[k + 1] = after(k + 1, f[k])
      BY <3>1, Zenon
    <3>3. ASSUME NEW i \in 0 .. k PROVE g[i] = f[i]
      BY <3>1, Zenon
    <3> QED  BY <3>2, <3>3
  <2>5. \A i \in 0 .. k + 1 : h[i] = IF i = 0 THEN zero ELSE after(i, g[i - 1])
    BY DEF h
  <2> HIDE DEF g, h
  <2>6. ASSUME NEW i \in 0 .. k + 1 PROVE g[i] = h[i]
    <3>1. CASE i = 0
      <4>1. 0 \in 0 .. k
        OBVIOUS
      <4> QED  BY <2>3, <2>4, <2>5, <3>1, <4>1
    <3>2. CASE i \in 1 .. k
      <4>1. i # 0 /\ i \in 0 .. k /\ i - 1 \in 0 .. k
        BY <3>2
      <4> QED  BY <2>3, <2>4, <2>5, <4>1
    <3>3. CASE i = k + 1
      <4>1. i # 0 /\ i - 1 = k /\ k \in 0 .. k
        BY <3>3
      <4> QED  BY <2>4, <2>5, <3>3, <4>1
    <3> QED  BY <3>1, <3>2, <3>3
  <2>7. g = h
    BY <2>6 DEF g, h
  <2>8. g = [i \in 0 .. k + 1 |-> IF i = 0 THEN zero ELSE after(i, g[i - 1])]
    BY <2>7 DEF h
  <2> USE DEF zero, after
  <2> HIDE DEF g, h
  <2>9. PeerBy(reps, k + 1, g)
    BY <2>8, Zenon DEF PeerBy
  <2>10. k + 1 \in Nat
    OBVIOUS
  <2> QED  BY <2>9, <2>10, Zenon
<1> HIDE DEF T
<1>3. Nat \subseteq T
  BY <1>1, <1>2, SetInduction
<1> QED  BY <1>3 DEF T

PeerSteps(reps, f) ==
  /\ PeerTables(reps) = f
  /\ f[0] = NewTable
  /\ \A i \in 1 .. Len(reps) : f[i] = PeerDecoded(f[i - 1], reps[i])

LEMMA PeerByIs ==
  ASSUME NEW reps, Len(reps) \in Nat
  PROVE  \E f : PeerSteps(reps, f)
<1> DEFINE k == Len(reps)
           f == CHOOSE f : PeerBy(reps, k, f)
<1>1. PeerBy(reps, k, f)
  <2>1. k \in Nat
    OBVIOUS
  <2> HIDE DEF k
  <2>2. \E g : PeerBy(reps, k, g)
    BY <2>1, PeerByExists
  <2> QED  BY <2>2, Zenon
<1>2. PeerTables(reps) = f
  BY Zenon DEF PeerTables, PeerBy
<1> HIDE DEF f, k
<1>3. f[0] = NewTable /\ \A i \in 1 .. k : f[i] = PeerDecoded(f[i - 1], reps[i])
  <2> DEFINE zero == NewTable
             after(i, x) == PeerDecoded(x, reps[i])
  <2>1. f = [i \in 0 .. k |-> IF i = 0 THEN zero ELSE after(i, f[i - 1])]
    BY <1>1, Zenon DEF PeerBy
  <2> HIDE DEF zero, after
  <2>2. k \in Nat
    BY DEF k
  <2>3. f[0] = zero /\ \A i \in 1 .. k : f[i] = after(i, f[i - 1])
    BY <2>1, <2>2
  <2> QED  BY <2>3, Zenon DEF zero, after
<1> QED  BY <1>2, <1>3, Zenon DEF PeerSteps, k

Label == [says : STRING \cup {Nothing}, size : Nat]
TableEntry == [name : Label, value : Label, size : Nat]
Tables == [entries : Seq(TableEntry), max : Nat, frames : Nat, on : BOOLEAN]

LEMMA EntriesAre ==
  ASSUME NEW s \in Seq(TableEntry)
  PROVE  Len(s) \in Nat /\ \A i \in 1 .. Len(s) : s[i] \in TableEntry /\ s[i].size \in Nat
<1>1. Len(s) \in Nat /\ \A i \in 1 .. Len(s) : s[i] \in TableEntry
  OBVIOUS
<1>2. \A e \in TableEntry : e.size \in Nat
  BY DEF TableEntry
<1> HIDE DEF TableEntry
<1> QED  BY <1>1, <1>2

LEMMA SizesAre ==
  ASSUME NEW s \in Seq(TableEntry)
  PROVE  /\ SizeOf(s, 0) = 0
         /\ \A i \in 1 .. Len(s) : SizeOf(s, i) = SizeOf(s, i - 1) + s[i].size
         /\ \A n \in 0 .. Len(s) : SizeOf(s, n) \in Nat
<1>1. Len(s) \in Nat /\ \A i \in 1 .. Len(s) : s[i].size \in Nat
  BY EntriesAre
<1>2. PICK f : SizesSteps(s, f)
  BY <1>1, SizesByIs
<1>3. /\ \A n : SizeOf(s, n) = f[n]
      /\ f[0] = 0
      /\ \A i \in 1 .. Len(s) : f[i] = f[i - 1] + s[i].size
  BY <1>2, Zenon DEF SizesSteps
<1> DEFINE T == {n \in Nat : n \in 0 .. Len(s) => SizeOf(s, n) \in Nat}
           k == Len(s)
<1>4. 0 \in T
  BY <1>3
<1>5. ASSUME NEW n \in Nat, n \in T PROVE n + 1 \in T
  <2> SUFFICES ASSUME n + 1 \in 0 .. k PROVE SizeOf(s, n + 1) \in Nat
    OBVIOUS
  <2>1. n + 1 \in 1 .. k /\ (n + 1) - 1 = n /\ n \in 0 .. k
    BY <1>1
  <2>2. f[n] \in Nat /\ f[n + 1] = f[n] + s[n + 1].size
    BY <1>3, <1>5, <2>1
  <2> HIDE DEF k
  <2> QED  BY <1>1, <1>3, <2>1, <2>2 DEF k
<1> HIDE DEF T
<1>6. Nat \subseteq T
  BY <1>4, <1>5, SetInduction
<1>7. \A n \in 0 .. Len(s) : SizeOf(s, n) \in Nat
  BY <1>1, <1>6 DEF T
<1> QED  BY <1>3, <1>7

\* An entry in front adds its size.
LEMMA SizesBehind ==
  ASSUME NEW s \in Seq(TableEntry), NEW e \in TableEntry
  PROVE  /\ <<e>> \o s \in Seq(TableEntry) /\ Len(<<e>> \o s) = Len(s) + 1
         /\ \A n \in 0 .. Len(s) : SizeOf(<<e>> \o s, n + 1) = e.size + SizeOf(s, n)
<1> DEFINE t == <<e>> \o s
           k == Len(s)
           T == {n \in Nat : n \in 0 .. k => SizeOf(t, n + 1) = e.size + SizeOf(s, n)}
<1>1. t \in Seq(TableEntry) /\ Len(t) = k + 1 /\ k \in Nat
  OBVIOUS
<1>2. t[1] = e /\ \A i \in 1 .. k : t[i + 1] = s[i]
  OBVIOUS
<1> HIDE DEF t
<1>3. /\ SizeOf(t, 0) = 0
      /\ \A i \in 1 .. Len(t) : SizeOf(t, i) = SizeOf(t, i - 1) + t[i].size
  BY <1>1, SizesAre
<1>4. /\ SizeOf(s, 0) = 0
      /\ \A i \in 1 .. k : SizeOf(s, i) = SizeOf(s, i - 1) + s[i].size
      /\ \A n \in 0 .. k : SizeOf(s, n) \in Nat
  BY SizesAre
<1>5. e.size \in Nat /\ \A i \in 1 .. k : s[i].size \in Nat
  <2>1. e.size \in Nat
    BY DEF TableEntry
  <2> QED  BY <2>1, EntriesAre DEF k
<1> HIDE DEF k
<1>6. 0 \in T
  <2>1. 1 \in 1 .. Len(t) /\ 1 - 1 = 0 /\ 0 + 1 = 1
    BY <1>1
  <2>2. SizeOf(t, 1) = SizeOf(t, 0) + t[1].size
    BY <1>3, <2>1
  <2>3. SizeOf(t, 0 + 1) = e.size + SizeOf(s, 0)
    BY <1>2, <1>3, <1>4, <1>5, <2>1, <2>2
  <2> QED  BY <2>3
<1>7. ASSUME NEW n \in Nat, n \in T PROVE n + 1 \in T
  <2> SUFFICES ASSUME n + 1 \in 0 .. k PROVE SizeOf(t, (n + 1) + 1) = e.size + SizeOf(s, n + 1)
    OBVIOUS
  <2>1. /\ n + 1 \in 1 .. k /\ (n + 1) - 1 = n /\ n \in 0 .. k
        /\ (n + 1) + 1 \in 1 .. Len(t) /\ ((n + 1) + 1) - 1 = n + 1
    BY <1>1
  <2>2. SizeOf(t, n + 1) = e.size + SizeOf(s, n)
    BY <1>7, <2>1
  <2>3. SizeOf(t, (n + 1) + 1) = SizeOf(t, n + 1) + t[(n + 1) + 1].size
    BY <1>3, <2>1
  <2>4. t[(n + 1) + 1].size = s[n + 1].size
    BY <1>2, <2>1
  <2>5. SizeOf(s, n + 1) = SizeOf(s, n) + s[n + 1].size
    BY <1>4, <2>1
  <2>6. SizeOf(s, n) \in Nat /\ s[n + 1].size \in Nat
    BY <1>4, <1>5, <2>1
  <2> QED  BY <1>5, <2>2, <2>3, <2>4, <2>5, <2>6
<1> HIDE DEF T
<1>8. Nat \subseteq T
  BY <1>6, <1>7, SetInduction
<1>9. \A n \in 0 .. k : SizeOf(t, n + 1) = e.size + SizeOf(s, n)
  BY <1>8 DEF T
<1> QED  BY <1>1, <1>9 DEF t, k

LEMMA MaxIs ==
  ASSUME NEW m \in Nat, NEW S, S \subseteq 0 .. m, S # {}
  PROVE  Max(S) \in S /\ \A x \in S : Max(S) >= x
<1> DEFINE T == {n \in 0 .. m : m - n \in S}
           n == Min(T)
<1>1. T \subseteq Nat /\ T # {}
  <2>1. PICK x \in S : TRUE
    OBVIOUS
  <2>2. x \in 0 .. m
    OBVIOUS
  <2>3. m - x \in 0 .. m /\ m - (m - x) = x
    BY <2>2
  <2> DEFINE v == m - x
  <2>4. v \in 0 .. m /\ m - v \in S
    BY <2>1, <2>3
  <2> HIDE DEF v
  <2>5. v \in T
    BY <2>4
  <2>6. T \subseteq Nat
    OBVIOUS
  <2> HIDE DEF T
  <2> QED  BY <2>5, <2>6
<1>2. n \in T /\ n \in Nat /\ \A y \in T : n <= y
  BY <1>1, MinIs
<1> HIDE DEF n
<1>3. ASSUME NEW x \in S PROVE m - n >= x
  <2>1. x \in 0 .. m
    OBVIOUS
  <2>2. m - x \in 0 .. m /\ m - (m - x) = x
    BY <2>1
  <2>3. n <= m - x
    BY <1>2, <2>2
  <2> QED  BY <1>2, <2>1, <2>3
<1>4. m - n \in S
  BY <1>2
<1>5. \E x \in S : \A y \in S : x >= y
  BY <1>3, <1>4
<1> QED  BY <1>5, Zenon DEF Max

LEMMA MaxOnly ==
  ASSUME NEW m \in Nat, NEW S, S \subseteq 0 .. m, NEW x \in S, \A y \in S : x >= y
  PROVE  Max(S) = x
<1>1. Max(S) \in S /\ \A y \in S : Max(S) >= y
  BY MaxIs
<1> DEFINE a == Max(S)
<1>2. a \in 0 .. m /\ x \in 0 .. m /\ a >= x /\ x >= a
  BY <1>1
<1> HIDE DEF a
<1>3. a = x
  BY <1>2
<1> QED  BY <1>3 DEF a

\* Eviction keeps a table, with a prefix of its entries.
LEMMA EvictedIs ==
  ASSUME NEW t \in Tables
  PROVE  /\ Evicted(t)
              = [t EXCEPT !.entries = SubSeq(t.entries, 1, Max(Fitting(t.entries, t.max)))]
         /\ Evicted(t) \in Tables
<1> DEFINE s == t.entries
           m == t.max
           n == Max(Fitting(s, m))
           k == Len(s)
<1>1. s \in Seq(TableEntry) /\ m \in Nat
  BY DEF Tables
<1>2. k \in Nat
  BY <1>1
<1>3. n \in 0 .. k
  <2>1. Fitting(s, m) \subseteq 0 .. k
    BY Zenon DEF Fitting
  <2>2. 0 \in Fitting(s, m)
    <3>1. SizeOf(s, 0) = 0
      BY <1>1, SizesAre
    <3>2. 0 \in 0 .. k /\ 0 <= m
      BY <1>1, <1>2
    <3> QED  BY <3>1, <3>2 DEF Fitting
  <2> HIDE DEF s, m, k
  <2> QED  BY <1>2, <2>1, <2>2, MaxIs
<1>4. Evicted(t) = [t EXCEPT !.entries = SubSeq(s, 1, n)]
  BY Zenon DEF Evicted
<1>5. SubSeq(s, 1, n) \in Seq(TableEntry)
  <2> HIDE DEF n, s
  <2> QED  BY <1>1, <1>2, <1>3
<1> DEFINE fit == SubSeq(s, 1, n)
<1> HIDE DEF fit
<1>6. [t EXCEPT !.entries = fit] \in Tables
  BY <1>5 DEF Tables, fit
<1> QED  BY <1>4, <1>6 DEF fit

\* What fits of a table with a new entry in front is that entry, and what fits of
\* the rest into the room it leaves.
LEMMA FitsBehind ==
  ASSUME NEW s \in Seq(TableEntry), NEW e \in TableEntry, NEW m \in Nat, NEW room,
         room = {n \in 0 .. Len(s) : SizeOf(s, n) + e.size <= m}
  PROVE  /\ room = {} => SubSeq(<<e>> \o s, 1, Max(Fitting(<<e>> \o s, m))) = << >>
         /\ room # {} => SubSeq(<<e>> \o s, 1, Max(Fitting(<<e>> \o s, m)))
                           = <<e>> \o SubSeq(s, 1, Max(room))
<1> DEFINE t == <<e>> \o s
           k == Len(s)
           fit == Fitting(t, m)
<1>1. t \in Seq(TableEntry) /\ Len(t) = k + 1 /\ k \in Nat
  OBVIOUS
<1>2. \A n \in 0 .. k : SizeOf(t, n + 1) = e.size + SizeOf(s, n)
  BY SizesBehind
<1>3. \A n \in 0 .. k : SizeOf(s, n) \in Nat
  BY SizesAre
<1>4. e.size \in Nat
  BY DEF TableEntry
<1>5. SizeOf(t, 0) = 0
  BY <1>1, SizesAre
<1>6. \A n \in 0 .. k : n \in room <=> SizeOf(s, n) + e.size <= m
  OBVIOUS
<1>7. room \subseteq 0 .. k
  OBVIOUS
<1>8. /\ fit \subseteq 0 .. k + 1
      /\ \A n \in 0 .. k + 1 : n \in fit <=> SizeOf(t, n) <= m
  <2> HIDE DEF t, k
  <2>1. fit = {n \in 0 .. k + 1 : SizeOf(t, n) <= m}
    BY <1>1, Zenon DEF Fitting
  <2> HIDE DEF fit
  <2> QED  BY <2>1
<1> HIDE DEF t, k, fit
<1>9. \A n \in 0 .. k : n + 1 \in fit <=> n \in room
  <2> TAKE n \in 0 .. k
  <2>1. n + 1 \in 0 .. k + 1
    BY <1>1
  <2>2. SizeOf(t, n + 1) = SizeOf(s, n) + e.size
    BY <1>2, <1>3, <1>4
  <2> QED  BY <1>6, <1>8, <2>1, <2>2
<1>10. 0 \in fit
  BY <1>1, <1>5, <1>8
<1>11. k + 1 \in Nat
  BY <1>1
<1>12. CASE room = {}
  <2>1. \A y \in fit : 0 >= y
    <3> TAKE y \in fit
    <3>1. y \in 0 .. k + 1
      BY <1>8
    <3>2. y # 0 => y - 1 \in 0 .. k /\ (y - 1) + 1 = y
      BY <1>1, <3>1
    <3>3. y = 0
      BY <1>9, <1>12, <3>2
    <3> QED  BY <3>3
  <2>2. Max(fit) = 0
    BY <1>8, <1>10, <1>11, <2>1, MaxOnly
  <2>3. SubSeq(t, 1, 0) = << >>
    BY <1>1
  <2> QED  BY <1>12, <2>2, <2>3 DEF fit, t
<1>13. CASE room # {}
  <2> DEFINE a == Max(room)
  <2>1. a \in room /\ \A x \in room : a >= x
    BY <1>1, <1>7, <1>13, MaxIs
  <2>2. a \in 0 .. k
    BY <1>7, <2>1
  <2> HIDE DEF a
  <2>3. a + 1 \in fit
    BY <1>9, <2>1, <2>2
  <2>4. \A y \in fit : a + 1 >= y
    <3> TAKE y \in fit
    <3>1. y \in 0 .. k + 1
      BY <1>8
    <3>2. y # 0 => y - 1 \in 0 .. k /\ (y - 1) + 1 = y
      BY <1>1, <3>1
    <3>3. y # 0 => a >= y - 1
      BY <1>9, <2>1, <3>2
    <3> QED  BY <1>1, <2>2, <3>1, <3>3
  <2>5. Max(fit) = a + 1
    <3> DEFINE b == a + 1
    <3>1. b \in fit /\ \A y \in fit : b >= y
      BY <2>3, <2>4
    <3> HIDE DEF b
    <3>2. Max(fit) = b
      BY <1>8, <1>11, <3>1, MaxOnly
    <3> QED  BY <3>2 DEF b
  <2>6. SubSeq(t, 1, a + 1) = <<e>> \o SubSeq(s, 1, a)
    BY <1>1, <2>2 DEF t, k
  <2> QED  BY <1>13, <2>5, <2>6 DEF a, fit, t
<1> QED  BY <1>12, <1>13

\* What the steps of both tables have in common.
Usual(t, r) ==
  /\ Literal(r) \/ r.op = "indexed" => Known(t, r)
  /\ r.op = "frame" /\ r.type # "data" => Read(t, r)
  /\ Literal(r) => /\ ~r.name.huffman /\ r.name.parts = 0
                   /\ ~r.value.huffman /\ r.value.parts = 0

\* Plain text is stored as it was sent.
LEMMA StoredAsSent ==
  ASSUME NEW s \in HeaderText, ~s.huffman, s.parts = 0
  PROVE  Stored(s) = Sent(s) /\ Sent(s) \in Label
<1>1. /\ s.says \in STRING /\ s.valid \in Nat /\ s.bad \in Nat /\ s.bad <= 3 * s.parts
  BY DEF HeaderText
<1>2. s.bad = 0 /\ s.valid + 3 * s.parts = s.valid + s.bad
  BY <1>1
<1>3. Stored(s) = Sent(s)
  BY <1>2, Zenon DEF Stored, Sent
<1>4. Sent(s) \in Label
  BY <1>1, <1>2 DEF Sent, Label
<1> QED  BY <1>3, <1>4

LEMMA RepresentationsAre ==
  ASSUME NEW r \in Representation
  PROVE  /\ r.op \in {"add", "literal", "indexed", "resize", "frame"}
         /\ r.op = "add" => r.index \in Nat /\ r.name \in HeaderText /\ r.value \in HeaderText
         /\ r.op = "resize" => r.size \in Nat
<1> HIDE DEF HeaderText
<1> QED  BY DEF Representation

\* One representation changes both tables alike.
LEMMA DecodesAlike ==
  ASSUME NEW t \in Tables, NEW r \in Representation, Usual(t, r)
  PROVE  Decoded(t, r) = PeerDecoded(t, r) /\ Decoded(t, r) \in Tables
<1> DEFINE s == t.entries
           m == t.max
<1>1. s \in Seq(TableEntry) /\ m \in Nat
  BY DEF Tables
<1>2. /\ r.op \in {"add", "literal", "indexed", "resize", "frame"}
      /\ r.op = "add" => r.index \in Nat /\ r.name \in HeaderText /\ r.value \in HeaderText
      /\ r.op = "resize" => r.size \in Nat
  BY RepresentationsAre
<1>3. CASE r.op = "frame"
  <2> DEFINE on == r.type # "data"
             u == [t EXCEPT !.frames = @ + 1, !.on = on]
  <2>1. Read(t, r) = on
    <3>1. ~on => ~Read(t, r)
      BY DEF Read
    <3>2. on => Read(t, r)
      BY <1>3 DEF Usual
    <3>3. Read(t, r) \in BOOLEAN
      BY DEF Read
    <3> QED  BY <3>1, <3>2, <3>3
  <2>2. Decoded(t, r) = u
    BY <1>3, <2>1, Zenon DEF Decoded
  <2>3. PeerDecoded(t, r) = u
    BY <1>3, Zenon DEF PeerDecoded
  <2>4. on \in BOOLEAN
    OBVIOUS
  <2> HIDE DEF on
  <2>5. u \in Tables
    <3> DEFINE v == [t EXCEPT !.frames = @ + 1]
    <3>1. v \in Tables
      BY DEF Tables
    <3>2. u = [v EXCEPT !.on = on]
      BY DEF Tables
    <3> HIDE DEF v
    <3> QED  BY <2>4, <3>1, <3>2 DEF Tables
  <2> QED  BY <2>2, <2>3, <2>5
<1>4. CASE r.op # "frame" /\ ~t.on
  <2>1. Decoded(t, r) = t /\ PeerDecoded(t, r) = t
    BY <1>4, Zenon DEF Decoded, PeerDecoded
  <2> QED  BY <2>1
<1>5. CASE r.op = "resize" /\ t.on
  <2>1. r.size \in Nat /\ r.op # "frame"
    BY <1>2, <1>5
  <2> DEFINE u == [t EXCEPT !.max = r.size]
  <2>2. u \in Tables
    BY <2>1 DEF Tables
  <2>3. Decoded(t, r) = Evicted(u) /\ PeerDecoded(t, r) = Evicted(u)
    BY <1>5, <2>1, Zenon DEF Decoded, PeerDecoded
  <2> HIDE DEF u
  <2> QED  BY <2>2, <2>3, EvictedIs
<1>6. CASE r.op \in {"literal", "indexed"} /\ t.on
  <2>1. r.op # "frame" /\ r.op # "resize" /\ r.op # "add" /\ Known(t, r)
    BY <1>6 DEF Usual, Literal
  <2>2. Decoded(t, r) = t /\ PeerDecoded(t, r) = t
    BY <1>6, <2>1, Zenon DEF Decoded, PeerDecoded
  <2> QED  BY <2>2
<1>7. CASE r.op = "add" /\ t.on
  <2> DEFINE e == Entry(t, r, Sent(r.name), Sent(r.value))
             room == {n \in 0 .. Len(s) : SizeOf(s, n) + e.size <= m}
             big == <<e>> \o s
             u == [t EXCEPT !.entries = big]
  <2>1. /\ r.op # "frame" /\ r.op # "resize" /\ r.op # "indexed" /\ Known(t, r)
        /\ r.name \in HeaderText /\ ~r.name.huffman /\ r.name.parts = 0
        /\ r.value \in HeaderText /\ ~r.value.huffman /\ r.value.parts = 0
    BY <1>2, <1>7 DEF Usual, Literal
  <2>2. /\ Stored(r.name) = Sent(r.name) /\ Sent(r.name) \in Label
        /\ Stored(r.value) = Sent(r.value) /\ Sent(r.value) \in Label
    BY <2>1, StoredAsSent
  <2>3. Decoded(t, r) = Evicted([t EXCEPT !.entries = <<e>> \o @])
    <3>1. Decoded(t, r)
            = Evicted([t EXCEPT !.entries =
                        <<Entry(t, r, Stored(r.name), Stored(r.value))>> \o @])
      BY <1>7, <2>1, Zenon DEF Decoded
    <3> QED  BY <2>2, <3>1, Zenon
  <2>4. Decoded(t, r) = Evicted(u)
    BY <2>3, Zenon
  <2>5. PeerDecoded(t, r) = PeerInserted(t, e)
    BY <1>7, <2>1, Zenon DEF PeerDecoded
  <2>6. e \in TableEntry /\ e.size \in Nat
    <3> DEFINE named == IF r.index = 0 THEN Sent(r.name) ELSE t.entries[r.index].name
               valued == Sent(r.value)
    <3>1. r.index \in 0 .. Len(s)
      BY <2>1, Zenon DEF Known
    <3>2. r.index = 0 \/ r.index \in 1 .. Len(s)
      BY <1>1, <3>1
    <3>3. r.index \in 1 .. Len(s) => t.entries[r.index].name \in Label
      <4>1. \A x \in TableEntry : x.name \in Label
        BY DEF TableEntry
      <4> QED  BY <1>1, <4>1, EntriesAre
    <3>4. named \in Label /\ valued \in Label
      BY <2>2, <3>2, <3>3, Zenon
    <3>5. e = [name |-> named, value |-> valued, size |-> named.size + valued.size + 32]
      BY Zenon DEF Entry
    <3> HIDE DEF named, valued, e
    <3>6. named.size \in Nat /\ valued.size \in Nat
      BY <3>4 DEF Label
    <3> QED  BY <3>4, <3>5, <3>6 DEF TableEntry
  <2> HIDE DEF e
  <2>7. big \in Seq(TableEntry)
    <3> HIDE DEF s
    <3> QED  BY <1>1, <2>6
  <2>8. u \in Tables /\ u.entries = big /\ u.max = m
    <3> HIDE DEF big
    <3> QED  BY <2>7 DEF Tables
  <2> DEFINE cut == SubSeq(big, 1, Max(Fitting(big, m)))
  <2>9. Evicted(u) = [t EXCEPT !.entries = cut] /\ Evicted(u) \in Tables
    <3>1. Evicted(u) = [u EXCEPT !.entries = cut] /\ Evicted(u) \in Tables
      <4> HIDE DEF u, big
      <4> QED  BY <2>8, EvictedIs
    <3> HIDE DEF cut, big
    <3>2. [u EXCEPT !.entries = cut] = [t EXCEPT !.entries = cut]
      BY DEF Tables
    <3> QED  BY <3>1, <3>2
  <2>10. /\ room = {} => cut = << >>
         /\ room # {} => cut = <<e>> \o SubSeq(s, 1, Max(room))
    <3> HIDE DEF s, m
    <3>1. room = {n \in 0 .. Len(s) : SizeOf(s, n) + e.size <= m}
      OBVIOUS
    <3> HIDE DEF room
    <3> QED  BY <1>1, <2>6, <3>1, FitsBehind
  <2>11. PeerInserted(t, e)
           = [t EXCEPT !.entries = IF room = {} THEN << >> ELSE <<e>> \o SubSeq(s, 1, Max(room))]
    BY Zenon DEF PeerInserted
  <2> HIDE DEF room, cut, u, s, m
  <2>12. PeerInserted(t, e) = [t EXCEPT !.entries = cut]
    BY <2>10, <2>11, Zenon
  <2> QED  BY <2>4, <2>5, <2>9, <2>12
<1> QED  BY <1>2, <1>3, <1>4, <1>5, <1>6, <1>7

LEMMA TablesAlike ==
  ASSUME NEW reps \in Seq(Representation),
         \A i \in 1 .. Len(reps) : Usual(PeerTables(reps)[i - 1], reps[i])
  PROVE  Table(reps) = PeerTable(reps)
<1> DEFINE k == Len(reps)
<1>1. k \in Nat /\ \A i \in 1 .. k : reps[i] \in Representation
  OBVIOUS
<1>2. \A i \in 1 .. k : Usual(PeerTables(reps)[i - 1], reps[i])
  OBVIOUS
<1>3. PICK f : TableSteps(reps, f)
  BY <1>1, TableByIs
<1>4. PICK g : PeerSteps(reps, g)
  BY <1>1, PeerByIs
<1>5. /\ Table(reps) = f[k] /\ f[0] = NewTable
      /\ \A i \in 1 .. k : f[i] = Decoded(f[i - 1], reps[i])
  BY <1>3, Zenon DEF TableSteps
<1>6. /\ PeerTable(reps) = g[k] /\ PeerTables(reps) = g /\ g[0] = NewTable
      /\ \A i \in 1 .. k : g[i] = PeerDecoded(g[i - 1], reps[i])
  BY <1>4, Zenon DEF PeerSteps, PeerTable
<1> HIDE DEF k
<1> DEFINE T == {n \in Nat : n \in 0 .. k => f[n] = g[n] /\ f[n] \in Tables}
<1>7. 0 \in T
  <2>1. NewTable \in Tables
    BY DEF NewTable, Tables
  <2> QED  BY <1>5, <1>6, <2>1
<1>8. ASSUME NEW n \in Nat, n \in T PROVE n + 1 \in T
  <2> SUFFICES ASSUME n + 1 \in 0 .. k
               PROVE  f[n + 1] = g[n + 1] /\ f[n + 1] \in Tables
    OBVIOUS
  <2> DEFINE i == n + 1
  <2>1. i \in 1 .. k /\ i - 1 = n /\ n \in 0 .. k
    BY <1>1
  <2>2. f[n] = g[n] /\ f[n] \in Tables
    BY <1>8, <2>1
  <2> HIDE DEF i
  <2>3. reps[i] \in Representation /\ Usual(g[n], reps[i])
    BY <1>1, <1>2, <1>6, <2>1
  <2>4. f[i] = Decoded(f[n], reps[i]) /\ g[i] = PeerDecoded(f[n], reps[i])
    BY <1>5, <1>6, <2>1, <2>2
  <2>5. f[i] = g[i] /\ f[i] \in Tables
    BY <2>2, <2>3, <2>4, DecodesAlike
  <2> QED  BY <2>5 DEF i
<1> HIDE DEF T
<1>9. Nat \subseteq T
  BY <1>7, <1>8, SetInduction
<1>10. k \in 0 .. k
  BY <1>1
<1> QED  BY <1>1, <1>5, <1>6, <1>9, <1>10 DEF T

(***************************************************************************)
(* The dynamic table of HPACK is the one of the peer that sends the        *)
(* headers, over header blocks of any length and table sizes of any kind:  *)
(* evicting before an entry is inserted and after it comes to the same.    *)
(* The peer refers to entries it has, its header blocks come in frames     *)
(* that are decoded (HEADERS without padding or priority, among the first  *)
(* 128 frames), and its literals are UTF-8 and not Huffman coded (Hpack    *)
(* and try_decode_http2, decode/http2.rs).                                 *)
(***************************************************************************)
THEOREM TheTableIsThePeers == ParsersSpec => []TablesAgree
<1>1. Readable => TablesAgree
  <2> SUFFICES ASSUME Readable, kind = "hpack", KeepsToIndexes(data), AllRead(data),
                      NoHuffman(data), AllUtf8(data)
               PROVE  Table(data) = PeerTable(data)
    BY Zenon DEF TablesAgree
  <2>1. data \in Seq(Representation)
    <3>1. Alphabet(kind) = Representation
      BY Zenon DEF Alphabet
    <3> QED  BY <3>1 DEF Readable
  <2>2. DOMAIN data = 1 .. Len(data)
    BY <2>1
  <2>3. ASSUME NEW i \in 1 .. Len(data) PROVE Usual(PeerTables(data)[i - 1], data[i])
    <3>1. i \in DOMAIN data
      BY <2>2
    <3>2. Literal(data[i]) \/ data[i].op = "indexed" => Known(PeerTables(data)[i - 1], data[i])
      BY <3>1, Zenon DEF KeepsToIndexes
    <3>3. data[i].op = "frame" /\ data[i].type # "data" => Read(PeerTables(data)[i - 1], data[i])
      BY <3>1, Zenon DEF AllRead
    <3>4. Literal(data[i]) => ~data[i].name.huffman /\ ~data[i].value.huffman
      BY <3>1, Zenon DEF NoHuffman
    <3>5. Literal(data[i]) => data[i].name.parts = 0 /\ data[i].value.parts = 0
      BY <3>1, Zenon DEF AllUtf8
    <3> QED  BY <3>2, <3>3, <3>4, <3>5, Zenon DEF Usual
  <2> QED  BY <2>1, <2>3, TablesAlike
<1> QED  BY <1>1, ReadableAlways, PTL

(***************************************************************************)
(* The lists that the fingerprints are made of.                            *)
(***************************************************************************)
\* The recursion of Without.
WithoutBy(s, dropped, k, f) ==
  f = [i \in 0 .. k |->
         IF i = 0 THEN << >>
         ELSE IF s[i] \in dropped THEN f[i - 1] ELSE Append(f[i - 1], s[i])]

LEMMA WithoutByExists ==
  ASSUME NEW s, NEW dropped
  PROVE  \A k \in Nat : \E f : WithoutBy(s, dropped, k, f)
<1> DEFINE T == {k \in Nat : \E f : WithoutBy(s, dropped, k, f)}
           zero == << >>
           after(i, x) == IF s[i] \in dropped THEN x ELSE Append(x, s[i])
<1>1. 0 \in T
  <2> DEFINE f == [i \in 0 .. 0 |-> zero]
  <2>1. f = [i \in 0 .. 0 |-> IF i = 0 THEN zero ELSE after(i, f[i - 1])]
    <3> HIDE DEF zero, after
    <3> QED  OBVIOUS
  <2>2. WithoutBy(s, dropped, 0, f)
    BY <2>1, Zenon DEF WithoutBy
  <2> QED  BY <2>2
<1>2. ASSUME NEW k \in Nat, k \in T PROVE k + 1 \in T
  <2>1. PICK f : WithoutBy(s, dropped, k, f)
    BY <1>2
  <2> DEFINE g == [i \in 0 .. k + 1 |-> IF i = k + 1 THEN after(k + 1, f[k]) ELSE f[i]]
             h == [i \in 0 .. k + 1 |-> IF i = 0 THEN zero ELSE after(i, g[i - 1])]
  <2>2. f = [i \in 0 .. k |-> IF i = 0 THEN zero ELSE after(i, f[i - 1])]
    BY <2>1, Zenon DEF WithoutBy
  <2> HIDE DEF zero, after
  <2>3. \A i \in 0 .. k : f[i] = IF i = 0 THEN zero ELSE after(i, f[i - 1])
    BY <2>2
  <2>4. /\ \A i \in 0 .. k : g[i] = f[i]
        /\ g[k + 1] = after(k + 1, f[k])
    <3>1. k + 1 \in 0 .. k + 1 /\ \A i \in 0 .. k : i \in 0 .. k + 1 /\ i # k + 1
      OBVIOUS
    <3>2. g[k + 1] = after(k + 1, f[k])
      BY <3>1, Zenon
    <3>3. ASSUME NEW i \in 0 .. k PROVE g[i] = f[i]
      BY <3>1, Zenon
    <3> QED  BY <3>2, <3>3
  <2>5. \A i \in 0 .. k + 1 : h[i] = IF i = 0 THEN zero ELSE after(i, g[i - 1])
    BY DEF h
  <2> HIDE DEF g, h
  <2>6. ASSUME NEW i \in 0 .. k + 1 PROVE g[i] = h[i]
    <3>1. CASE i = 0
      <4>1. 0 \in 0 .. k
        OBVIOUS
      <4> QED  BY <2>3, <2>4, <2>5, <3>1, <4>1
    <3>2. CASE i \in 1 .. k
      <4>1. i # 0 /\ i \in 0 .. k /\ i - 1 \in 0 .. k
        BY <3>2
      <4> QED  BY <2>3, <2>4, <2>5, <4>1
    <3>3. CASE i = k + 1
      <4>1. i # 0 /\ i - 1 = k /\ k \in 0 .. k
        BY <3>3
      <4> QED  BY <2>4, <2>5, <3>3, <4>1
    <3> QED  BY <3>1, <3>2, <3>3
  <2>7. g = h
    BY <2>6 DEF g, h
  <2>8. g = [i \in 0 .. k + 1 |-> IF i = 0 THEN zero ELSE after(i, g[i - 1])]
    BY <2>7 DEF h
  <2> USE DEF zero, after
  <2> HIDE DEF g, h
  <2>9. WithoutBy(s, dropped, k + 1, g)
    BY <2>8, Zenon DEF WithoutBy
  <2>10. k + 1 \in Nat
    OBVIOUS
  <2> QED  BY <2>9, <2>10, Zenon
<1> HIDE DEF T
<1>3. Nat \subseteq T
  BY <1>1, <1>2, SetInduction
<1> QED  BY <1>3 DEF T

WithoutSteps(s, dropped, f) ==
  /\ Without(s, dropped) = f[Len(s)]
  /\ f[0] = << >>
  /\ \A i \in 1 .. Len(s) : f[i] = IF s[i] \in dropped THEN f[i - 1] ELSE Append(f[i - 1], s[i])

LEMMA WithoutByIs ==
  ASSUME NEW s, NEW dropped, Len(s) \in Nat
  PROVE  \E f : WithoutSteps(s, dropped, f)
<1> DEFINE k == Len(s)
           f == CHOOSE f : WithoutBy(s, dropped, k, f)
<1>1. WithoutBy(s, dropped, k, f)
  <2>1. k \in Nat
    OBVIOUS
  <2> HIDE DEF k
  <2>2. \E g : WithoutBy(s, dropped, k, g)
    BY <2>1, WithoutByExists
  <2> QED  BY <2>2, Zenon
<1>2. Without(s, dropped) = f[Len(s)]
  BY Zenon DEF Without, WithoutBy
<1> HIDE DEF f, k
<1>3. /\ f[0] = << >>
      /\ \A i \in 1 .. k : f[i] = IF s[i] \in dropped THEN f[i - 1] ELSE Append(f[i - 1], s[i])
  <2> DEFINE zero == << >>
             after(i, x) == IF s[i] \in dropped THEN x ELSE Append(x, s[i])
  <2>1. f = [i \in 0 .. k |-> IF i = 0 THEN zero ELSE after(i, f[i - 1])]
    BY <1>1, Zenon DEF WithoutBy
  <2> HIDE DEF zero, after
  <2>2. k \in Nat
    BY DEF k
  <2>3. f[0] = zero /\ \A i \in 1 .. k : f[i] = after(i, f[i - 1])
    BY <2>1, <2>2
  <2> QED  BY <2>3, Zenon DEF zero, after
<1> QED  BY <1>2, <1>3, Zenon DEF WithoutSteps, k

Words == Seq(Word)

\* What is dropped of two lists is dropped of the one that they make up.
LEMMA WithoutJoined ==
  ASSUME NEW s \in Words, NEW t \in Words, NEW dropped
  PROVE  /\ Without(s, dropped) \in Words
         /\ Without(s \o t, dropped) = Without(s, dropped) \o Without(t, dropped)
<1> DEFINE st == s \o t
           k == Len(s)
           l == Len(t)
<1>1. /\ k \in Nat /\ l \in Nat /\ st \in Words /\ Len(st) = k + l /\ Len(st) \in Nat
      /\ \A i \in 1 .. k : st[i] = s[i] /\ s[i] \in Word
      /\ \A i \in 1 .. l : st[k + i] = t[i] /\ t[i] \in Word
  BY DEF Words
<1> HIDE DEF st
<1>2. PICK f : WithoutSteps(s, dropped, f)
  BY <1>1, WithoutByIs
<1>3. PICK g : WithoutSteps(t, dropped, g)
  BY <1>1, WithoutByIs
<1>4. PICK h : WithoutSteps(st, dropped, h)
  BY <1>1, WithoutByIs
<1>5. /\ Without(s, dropped) = f[k] /\ f[0] = << >>
      /\ \A i \in 1 .. k : f[i] = IF s[i] \in dropped THEN f[i - 1] ELSE Append(f[i - 1], s[i])
  BY <1>2, Zenon DEF WithoutSteps
<1>6. /\ Without(t, dropped) = g[l] /\ g[0] = << >>
      /\ \A i \in 1 .. l : g[i] = IF t[i] \in dropped THEN g[i - 1] ELSE Append(g[i - 1], t[i])
  BY <1>3, Zenon DEF WithoutSteps
<1>7. /\ Without(st, dropped) = h[k + l] /\ h[0] = << >>
      /\ \A i \in 1 .. k + l :
           h[i] = IF st[i] \in dropped THEN h[i - 1] ELSE Append(h[i - 1], st[i])
  BY <1>1, <1>4, Zenon DEF WithoutSteps
<1> HIDE DEF k, l
<1>8. \A n \in 0 .. k : h[n] = f[n] /\ f[n] \in Words
  <2> DEFINE T == {n \in Nat : n \in 0 .. k => h[n] = f[n] /\ f[n] \in Words}
  <2>1. 0 \in T
    <3>1. << >> \in Words
      BY DEF Words
    <3> QED  BY <1>5, <1>7, <3>1
  <2>2. ASSUME NEW n \in Nat, n \in T PROVE n + 1 \in T
    <3> SUFFICES ASSUME n + 1 \in 0 .. k PROVE h[n + 1] = f[n + 1] /\ f[n + 1] \in Words
      OBVIOUS
    <3> DEFINE i == n + 1
    <3>1. i \in 1 .. k /\ i \in 1 .. k + l /\ i - 1 = n /\ n \in 0 .. k
      BY <1>1
    <3>2. h[n] = f[n] /\ f[n] \in Words
      BY <2>2, <3>1
    <3> HIDE DEF i
    <3>3. st[i] = s[i] /\ s[i] \in Word
      BY <1>1, <3>1
    <3>4. f[i] = IF s[i] \in dropped THEN f[n] ELSE Append(f[n], s[i])
      BY <1>5, <3>1
    <3>5. h[i] = IF s[i] \in dropped THEN f[n] ELSE Append(f[n], s[i])
      BY <1>7, <3>1, <3>2, <3>3
    <3>6. Append(f[n], s[i]) \in Words
      BY <3>2, <3>3, AppendProperties DEF Words
    <3> QED  BY <3>2, <3>4, <3>5, <3>6 DEF i
  <2> HIDE DEF T
  <2>3. Nat \subseteq T
    BY <2>1, <2>2, SetInduction
  <2> QED  BY <1>1, <2>3 DEF T
<1>9. \A n \in 0 .. l : h[k + n] = f[k] \o g[n] /\ g[n] \in Words
  <2> DEFINE T == {n \in Nat : n \in 0 .. l => h[k + n] = f[k] \o g[n] /\ g[n] \in Words}
  <2>1. f[k] \in Words /\ h[k] = f[k]
    BY <1>1, <1>8
  <2>2. 0 \in T
    <3>1. h[k + 0] = f[k] \o g[0] /\ g[0] \in Words
      BY <1>1, <1>6, <2>1 DEF Words
    <3> QED  BY <3>1
  <2>3. ASSUME NEW n \in Nat, n \in T PROVE n + 1 \in T
    <3> SUFFICES ASSUME n + 1 \in 0 .. l
                 PROVE  h[k + (n + 1)] = f[k] \o g[n + 1] /\ g[n + 1] \in Words
      <4>1. n + 1 \in Nat
        OBVIOUS
      <4> QED  BY <4>1, Zenon
    <3> DEFINE i == n + 1
               j == k + i
    <3>1. i \in 1 .. l /\ i - 1 = n /\ n \in 0 .. l /\ j \in 1 .. k + l /\ j - 1 = k + n
      BY <1>1
    <3>2. h[k + n] = f[k] \o g[n] /\ g[n] \in Words
      BY <2>3, <3>1
    <3> HIDE DEF i
    <3>3. st[j] = t[i] /\ t[i] \in Word
      BY <1>1, <3>1
    <3> HIDE DEF j
    <3>4. g[i] = IF t[i] \in dropped THEN g[n] ELSE Append(g[n], t[i])
      BY <1>6, <3>1
    <3>5. h[j] = IF t[i] \in dropped THEN f[k] \o g[n] ELSE Append(f[k] \o g[n], t[i])
      BY <1>7, <3>1, <3>2, <3>3
    <3>6. Append(f[k] \o g[n], t[i]) = f[k] \o Append(g[n], t[i])
      <4> DEFINE a == f[k]
                 b == g[n]
                 x == t[i]
      <4>1. a \in Words /\ b \in Words /\ x \in Word
        BY <2>1, <3>2, <3>3
      <4> HIDE DEF a, b, x
      <4>2. a \o b \in Words /\ <<x>> \in Words
        BY <4>1 DEF Words
      <4>3. Append(a \o b, x) = (a \o b) \o <<x>> /\ Append(b, x) = b \o <<x>>
        BY <4>1, <4>2 DEF Words
      <4>4. (a \o b) \o <<x>> = a \o (b \o <<x>>)
        BY <4>1, <4>2, ConcatAssociative, SMTT(30) DEF Words
      <4> QED  BY <4>3, <4>4 DEF a, b, x
    <3>7. Append(g[n], t[i]) \in Words
      BY <3>2, <3>3, AppendProperties DEF Words
    <3> QED  BY <3>2, <3>4, <3>5, <3>6, <3>7 DEF i, j
  <2> HIDE DEF T
  <2>4. Nat \subseteq T
    BY <2>2, <2>3, SetInduction
  <2>5. \A n \in 0 .. l : n \in T
    BY <1>1, <2>4
  <2> QED  BY <2>5, Zenon DEF T
<1>10. k \in 0 .. k /\ l \in 0 .. l
  BY <1>1
<1> QED  BY <1>5, <1>6, <1>7, <1>8, <1>9, <1>10 DEF st

LEMMA WithoutJoins ==
  ASSUME NEW dropped
  PROVE  \A s, t \in Words :
           Without(s \o t, dropped) = Without(s, dropped) \o Without(t, dropped)
  BY WithoutJoined

MadeOf(c, s, t) ==
  /\ c \in Words /\ Len(c) = Len(s) + Len(t)
  /\ \A i \in 1 .. Len(s) : c[i] = s[i]
  /\ \A i \in 1 .. Len(t) : c[Len(s) + i] = t[i]

LEMMA JoinedIs ==
  ASSUME NEW s \in Words, NEW t \in Words
  PROVE  MadeOf(s \o t, s, t)
  BY DEF Words, MadeOf

LEMMA WithoutOne ==
  ASSUME NEW x \in Word, NEW dropped
  PROVE  Without(<<x>>, dropped) = IF x \in dropped THEN << >> ELSE <<x>>
<1> DEFINE s == <<x>>
<1>1. Len(s) = 1 /\ s[1] = x /\ Len(s) \in Nat
  OBVIOUS
<1> HIDE DEF s
<1>2. PICK f : WithoutSteps(s, dropped, f)
  BY <1>1, WithoutByIs
<1>3. /\ Without(s, dropped) = f[Len(s)] /\ f[0] = << >>
      /\ \A i \in 1 .. Len(s) :
           f[i] = IF s[i] \in dropped THEN f[i - 1] ELSE Append(f[i - 1], s[i])
  BY <1>2, Zenon DEF WithoutSteps
<1>4. 1 \in 1 .. Len(s) /\ 1 - 1 = 0
  BY <1>1
<1>5. f[1] = IF x \in dropped THEN f[0] ELSE Append(f[0], x)
  BY <1>1, <1>3, <1>4
<1>6. Append(<< >>, x) = <<x>>
  OBVIOUS
<1> QED  BY <1>1, <1>3, <1>5, <1>6 DEF s

\* Two lists that differ in the order of two neighbours.
Swapped(a, b) ==
  \E u, w \in Words, x, y \in Word : a = (u \o <<x, y>>) \o w /\ b = (u \o <<y, x>>) \o w
Alike(a, b) == a \in Words /\ b \in Words /\ (a = b \/ Swapped(a, b))

LEMMA AppendToOne ==
  ASSUME NEW S, NEW y \in S, NEW r \in Seq(S), Len(r) = 1
  PROVE  Append(r, y) \in Seq(S) /\ Len(Append(r, y)) = 2 /\ Append(r, y)[2] = y
<1>1. Append(r, y) \in Seq(S)
  OBVIOUS
<1>2. Len(Append(r, y)) = 2
  OBVIOUS
<1>3. Append(r, y)[2] = y
  <2>1. Append(r, y)[Len(r) + 1] = y
    BY AppendProperties
  <2>2. Len(r) + 1 = 2
    OBVIOUS
  <2> QED  BY <2>1, <2>2, Zenon
<1> QED  BY <1>1, <1>2, <1>3

LEMMA AppendedIs ==
  ASSUME NEW S, NEW x \in S, NEW y \in S, NEW r \in Seq(S), Len(r) = 1, r[1] = x
  PROVE  Append(r, y) = <<x, y>>
<1>1. Append(r, y) \in Seq(S) /\ Len(Append(r, y)) = 2
  BY AppendToOne
<1>2. Append(r, y)[1] = x
  OBVIOUS
<1>3. Append(r, y)[2] = y
  BY AppendToOne
<1> DEFINE t == Append(r, y)
<1> HIDE DEF t
<1>4. t \in Seq(S) /\ Len(t) = 2 /\ t[1] = x /\ t[2] = y
  BY <1>1, <1>2, <1>3 DEF t
<1>5. t = <<x, y>>
  BY <1>4
<1> QED  BY <1>5 DEF t

LEMMA PairOf ==
  ASSUME NEW S, NEW x \in S, NEW y \in S
  PROVE  <<x>> \o <<y>> = <<x, y>>
<1> DEFINE r == <<x>>
<1>1. r \in Seq(S) /\ Len(r) = 1 /\ r[1] = x
  OBVIOUS
<1> HIDE DEF r
<1>2. Append(r, y) = <<x, y>>
  BY <1>1, AppendedIs
<1>3. Append(r, y) = r \o <<y>>
  BY <1>1, AppendIsConcat
<1> QED  BY <1>2, <1>3, Zenon DEF r

LEMMA PairIs ==
  ASSUME NEW x \in Word, NEW y \in Word
  PROVE  /\ <<x>> \in Words /\ <<x, y>> \in Words
         /\ <<x>> \o <<y>> = <<x, y>>
<1>1. <<x>> \in Words /\ <<x, y>> \in Words
  BY DEF Words
<1>2. <<x>> \o <<y>> = <<x, y>>
  BY PairOf
<1> QED  BY <1>1, <1>2

LEMMA WithoutPair ==
  ASSUME NEW x \in Word, NEW y \in Word, NEW dropped
  PROVE  /\ <<x, y>> \in Words
         /\ Without(<<x, y>>, dropped) = Without(<<x>>, dropped) \o Without(<<y>>, dropped)
<1>1. <<x>> \in Words /\ <<y>> \in Words /\ <<x, y>> \in Words /\ <<x, y>> = <<x>> \o <<y>>
  BY PairIs
<1>2. Without(<<x>> \o <<y>>, dropped) = Without(<<x>>, dropped) \o Without(<<y>>, dropped)
  BY <1>1, WithoutJoined, ZenonT(40)
<1> QED  BY <1>1, <1>2

LEMMA AlikeWithout ==
  ASSUME NEW a, NEW b, Alike(a, b), NEW dropped
  PROVE  Alike(Without(a, dropped), Without(b, dropped))
<1>1. a \in Words /\ b \in Words /\ (a = b \/ Swapped(a, b))
  BY DEF Alike
<1>2. Without(a, dropped) \in Words /\ Without(b, dropped) \in Words
  BY <1>1, WithoutJoined
<1>3. CASE a = b
  BY <1>2, <1>3 DEF Alike
<1>4. CASE Swapped(a, b)
  <2>1. PICK u \in Words, w \in Words, x \in Word, y \in Word :
          a = (u \o <<x, y>>) \o w /\ b = (u \o <<y, x>>) \o w
    BY <1>4 DEF Swapped
  <2> DEFINE U == Without(u, dropped)
             W == Without(w, dropped)
             X == Without(<<x>>, dropped)
             Y == Without(<<y>>, dropped)
  <2>2. /\ <<x, y>> \in Words /\ Without(<<x, y>>, dropped) = X \o Y
        /\ <<y, x>> \in Words /\ Without(<<y, x>>, dropped) = Y \o X
    BY WithoutPair
  <2>3. u \o <<x, y>> \in Words /\ u \o <<y, x>> \in Words
    BY <2>2, ConcatProperties DEF Words
  <2>4. /\ Without(a, dropped) = (U \o (X \o Y)) \o W
        /\ Without(b, dropped) = (U \o (Y \o X)) \o W
    <3>1. ASSUME NEW p \in Words, NEW c, u \o p \in Words, c = (u \o p) \o w
          PROVE  Without(c, dropped) = (U \o Without(p, dropped)) \o W
      <4>1. Without(u \o p, dropped) = U \o Without(p, dropped)
        BY <2>1, <3>1, WithoutJoins, Zenon
      <4> DEFINE q == u \o p
      <4>2. q \in Words
        BY <3>1
      <4> HIDE DEF q
      <4>3. Without(q \o w, dropped) = Without(q, dropped) \o W
        BY <4>2, WithoutJoined, ZenonT(40)
      <4> HIDE DEF U, W
      <4> QED  BY <3>1, <4>1, <4>3 DEF q
    <3> HIDE DEF U, W, X, Y
    <3>2. Without(a, dropped) = (U \o Without(<<x, y>>, dropped)) \o W
      BY <2>1, <2>2, <2>3, <3>1
    <3>3. Without(b, dropped) = (U \o Without(<<y, x>>, dropped)) \o W
      BY <2>1, <2>2, <2>3, <3>1
    <3> QED  BY <2>2, <3>2, <3>3
  <2>5. U \in Words /\ W \in Words
    BY WithoutJoined
  <2>6. /\ X = IF x \in dropped THEN << >> ELSE <<x>>
        /\ Y = IF y \in dropped THEN << >> ELSE <<y>>
    BY WithoutOne
  <2> HIDE DEF U, W, X, Y
  <2>7. CASE x \in dropped \/ y \in dropped
    <3>1. X \o Y = Y \o X
      <4>1. CASE x \in dropped
        <5>1. X = << >> /\ Y \in Words
          BY <2>6, <4>1 DEF Words
        <5> QED  BY <5>1, ConcatEmptySeq DEF Words
      <4>2. CASE y \in dropped
        <5>1. Y = << >> /\ X \in Words
          BY <2>6, <4>2 DEF Words
        <5> QED  BY <5>1, ConcatEmptySeq DEF Words
      <4> QED  BY <2>7, <4>1, <4>2
    <3> QED  BY <1>2, <2>4, <3>1 DEF Alike
  <2>8. CASE x \notin dropped /\ y \notin dropped
    <3>1. X = <<x>> /\ Y = <<y>>
      BY <2>6, <2>8
    <3>2. X \o Y = <<x, y>> /\ Y \o X = <<y, x>>
      BY <3>1, PairIs
    <3>3. Swapped(Without(a, dropped), Without(b, dropped))
      BY <2>4, <2>5, <3>2, Zenon DEF Swapped
    <3> QED  BY <1>2, <3>3 DEF Alike
  <2> QED  BY <2>7, <2>8
<1> QED  BY <1>1, <1>3, <1>4

\* A list and the one with two neighbours swapped have as many values up to each.
SwapsAt(a, b, n, k) ==
  /\ n \in Nat /\ k \in 1 .. n - 1
  /\ a \in [1 .. n -> Word] /\ b \in [1 .. n -> Word]
  /\ b[k] = a[k + 1] /\ b[k + 1] = a[k]
  /\ \A i \in 1 .. n : i # k /\ i # k + 1 => b[i] = a[i]
CountsAlike(a, b, n) ==
  /\ Range(a) = Range(b)
  /\ \A v : Cardinality({j \in 1 .. n : a[j] <= v}) = Cardinality({j \in 1 .. n : b[j] <= v})

LEMMA SwappedCounts ==
  ASSUME NEW n, NEW k, NEW a, NEW b, SwapsAt(a, b, n, k)
  PROVE  CountsAlike(a, b, n)
<1>0. /\ n \in Nat /\ k \in 1 .. n - 1
      /\ a \in [1 .. n -> Word] /\ b \in [1 .. n -> Word]
      /\ b[k] = a[k + 1] /\ b[k + 1] = a[k]
      /\ \A i \in 1 .. n : i # k /\ i # k + 1 => b[i] = a[i]
  BY DEF SwapsAt
<1> DEFINE pi == [i \in 1 .. n |-> IF i = k THEN k + 1 ELSE IF i = k + 1 THEN k ELSE i]
<1>1. /\ \A i \in 1 .. n : pi[i] \in 1 .. n /\ pi[pi[i]] = i
      /\ pi \in [1 .. n -> 1 .. n]
  BY <1>0
<1>2. \A i \in 1 .. n : b[pi[i]] = a[i] /\ a[pi[i]] = b[i]
  BY <1>0
<1> HIDE DEF pi
<1>3. Range(a) = Range(b)
  <2>1. DOMAIN a = 1 .. n /\ DOMAIN b = 1 .. n
    BY <1>0
  <2>2. ASSUME NEW v \in Range(a) PROVE v \in Range(b)
    <3>1. PICK i \in 1 .. n : v = a[i]
      BY <2>1, Zenon DEF Range
    <3>2. pi[i] \in 1 .. n /\ v = b[pi[i]]
      BY <1>1, <1>2, <3>1
    <3> QED  BY <2>1, <3>2, Zenon DEF Range
  <2>3. ASSUME NEW v \in Range(b) PROVE v \in Range(a)
    <3>1. PICK i \in 1 .. n : v = b[i]
      BY <2>1, Zenon DEF Range
    <3>2. pi[i] \in 1 .. n /\ v = a[pi[i]]
      BY <1>1, <1>2, <3>1
    <3> QED  BY <2>1, <3>2, Zenon DEF Range
  <2> QED  BY <2>2, <2>3
<1>4. ASSUME NEW v
      PROVE  Cardinality({j \in 1 .. n : a[j] <= v}) = Cardinality({j \in 1 .. n : b[j] <= v})
  <2> DEFINE A == {j \in 1 .. n : a[j] <= v}
             B == {j \in 1 .. n : b[j] <= v}
             f == [j \in A |-> pi[j]]
  <2>1. A \subseteq 1 .. n /\ B \subseteq 1 .. n
    OBVIOUS
  <2>2. \A j \in A : pi[j] \in B
    BY <1>1, <1>2
  <2>3. \A j \in B : pi[j] \in A
    BY <1>1, <1>2
  <2> HIDE DEF A, B
  <2>4. IsFiniteSet(A)
    <3>1. IsFiniteSet(1 .. n)
      BY <1>0, FS_Interval
    <3> QED  BY <2>1, <3>1, FS_Subset
  <2>5. f \in [A -> B] /\ \A j \in A : f[j] = pi[j]
    BY <2>2
  <2> HIDE DEF f
  <2>6. \A i, j \in A : f[i] = f[j] => i = j
    <3> TAKE i, j \in A
    <3> HAVE f[i] = f[j]
    <3>1. pi[i] = pi[j] /\ i \in 1 .. n /\ j \in 1 .. n
      BY <2>1, <2>5
    <3>2. pi[pi[i]] = i /\ pi[pi[j]] = j
      BY <1>1, <3>1
    <3> QED  BY <3>1, <3>2
  <2>7. \A j \in B : \E i \in A : f[i] = j
    <3> TAKE j \in B
    <3>1. pi[j] \in A /\ j \in 1 .. n
      BY <2>1, <2>3
    <3>2. f[pi[j]] = pi[pi[j]] /\ pi[pi[j]] = j
      BY <1>1, <2>5, <3>1
    <3> QED  BY <3>1, <3>2
  <2>8. f \in Bijection(A, B)
    BY <2>5, <2>6, <2>7, Fun_IsBij
  <2>9. ExistsBijection(A, B)
    BY <2>8, Zenon DEF ExistsBijection
  <2>10. Cardinality(B) = Cardinality(A)
    BY <2>4, <2>9, FS_Bijection
  <2> QED  BY <2>10 DEF A, B
<1> QED  BY <1>3, <1>4, Zenon DEF CountsAlike

LEMMA AlikeSorted ==
  ASSUME NEW a, NEW b, Alike(a, b)
  PROVE  Sorted(a) = Sorted(b) /\ Len(a) = Len(b)
<1> SUFFICES ASSUME Swapped(a, b) PROVE Sorted(a) = Sorted(b) /\ Len(a) = Len(b)
  BY Zenon DEF Alike
<1>1. PICK u \in Words, w \in Words, x \in Word, y \in Word :
        a = (u \o <<x, y>>) \o w /\ b = (u \o <<y, x>>) \o w
  BY DEF Swapped
<1> DEFINE k == Len(u) + 1
           n == Len(u) + 2 + Len(w)
<1>2. /\ n \in Nat /\ k \in 1 .. n - 1 /\ Len(a) = n /\ Len(b) = n
      /\ a \in [1 .. n -> Word] /\ b \in [1 .. n -> Word]
  <2>1. u \in Seq(Word) /\ w \in Seq(Word)
    BY DEF Words
  <2> DEFINE p == u \o <<x, y>>
             q == u \o <<y, x>>
  <2>2. /\ p \in Seq(Word) /\ Len(p) = Len(u) + 2
        /\ q \in Seq(Word) /\ Len(q) = Len(u) + 2
    BY <2>1
  <2>3. Len(u) \in Nat /\ Len(w) \in Nat
    BY <2>1
  <2>4. a = p \o w /\ b = q \o w
    BY <1>1
  <2> HIDE DEF p, q
  <2>5. /\ a \in Seq(Word) /\ Len(a) = Len(p) + Len(w)
        /\ b \in Seq(Word) /\ Len(b) = Len(q) + Len(w)
    BY <2>1, <2>2, <2>4, ConcatProperties
  <2>6. n \in Nat /\ k \in 1 .. n - 1 /\ Len(a) = n /\ Len(b) = n
    BY <2>2, <2>3, <2>5
  <2> HIDE DEF n, k
  <2>7. a \in [1 .. n -> Word] /\ b \in [1 .. n -> Word]
    BY <2>5, <2>6
  <2> QED  BY <2>6, <2>7
<1>3. /\ b[k] = a[k + 1] /\ b[k + 1] = a[k]
      /\ \A i \in 1 .. n : i # k /\ i # k + 1 => b[i] = a[i]
  BY <1>1 DEF Words
<1> HIDE DEF k, n
<1>4. /\ Range(a) = Range(b)
      /\ \A v : Cardinality({j \in 1 .. n : a[j] <= v})
                  = Cardinality({j \in 1 .. n : b[j] <= v})
  <2>1. CountsAlike(a, b, n)
    <3>1. SwapsAt(a, b, n, k)
      BY <1>2, <1>3, Zenon DEF SwapsAt
    <3> QED  BY <3>1, SwappedCounts
  <2> QED  BY <2>1, Zenon DEF CountsAlike
<1>5. DOMAIN a = 1 .. n /\ DOMAIN b = 1 .. n
  BY <1>2
<1>6. Sorted(a) = Sorted(b)
  BY <1>4, <1>5, Zenon DEF Sorted
<1> QED  BY <1>2, <1>6

LEMMA Ja4Alike ==
  ASSUME NEW a, NEW b, NEW c, NEW d, Alike(a, b), Alike(c, d), NEW versions, NEW sigs
  PROVE  Ja4(versions, a, c, sigs) = Ja4(versions, b, d, sigs)
<1> DEFINE ca == WithoutGrease(a)
           cb == WithoutGrease(b)
           ea == WithoutGrease(c)
           eb == WithoutGrease(d)
           fa == Without(ea, {0, 16})
           fb == Without(eb, {0, 16})
<1>1. Alike(ca, cb) /\ Alike(ea, eb)
  BY AlikeWithout DEF WithoutGrease
<1> HIDE DEF ca, cb, ea, eb
<1>2. Alike(fa, fb)
  BY <1>1, AlikeWithout
<1> HIDE DEF fa, fb
<1>3. /\ Sorted(ca) = Sorted(cb) /\ Len(ca) = Len(cb) /\ Len(ea) = Len(eb)
      /\ Sorted(fa) = Sorted(fb)
  BY <1>1, <1>2, AlikeSorted
<1>4. /\ Ja4(versions, a, c, sigs)
           = [version |-> BestVersion(versions),
              counts  |-> <<Least(Len(ca), 99), Least(Len(ea), 99)>>,
              ciphers |-> Sorted(ca), exts |-> Sorted(fa), sigs |-> sigs]
      /\ Ja4(versions, b, d, sigs)
           = [version |-> BestVersion(versions),
              counts  |-> <<Least(Len(cb), 99), Least(Len(eb), 99)>>,
              ciphers |-> Sorted(cb), exts |-> Sorted(fb), sigs |-> sigs]
  BY Zenon DEF Ja4, ca, cb, ea, eb, fa, fb
<1> QED  BY <1>3, <1>4, Zenon

LEMMA NeighboursAlike ==
  ASSUME NEW d \in Words, NEW i \in 1 .. Len(d) - 1
  PROVE  Alike([d EXCEPT ![i] = d[i + 1], ![i + 1] = d[i]], d)
<1> DEFINE n == Len(d)
           s == [d EXCEPT ![i] = d[i + 1], ![i + 1] = d[i]]
           u == SubSeq(d, 1, i - 1)
           w == SubSeq(d, i + 2, n)
           x == d[i]
           y == d[i + 1]
<1>1. n \in Nat /\ i \in Nat /\ i >= 1 /\ i + 1 <= n
  BY DEF Words
<1>2. /\ d \in [1 .. n -> Word] /\ x \in Word /\ y \in Word
      /\ s \in [1 .. n -> Word] /\ s[i] = y /\ s[i + 1] = x
      /\ \A j \in 1 .. n : j # i /\ j # i + 1 => s[j] = d[j]
  <2>1. d \in [1 .. n -> Word]
    BY DEF Words
  <2>2. i \in 1 .. n /\ i + 1 \in 1 .. n /\ i # i + 1
    BY <1>1
  <2> HIDE DEF n
  <2>3. x \in Word /\ y \in Word
    BY <2>1, <2>2
  <2> QED  BY <2>1, <2>2, <2>3
<1>3. u \in Words /\ Len(u) = i - 1 /\ \A j \in 1 .. i - 1 : u[j] = d[j]
  BY <1>1 DEF Words
<1>4. w \in Words /\ Len(w) = n - i - 1 /\ \A j \in 1 .. n - i - 1 : w[j] = d[i + 1 + j]
  BY <1>1 DEF Words
<1> HIDE DEF n, s, u, w, x, y
<1>5. ASSUME NEW c \in [1 .. n -> Word], NEW e \in Word, NEW f \in Word, c[i] = e, c[i + 1] = f,
             \A j \in 1 .. n : j # i /\ j # i + 1 => c[j] = d[j]
      PROVE  c = (u \o <<e, f>>) \o w /\ c \in Words
  <2> DEFINE p == u \o <<e, f>>
             r == p \o w
             q == <<e, f>>
  <2>0. q \in Seq(Word) /\ Len(q) = 2 /\ q[1] = e /\ q[2] = f
    OBVIOUS
  <2> HIDE DEF q
  <2>1. /\ p \in Words /\ Len(p) = i + 1 /\ p[i] = e /\ p[i + 1] = f
        /\ \A j \in 1 .. i - 1 : p[j] = d[j]
    <3>1. p = u \o q
      BY DEF q
    <3> HIDE DEF p
    <3>0. /\ p \in Words /\ Len(p) = Len(u) + Len(q)
          /\ \A j \in 1 .. Len(u) : p[j] = u[j]
          /\ \A j \in 1 .. Len(q) : p[Len(u) + j] = q[j]
      <4>1. q \in Words
        BY <2>0 DEF Words
      <4>2. MadeOf(p, u, q)
        BY <1>3, <3>1, <4>1, JoinedIs
      <4> QED  BY <4>2, Zenon DEF MadeOf
    <3>2. p \in Words /\ Len(p) = Len(u) + 2
      BY <2>0, <3>0
    <3>3. /\ \A j \in 1 .. Len(u) : p[j] = u[j]
          /\ p[Len(u) + 1] = q[1] /\ p[Len(u) + 2] = q[2]
      <4>1. 1 \in 1 .. Len(q) /\ 2 \in 1 .. Len(q)
        BY <2>0
      <4> QED  BY <3>0, <4>1
    <3>4. Len(u) + 1 = i /\ Len(u) + 2 = i + 1
      BY <1>1, <1>3
    <3> QED  BY <1>3, <2>0, <3>2, <3>3, <3>4
  <2> HIDE DEF p
  <2>2. /\ r \in Words /\ Len(r) = n
        /\ \A j \in 1 .. i + 1 : r[j] = p[j]
        /\ \A j \in i + 2 .. n : r[j] = w[j - i - 1]
    <3>1. r = p \o w
      BY DEF r
    <3> HIDE DEF r
    <3>2. /\ r \in Words /\ Len(r) = Len(p) + Len(w)
          /\ \A j \in 1 .. Len(p) : r[j] = p[j]
          /\ \A j \in 1 .. Len(w) : r[Len(p) + j] = w[j]
      <4>1. MadeOf(r, p, w)
        BY <1>4, <2>1, <3>1, JoinedIs
      <4> QED  BY <4>1, Zenon DEF MadeOf
    <3>3. r \in Words /\ Len(r) = n /\ \A j \in 1 .. i + 1 : r[j] = p[j]
      BY <1>1, <1>4, <2>1, <3>2
    <3>4. ASSUME NEW j \in i + 2 .. n PROVE r[j] = w[j - i - 1]
      <4>1. j - i - 1 \in 1 .. Len(w) /\ Len(p) + (j - i - 1) = j
        BY <1>1, <1>4, <2>1
      <4> QED  BY <3>2, <4>1
    <3> QED  BY <3>3, <3>4
  <2> HIDE DEF r
  <2>3. ASSUME NEW j \in 1 .. n PROVE r[j] = c[j]
    <3>1. CASE j \in 1 .. i - 1
      BY <1>1, <1>5, <2>1, <2>2, <3>1
    <3>2. CASE j = i \/ j = i + 1
      BY <1>1, <1>5, <2>1, <2>2, <3>2
    <3>3. CASE j \in i + 2 .. n
      <4>1. j - i - 1 \in 1 .. n - i - 1 /\ i + 1 + (j - i - 1) = j /\ j # i /\ j # i + 1
        BY <1>1, <3>3
      <4>2. w[j - i - 1] = d[j]
        BY <1>4, <4>1
      <4> QED  BY <1>5, <2>2, <3>3, <4>1, <4>2
    <3> QED  BY <1>1, <3>1, <3>2, <3>3
  <2>4. r \in [1 .. n -> Word]
    BY <2>2 DEF Words
  <2>5. r = c
    <3>1. c \in [1 .. n -> Word]
      BY <1>5
    <3>2. \A j \in 1 .. n : r[j] = c[j]
      BY <2>3
    <3>3. r = [j \in 1 .. n |-> r[j]]
      BY <2>4
    <3>4. c = [j \in 1 .. n |-> c[j]]
      BY <3>1
    <3>5. [j \in 1 .. n |-> r[j]] = [j \in 1 .. n |-> c[j]]
      BY <3>2, Zenon
    <3> QED  BY <3>3, <3>4, <3>5, Zenon
  <2> QED  BY <2>2, <2>5 DEF r, p
<1>6. s = (u \o <<y, x>>) \o w /\ s \in Words
  BY <1>2, <1>5, ZenonT(40)
<1>7. d = (u \o <<x, y>>) \o w /\ d \in Words
  <2>1. d[i] = x /\ d[i + 1] = y
    BY DEF x, y
  <2> QED  BY <1>2, <1>5, <2>1
<1>8. Swapped(s, d)
  BY <1>2, <1>3, <1>4, <1>6, <1>7, Zenon DEF Swapped
<1> QED  BY <1>6, <1>8, Zenon DEF Alike, s

LEMMA RemovedIs ==
  ASSUME NEW d \in Words, NEW i \in 1 .. Len(d), NEW dropped, d[i] \in dropped
  PROVE  RemoveAt(d, i) \in Words /\ Without(RemoveAt(d, i), dropped) = Without(d, dropped)
<1> DEFINE n == Len(d)
           u == SubSeq(d, 1, i - 1)
           v == SubSeq(d, i, n)
           w == SubSeq(d, i + 1, n)
           x == d[i]
<1>1. n \in Nat /\ i \in 1 .. n /\ d \in Seq(Word)
  BY DEF Words
<1>2. x \in Word /\ <<x>> \in Words
  BY <1>1 DEF Words
<1>3. RemoveAt(d, i) = u \o w
  BY Zenon DEF RemoveAt
<1>4. v = <<x>> \o w
  BY <1>1, SubSeqRecursiveFirst
<1>5. d = u \o v
  <2>1. SubSeq(d, 1, n) = d
    BY <1>1, SubSeqFull
  <2>2. SubSeq(d, 1, i - 1) \o SubSeq(d, (i - 1) + 1, n) = SubSeq(d, 1, n)
    <3> DEFINE k == i - 1
    <3>1. 1 \in 1 .. n + 1 /\ k \in 1 - 1 .. n /\ n \in k .. n
      BY <1>1
    <3> HIDE DEF k
    <3> QED  BY <1>1, <3>1, ConcatAdjacentSubSeq DEF k
  <2>3. (i - 1) + 1 = i
    BY <1>1
  <2> QED  BY <2>1, <2>2, <2>3
<1>6. u \in Words /\ w \in Words /\ v \in Words
  BY <1>1 DEF Words
<1> HIDE DEF n, u, v, w, x
<1>7. Without(<<x>>, dropped) = << >>
  BY <1>2, WithoutOne DEF x
<1>8. Without(v, dropped) = << >> \o Without(w, dropped)
  <2>1. Without(<<x>> \o w, dropped) = Without(<<x>>, dropped) \o Without(w, dropped)
    BY <1>2, <1>6, WithoutJoins, Zenon
  <2> QED  BY <1>4, <1>7, <2>1, Zenon
<1>9. Without(w, dropped) \in Words
  BY <1>6, WithoutJoined
<1>10. Without(v, dropped) = Without(w, dropped)
  BY <1>8, <1>9, ConcatEmptySeq DEF Words
<1>11. /\ Without(u \o v, dropped) = Without(u, dropped) \o Without(v, dropped)
       /\ Without(u \o w, dropped) = Without(u, dropped) \o Without(w, dropped)
  BY <1>6, WithoutJoins, Zenon
<1>12. u \o w \in Words
  BY <1>6, ConcatProperties DEF Words
<1> QED  BY <1>3, <1>5, <1>10, <1>11, <1>12

(***************************************************************************)
(* JA4 is the same for every order of the ciphers and of the extensions,   *)
(* and a GREASE value among the ciphers, the extensions, the groups or the *)
(* versions changes neither fingerprint, whatever the length of the lists. *)
(* The signature algorithms are taken as they are (decode/ja.rs).          *)
(***************************************************************************)
THEOREM TheFingerprintsHold == ParsersSpec => []FingerprintsHold
<1>1. Readable => FingerprintsHold
  <2> SUFFICES ASSUME Readable, kind = "ja" PROVE FingerprintsHold
    BY Zenon DEF FingerprintsHold
  <2>1. data \in Words
    <3>1. Alphabet(kind) = Word
      BY Zenon DEF Alphabet
    <3> QED  BY <3>1 DEF Readable, Words
  <2>2. DOMAIN data = 1 .. Len(data)
    BY <2>1 DEF Words
  <2>3. Alike(data, data)
    BY <2>1 DEF Alike
  <2> DEFINE ja4 == Ja4(data, data, data, data)
  <2>4. ASSUME NEW i \in 1 .. (Len(data) - 1)
        PROVE  LET swapped == [data EXCEPT ![i] = data[i + 1], ![i + 1] = data[i]]
               IN Ja4(data, swapped, data, data) = ja4 /\ Ja4(data, data, swapped, data) = ja4
    <3> DEFINE swapped == [data EXCEPT ![i] = data[i + 1], ![i + 1] = data[i]]
    <3>1. Alike(swapped, data)
      BY <2>1, NeighboursAlike
    <3> HIDE DEF swapped
    <3>2. Ja4(data, swapped, data, data) = ja4 /\ Ja4(data, data, swapped, data) = ja4
      BY <2>3, <3>1, Ja4Alike
    <3> QED  BY <3>2 DEF swapped
  <2>5. ASSUME NEW i \in DOMAIN data, IsGrease(data[i])
        PROVE  LET without == RemoveAt(data, i)
               IN /\ Ja3(without, without, without) = Ja3(data, data, data)
                  /\ Ja4(without, without, without, data) = ja4
    <3> DEFINE without == RemoveAt(data, i)
    <3>1. i \in 1 .. Len(data) /\ data[i] \in Grease
      BY <2>1, <2>2, <2>5 DEF Words, Grease
    <3>2. WithoutGrease(without) = WithoutGrease(data)
      BY <2>1, <3>1, RemovedIs DEF WithoutGrease
    <3> HIDE DEF without
    <3>3. /\ Ja3(without, without, without) = Ja3(data, data, data)
          /\ Ja4(without, without, without, data) = ja4
      BY <3>2, Zenon DEF Ja3, Ja4, BestVersion
    <3> QED  BY <3>3 DEF without
  <2> QED  BY <2>4, <2>5, Zenon DEF FingerprintsHold
<1> QED  BY <1>1, ReadableAlways, PTL
(***************************************************************************)
(* What is put together again from the entries it was cut into.            *)
(***************************************************************************)
Cut(d, s, mark) ==
  /\ \A i \in 0 .. Len(s) : mark[i] \in Nat /\ mark[i] <= Len(d)
  /\ \A i \in 1 .. Len(s) : mark[i - 1] <= mark[i] /\ s[i] = Slice(d, mark[i - 1], mark[i])

LEMMA SlicesJoin ==
  ASSUME NEW d \in Bytes, NEW a \in Nat, NEW b \in Nat, NEW c \in Nat,
         a <= b, b <= c, c <= Len(d)
  PROVE  Slice(d, a, b) \o Slice(d, b, c) = Slice(d, a, c)
<1> DEFINE u == Slice(d, a, b)
           v == Slice(d, b, c)
           w == Slice(d, a, c)
<1>1. Len(d) \in Nat /\ a <= c /\ b <= Len(d)
  BY Reads
<1>2. /\ u \in Bytes /\ Len(u) = b - a /\ \A i \in 1 .. b - a : u[i] = d[a + i]
      /\ v \in Bytes /\ Len(v) = c - b /\ \A i \in 1 .. c - b : v[i] = d[b + i]
      /\ w \in Bytes /\ Len(w) = c - a /\ \A i \in 1 .. c - a : w[i] = d[a + i]
  BY <1>1, SliceIs
<1> HIDE DEF u, v, w
<1>3. /\ u \o v \in Seq(Byte) /\ Len(u \o v) = Len(u) + Len(v)
      /\ \A i \in 1 .. Len(u) + Len(v) : (u \o v)[i] = IF i <= Len(u) THEN u[i] ELSE v[i - Len(u)]
  BY <1>2, ConcatProperties DEF Bytes
<1>4. Len(u \o v) = Len(w)
  BY <1>2, <1>3
<1>5. ASSUME NEW i \in 1 .. Len(w) PROVE (u \o v)[i] = w[i]
  <2>1. w[i] = d[a + i] /\ i \in 1 .. Len(u) + Len(v)
    BY <1>2
  <2>2. CASE i <= Len(u)
    <3>1. i \in 1 .. b - a
      BY <1>2, <2>2
    <3> QED  BY <1>2, <1>3, <2>1, <2>2, <3>1
  <2>3. CASE ~(i <= Len(u))
    <3>1. i - Len(u) \in 1 .. c - b /\ b + (i - Len(u)) = a + i
      BY <1>2, <2>3
    <3> QED  BY <1>2, <1>3, <2>1, <2>3, <3>1
  <2> QED  BY <2>2, <2>3
<1> QED  BY <1>2, <1>3, <1>4, <1>5, SeqEqual DEF Bytes, u, v, w

LEMMA NothingIsCut ==
  ASSUME NEW d \in Bytes, NEW a \in Nat, a <= Len(d)
  PROVE  Slice(d, a, a) = << >>
<1>1. Slice(d, a, a) \in Seq(Byte) /\ Len(Slice(d, a, a)) = 0
  BY SliceIs DEF Bytes
<1> QED  BY <1>1, EmptySeq

FlattenBy(s, f) == f = [i \in 1 .. Len(s) |-> IF i = 1 THEN s[i] ELSE f[i - 1] \o s[i]]

LEMMA FlattenIs ==
  ASSUME NEW d \in Bytes, NEW s \in Seq(Bytes), NEW mark, Cut(d, s, mark)
  PROVE  /\ FlattenSeq(s) = Slice(d, mark[0], mark[Len(s)])
         /\ mark[0] <= mark[Len(s)]
<1> DEFINE n == Len(s)
           whole(i) == Slice(d, mark[0], mark[i])
<1>1. n \in Nat
  BY LenProperties
<1>2. /\ \A i \in 0 .. n : mark[i] \in Nat /\ mark[i] <= Len(d)
      /\ \A i \in 1 .. n : mark[i - 1] <= mark[i] /\ s[i] = Slice(d, mark[i - 1], mark[i])
  BY DEF Cut
<1>3. \A i \in 0 .. n : mark[0] <= mark[i]
  <2> DEFINE T == {i \in Nat : i <= n => mark[0] <= mark[i]}
  <2> HIDE DEF n
  <2>1. 0 \in T
    BY <1>1, <1>2
  <2>2. ASSUME NEW i \in Nat, i \in T PROVE i + 1 \in T
    <3> SUFFICES ASSUME i + 1 <= n PROVE mark[0] <= mark[i + 1]
      OBVIOUS
    <3>1. i \in 0 .. n /\ 0 \in 0 .. n /\ i + 1 \in 0 .. n /\ i + 1 \in 1 .. n /\ (i + 1) - 1 = i
      BY <1>1
    <3>2. mark[0] \in Nat /\ mark[i] \in Nat /\ mark[i + 1] \in Nat /\ mark[i] <= mark[i + 1]
      BY <1>2, <3>1
    <3>3. mark[0] <= mark[i]
      BY <2>2, <3>1
    <3> QED  BY <3>2, <3>3
  <2> HIDE DEF T
  <2>3. Nat \subseteq T
    BY <2>1, <2>2, SetInduction
  <2> QED  BY <2>3 DEF T
<1>4. ASSUME NEW i \in 1 .. n
      PROVE  whole(i) = whole(i - 1) \o s[i]
  <2>1. 0 \in 0 .. n /\ i - 1 \in 0 .. n /\ i \in 0 .. n
    BY <1>1
  <2>2. /\ mark[0] \in Nat /\ mark[i - 1] \in Nat /\ mark[i] \in Nat
        /\ mark[0] <= mark[i - 1] /\ mark[i - 1] <= mark[i] /\ mark[i] <= Len(d)
    BY <1>2, <1>3, <2>1
  <2> DEFINE a == mark[0]
             b == mark[i - 1]
             c == mark[i]
  <2>3. Slice(d, a, b) \o Slice(d, b, c) = Slice(d, a, c)
    <3>1. a \in Nat /\ b \in Nat /\ c \in Nat /\ a <= b /\ b <= c /\ c <= Len(d)
      BY <2>2
    <3> HIDE DEF a, b, c
    <3> QED  BY <3>1, SlicesJoin
  <2>4. s[i] = Slice(d, b, c)
    BY <1>2
  <2> QED  BY <2>3, <2>4
<1>5. mark[0] \in Nat /\ mark[0] <= Len(d) /\ whole(0) = << >>
  BY <1>1, <1>2, NothingIsCut
<1>6. CASE n = 0
  <2>1. FlattenSeq(s) = s /\ s = << >>
    BY <1>6, EmptySeq DEF FlattenSeq
  <2> QED  BY <1>1, <1>3, <1>5, <1>6, <2>1
<1>7. CASE n # 0
  <2>1. ASSUME 1 \in 1 .. n PROVE whole(1) = s[1]
    <3>1. whole(1) = << >> \o s[1]
      <4>1. 1 - 1 = 0
        OBVIOUS
      <4> QED  BY <1>4, <1>5, <2>1, <4>1
    <3>2. s[1] \in Bytes
      BY <2>1, ElementOfSeq
    <3> QED  BY <3>1, <3>2, ConcatEmptySeq DEF Bytes
  <2> DEFINE g == [i \in 1 .. n |-> whole(i)]
             f == CHOOSE f : FlattenBy(s, f)
  <2>2. \E h : FlattenBy(s, h)
    <3>1. g = [i \in 1 .. n |-> IF i = 1 THEN s[i] ELSE g[i - 1] \o s[i]]
      <4> DEFINE h == [i \in 1 .. n |-> IF i = 1 THEN s[i] ELSE g[i - 1] \o s[i]]
      <4> HIDE DEF n
      <4>1. ASSUME NEW i \in 1 .. n PROVE g[i] = h[i]
        <5> HIDE DEF whole
        <5>1. CASE i = 1
          BY <2>1, <5>1
        <5>2. CASE i # 1
          <6>1. i - 1 \in 1 .. n
            BY <1>1, <5>2
          <6>2. g[i - 1] = whole(i - 1) /\ g[i] = whole(i)
            BY <6>1
          <6> QED  BY <1>4, <5>2, <6>2
        <5> QED  BY <5>1, <5>2
      <4> QED  BY <4>1
    <3> HIDE DEF g
    <3> QED  BY <3>1, Zenon DEF FlattenBy
  <2>3. FlattenBy(s, f)
    BY <2>2, Zenon
  <2>4. FlattenSeq(s) = f[n]
    BY <1>7, Zenon DEF FlattenSeq, FlattenBy
  <2> HIDE DEF f
  <2>5. \A i \in 1 .. n : f[i] = IF i = 1 THEN s[i] ELSE f[i - 1] \o s[i]
    BY <2>3 DEF FlattenBy
  <2> HIDE DEF n, whole
  <2> DEFINE T == {i \in Nat : i + 1 <= n => f[i + 1] = whole(i + 1)}
  <2>6. 0 \in T
    <3> SUFFICES ASSUME 1 <= n PROVE f[1] = whole(1)
      OBVIOUS
    <3>1. 1 \in 1 .. n
      BY <1>1
    <3> QED  BY <2>1, <2>5, <3>1
  <2>7. ASSUME NEW i \in Nat, i \in T PROVE i + 1 \in T
    <3> SUFFICES ASSUME (i + 1) + 1 <= n PROVE f[(i + 1) + 1] = whole((i + 1) + 1)
      OBVIOUS
    <3> DEFINE j == (i + 1) + 1
    <3>1. i + 1 <= n /\ j \in 1 .. n /\ j # 1 /\ j - 1 = i + 1
      BY <1>1
    <3>2. f[i + 1] = whole(i + 1)
      BY <2>7, <3>1
    <3> HIDE DEF j
    <3>3. f[j] = f[j - 1] \o s[j] /\ whole(j) = whole(j - 1) \o s[j]
      BY <1>4, <2>5, <3>1
    <3>4. f[j] = whole(j)
      BY <3>1, <3>2, <3>3
    <3> QED  BY <3>4 DEF j
  <2> HIDE DEF T
  <2>8. Nat \subseteq T
    BY <2>6, <2>7, SetInduction
  <2>9. n - 1 \in Nat /\ (n - 1) + 1 = n /\ n \in 0 .. n
    BY <1>1, <1>7
  <2>10. f[n] = whole(n)
    BY <2>8, <2>9 DEF T
  <2> QED  BY <1>3, <2>4, <2>9, <2>10 DEF n, whole
<1> QED  BY <1>6, <1>7

\* A run is cut where its entries begin and end.
CutRun(d, start, end, size, run, mark) ==
  /\ Cut(d, run.got, mark) /\ mark[0] = start /\ mark[Len(run.got)] = run.at
  /\ \A i \in 1 .. Len(run.got) :
       /\ size[mark[i - 1]] \in Nat \ {0} /\ mark[i] = mark[i - 1] + size[mark[i - 1]]
       /\ mark[i] <= end

LEMMA TakeCuts ==
  ASSUME NEW d \in Bytes, NEW start \in Nat, NEW end \in Nat, end <= Len(d),
         NEW size, Sized(end, size), NEW run \in Runs, Whole(end, size, run),
         NEW mark, CutRun(d, start, end, size, run, mark)
  PROVE  \E new : CutRun(d, start, end, size, Taken(d, size, run), new)
<1> DEFINE got == run.got
           n == Len(got)
           a == run.at
           b == a + size[a]
           next == Taken(d, size, run)
           new == [i \in 0 .. n + 1 |-> IF i = n + 1 THEN b ELSE mark[i]]
<1>1. n \in Nat /\ a \in Nat /\ got \in Seq(Bytes) /\ Len(d) \in Nat
  BY Reads, LenProperties DEF Runs
<1>2. size[a] \in Nat \ {0} /\ b <= end
  <2>1. /\ Take(d, end, size, run) = next /\ next.at <= end /\ size[a] \in Nat \ {0}
    BY TakeIs
  <2> QED  BY <2>1 DEF Taken
<1>3. b \in Nat /\ a <= b /\ b <= Len(d)
  <2> HIDE DEF a
  <2> QED  BY <1>1, <1>2
<1>4. /\ \A i \in 0 .. n : mark[i] \in Nat /\ mark[i] <= Len(d)
      /\ \A i \in 1 .. n : mark[i - 1] <= mark[i] /\ got[i] = Slice(d, mark[i - 1], mark[i])
      /\ mark[0] = start /\ mark[n] = a
      /\ \A i \in 1 .. n : /\ size[mark[i - 1]] \in Nat \ {0}
                           /\ mark[i] = mark[i - 1] + size[mark[i - 1]] /\ mark[i] <= end
  BY DEF CutRun, Cut
<1>5. next.at = b /\ next.got = Append(got, Slice(d, a, b))
  BY DEF Taken
<1>6. /\ Len(next.got) = n + 1 /\ \A i \in 1 .. n : next.got[i] = got[i]
      /\ next.got[n + 1] = Slice(d, a, b)
  <2> DEFINE piece == Slice(d, a, b)
  <2>1. piece \in Bytes
    <3> HIDE DEF a, b
    <3> QED  BY <1>1, <1>3, SliceIs DEF piece
  <2> HIDE DEF piece, a, b
  <2>2. /\ Len(Append(got, piece)) = n + 1 /\ Append(got, piece)[n + 1] = piece
        /\ \A i \in 1 .. n : Append(got, piece)[i] = got[i]
    BY <1>1, <2>1, AppendProperties
  <2> QED  BY <1>5, <2>2 DEF piece
<1> HIDE DEF n, a, b, next, got
<1>7. new[n + 1] = b /\ \A i \in 0 .. n : new[i] = mark[i]
  BY <1>1
<1> HIDE DEF new
<1>8. ASSUME NEW i \in 1 .. n + 1
      PROVE  /\ new[i - 1] \in Nat /\ new[i] \in Nat /\ new[i - 1] <= new[i]
             /\ new[i] <= Len(d) /\ next.got[i] = Slice(d, new[i - 1], new[i])
             /\ size[new[i - 1]] \in Nat \ {0} /\ new[i] = new[i - 1] + size[new[i - 1]]
             /\ new[i] <= end
  <2>1. CASE i \in 1 .. n
    <3>1. i \in 0 .. n /\ i - 1 \in 0 .. n
      BY <1>1, <2>1
    <3> QED  BY <1>4, <1>6, <1>7, <2>1, <3>1
  <2>2. CASE i = n + 1
    <3>1. i - 1 = n /\ n \in 0 .. n
      BY <1>1, <2>2
    <3>2. new[i - 1] = a /\ new[i] = b
      BY <1>4, <1>7, <2>2, <3>1
    <3> QED  BY <1>1, <1>2, <1>3, <1>6, <2>2, <3>2 DEF b
  <2>3. i \in 1 .. n \/ i = n + 1
    BY <1>1
  <2> QED  BY <2>1, <2>2, <2>3
<1>9. new[0] = start /\ new[0] <= Len(d) /\ new[0] \in Nat
  <2>1. 0 \in 0 .. n
    BY <1>1
  <2> QED  BY <1>4, <1>7, <2>1
<1>10. Cut(d, next.got, new)
  <2>1. ASSUME NEW i \in 0 .. n + 1 PROVE new[i] \in Nat /\ new[i] <= Len(d)
    <3>1. i = 0 \/ i \in 1 .. n + 1
      BY <1>1
    <3> QED  BY <1>8, <1>9, <3>1
  <2> QED  BY <1>6, <1>8, <2>1 DEF Cut
<1>11. CutRun(d, start, end, size, next, new)
  BY <1>5, <1>6, <1>7, <1>8, <1>9, <1>10 DEF CutRun
<1> QED  BY <1>11 DEF next

LEMMA RunCut ==
  ASSUME NEW d \in Bytes, NEW start \in Nat, NEW end \in Nat, start <= end, end <= Len(d),
         NEW size, Sized(end, size)
  PROVE  \E mark : CutRun(d, start, end, size, Run(d, start, end, size), mark)
<1>1. PICK f : RunSteps(d, start, end, size, f)
  BY RunByIs
<1> DEFINE Ok(i) == f[i] \in Runs /\ \E mark : CutRun(d, start, end, size, f[i], mark)
           T == {i \in Nat : i <= end => Ok(i)}
<1>2. \A i \in 0 .. end : f[i] \in Runs
  <2>1. \A i \in 0 .. end :
           /\ f[i] \in Runs /\ f[i].at >= start
           /\ f[i].at >= start + i \/ ~Whole(end, size, f[i])
    BY <1>1, RunAdvances
  <2> QED  BY <2>1
<1>3. 0 \in T
  <2> DEFINE mark == [i \in 0 .. 0 |-> start]
  <2>1. f[0].at = start /\ f[0].got = << >> /\ f[0] \in Runs
    BY <1>1, <1>2 DEF RunSteps
  <2>2. Len(<< >>) = 0 /\ mark[0] = start /\ start <= Len(d) /\ 0 .. 0 = {0} /\ 1 .. 0 = {}
    BY Reads
  <2> HIDE DEF mark
  <2>3. Cut(d, f[0].got, mark)
    BY <2>1, <2>2 DEF Cut
  <2>4. CutRun(d, start, end, size, f[0], mark)
    BY <2>1, <2>2, <2>3 DEF CutRun
  <2> QED  BY <2>1, <2>4
<1>4. ASSUME NEW i \in Nat, i \in T PROVE i + 1 \in T
  <2> SUFFICES ASSUME i + 1 <= end PROVE Ok(i + 1)
    OBVIOUS
  <2>1. i <= end /\ i + 1 \in 1 .. end /\ (i + 1) - 1 = i /\ i + 1 \in 0 .. end
    OBVIOUS
  <2>2. Ok(i)
    BY <1>4, <2>1
  <2>3. f[i + 1] = Take(d, end, size, f[i]) /\ f[i + 1] \in Runs
    BY <1>1, <1>2, <2>1 DEF RunSteps
  <2>4. PICK mark : CutRun(d, start, end, size, f[i], mark)
    BY <2>2
  <2>5. CASE Whole(end, size, f[i])
    <3> DEFINE run == f[i]
    <3>1. run \in Runs /\ Whole(end, size, run) /\ CutRun(d, start, end, size, run, mark)
      BY <2>2, <2>4, <2>5
    <3> HIDE DEF run
    <3>2. \E new : CutRun(d, start, end, size, Taken(d, size, run), new)
      BY <3>1, TakeCuts
    <3>3. Take(d, end, size, run) = Taken(d, size, run)
      BY <3>1, TakeIs
    <3> QED  BY <2>3, <3>2, <3>3 DEF run
  <2>6. CASE ~Whole(end, size, f[i])
    <3>1. f[i + 1] = f[i]
      BY <2>2, <2>3, <2>6, TakeIs
    <3> QED  BY <2>2, <2>4, <3>1
  <2> QED  BY <2>5, <2>6
<1> HIDE DEF T
<1>5. Nat \subseteq T
  BY <1>3, <1>4, SetInduction
<1>6. Ok(end)
  BY <1>5 DEF T
<1> QED  BY <1>1, <1>6 DEF RunSteps

\* So what it took is what lies between its start and its end.
LEMMA RunIsWhole ==
  ASSUME NEW d \in Bytes, NEW start \in Nat, NEW end \in Nat, start <= end, end <= Len(d),
         NEW size, Sized(end, size)
  PROVE  LET run == Run(d, start, end, size)
         IN  /\ run.at \in Nat /\ start <= run.at /\ run.at <= Len(d)
             /\ FlattenSeq(run.got) = Slice(d, start, run.at)
             /\ run.got \in Seq(Bytes)
             /\ run.at <= end
<1> DEFINE run == Run(d, start, end, size)
           n == Len(run.got)
<1>1. run \in Runs
  BY RunEnds
<1>2. PICK mark : CutRun(d, start, end, size, run, mark)
  BY RunCut
<1> HIDE DEF run
<1>3. run.got \in Seq(Bytes) /\ n \in Nat
  BY <1>1, LenProperties DEF Runs
<1>4. Cut(d, run.got, mark) /\ mark[0] = start /\ mark[n] = run.at
  BY <1>2 DEF CutRun
<1>5. FlattenSeq(run.got) = Slice(d, mark[0], mark[n]) /\ mark[0] <= mark[n]
  BY <1>3, <1>4, FlattenIs
<1>6. run.at \in Nat /\ run.at <= Len(d)
  BY <1>3, <1>4 DEF Cut
<1>7. run.at <= end
  <2>1. CASE n = 0
    BY <1>4, <2>1
  <2>2. CASE n # 0
    <3>1. n \in 1 .. n
      BY <1>3, <2>2
    <3> QED  BY <1>2, <1>4, <3>1 DEF CutRun
  <2> QED  BY <2>1, <2>2
<1> QED  BY <1>3, <1>4, <1>5, <1>6, <1>7 DEF run

(***************************************************************************)
(* Slices of slices, and lists behind their lengths.                       *)
(***************************************************************************)
LEMMA SliceReads ==
  ASSUME NEW d \in Bytes, NEW a \in Nat, NEW b \in Nat, a <= b, b <= Len(d)
  PROVE  /\ \A i \in 0 .. (b - a) - 1 : At(Slice(d, a, b), i) = At(d, a + i)
         /\ \A i \in 0 .. (b - a) - 2 : U16(Slice(d, a, b), i) = U16(d, a + i)
         /\ \A i \in 0 .. (b - a) - 3 : U24(Slice(d, a, b), i) = U24(d, a + i)
<1> DEFINE s == Slice(d, a, b)
<1>1. \A i \in 1 .. b - a : s[i] = d[a + i]
  BY SliceIs
<1> HIDE DEF s
<1>2. ASSUME NEW i \in 0 .. (b - a) - 1 PROVE At(s, i) = At(d, a + i)
  <2>1. i + 1 \in 1 .. b - a /\ a + (i + 1) = (a + i) + 1
    OBVIOUS
  <2>2. s[i + 1] = d[(a + i) + 1]
    BY <1>1, <2>1
  <2> QED  BY <2>2 DEF At
<1>3. ASSUME NEW i \in 0 .. (b - a) - 2 PROVE U16(s, i) = U16(d, a + i)
  <2>1. i \in 0 .. (b - a) - 1 /\ i + 1 \in 0 .. (b - a) - 1 /\ a + (i + 1) = (a + i) + 1
    OBVIOUS
  <2>2. At(s, i) = At(d, a + i) /\ At(s, i + 1) = At(d, (a + i) + 1)
    BY <1>2, <2>1
  <2> QED  BY <2>2 DEF U16
<1>4. ASSUME NEW i \in 0 .. (b - a) - 3 PROVE U24(s, i) = U24(d, a + i)
  <2>1. /\ i \in 0 .. (b - a) - 1 /\ i + 1 \in 0 .. (b - a) - 2
        /\ a + (i + 1) = (a + i) + 1
    OBVIOUS
  <2>2. At(s, i) = At(d, a + i) /\ U16(s, i + 1) = U16(d, (a + i) + 1)
    BY <1>2, <1>3, <2>1
  <2> QED  BY <2>2 DEF U24
<1> QED  BY <1>2, <1>3, <1>4 DEF s

LEMMA SliceSlice ==
  ASSUME NEW d \in Bytes, NEW a \in Nat, NEW b \in Nat, a <= b, b <= Len(d),
         NEW x \in Nat, NEW y \in Nat, x <= y, y <= b - a
  PROVE  Slice(Slice(d, a, b), x, y) = Slice(d, a + x, a + y)
<1> DEFINE s == Slice(d, a, b)
           u == Slice(s, x, y)
           v == Slice(d, a + x, a + y)
<1>1. s \in Bytes /\ Len(s) = b - a /\ \A i \in 1 .. b - a : s[i] = d[a + i]
  BY SliceIs
<1> HIDE DEF s
<1>2. u \in Bytes /\ Len(u) = y - x /\ \A i \in 1 .. y - x : u[i] = s[x + i]
  BY <1>1, SliceIs
<1>3. /\ a + x \in Nat /\ a + y \in Nat /\ a + x <= a + y /\ a + y <= Len(d)
      /\ (a + y) - (a + x) = y - x
  BY Reads
<1>4. v \in Bytes /\ Len(v) = y - x /\ \A i \in 1 .. y - x : v[i] = d[(a + x) + i]
  <2> DEFINE m == a + x
             n == a + y
  <2>1. m \in Nat /\ n \in Nat /\ m <= n /\ n <= Len(d) /\ n - m = y - x
    BY <1>3
  <2> HIDE DEF m, n
  <2>2. /\ Slice(d, m, n) \in Bytes /\ Len(Slice(d, m, n)) = n - m
        /\ \A i \in 1 .. n - m : Slice(d, m, n)[i] = d[m + i]
    BY <2>1, SliceIs
  <2>3. /\ Slice(d, m, n) \in Bytes /\ Len(Slice(d, m, n)) = y - x
        /\ \A i \in 1 .. y - x : Slice(d, m, n)[i] = d[m + i]
    BY <2>1, <2>2
  <2> QED  BY <2>3 DEF m, n
<1> HIDE DEF u, v
<1>5. ASSUME NEW i \in 1 .. y - x PROVE u[i] = v[i]
  <2>1. x + i \in 1 .. b - a /\ a + (x + i) = (a + x) + i
    OBVIOUS
  <2> QED  BY <1>1, <1>2, <1>4, <2>1
<1>6. u = v
  BY <1>2, <1>4, <1>5, SeqEqual DEF Bytes
<1> QED  BY <1>6 DEF u, v, s

LEMMA SliceBehind ==
  ASSUME NEW d \in Bytes, NEW a \in Nat, NEW b \in Nat, a <= b, b <= Len(d)
  PROVE  Behind(d, a, Slice(d, a, b))
<1>1. Len(Slice(d, a, b)) = b - a /\ Len(d) \in Nat /\ a + (b - a) = b
  BY SliceIs, Reads
<1> QED  BY <1>1 DEF Behind

LEMMA SlicePrefixed ==
  ASSUME NEW d \in Bytes, NEW p \in Nat, NEW q \in Nat, p < q, q <= Len(d)
  PROVE  /\ Tail(Slice(d, p, q)) = Slice(d, p + 1, q)
         /\ Len(Slice(d, p + 1, q)) = q - (p + 1)
         /\ <<At(d, p)>> \o Slice(d, p + 1, q) = Slice(d, p, q)
         /\ Head(Slice(d, p, q)) = At(d, p)
<1>1. /\ Len(d) \in Nat /\ p + 1 \in Nat /\ p <= p + 1 /\ p + 1 <= q /\ p <= q
      /\ p + 1 <= Len(d) /\ (p + 1) - p = 1 /\ p \in 0 .. Len(d) - 1
  BY Reads
<1> DEFINE r == p + 1
           s == Slice(d, p, q)
           t == Slice(d, r, q)
           one == Slice(d, p, r)
<1>2. /\ s \in Seq(Byte) /\ Len(s) = q - p /\ \A i \in 1 .. q - p : s[i] = d[p + i]
      /\ t \in Seq(Byte) /\ Len(t) = q - r /\ \A i \in 1 .. q - r : t[i] = d[r + i]
      /\ one \in Seq(Byte) /\ Len(one) = 1 /\ \A i \in 1 .. 1 : one[i] = d[p + i]
  <2> HIDE DEF r
  <2>1. r \in Nat /\ p <= r /\ r <= q /\ p <= q /\ r <= Len(d) /\ r - p = 1
    BY <1>1 DEF r
  <2>2. /\ s \in Bytes /\ Len(s) = q - p /\ \A i \in 1 .. q - p : s[i] = d[p + i]
        /\ t \in Bytes /\ Len(t) = q - r /\ \A i \in 1 .. q - r : t[i] = d[r + i]
    BY <2>1, SliceIs
  <2>3. one \in Bytes /\ Len(one) = r - p /\ \A i \in 1 .. r - p : one[i] = d[p + i]
    BY <2>1, SliceIs
  <2> HIDE DEF s, t, one
  <2>4. Len(one) = 1 /\ \A i \in 1 .. 1 : one[i] = d[p + i]
    BY <2>1, <2>3
  <2> QED  BY <2>2, <2>3, <2>4 DEF Bytes
<1>3. one \o t = s
  <2> HIDE DEF r
  <2>1. r \in Nat /\ p <= r /\ r <= q
    BY <1>1 DEF r
  <2> QED  BY <2>1, SlicesJoin
<1>4. one = <<At(d, p)>>
  <2> HIDE DEF one
  <2>1. At(d, p) \in Byte /\ <<At(d, p)>> \in Seq(Byte) /\ Len(<<At(d, p)>>) = 1
    BY <1>1, Reads
  <2>2. one[1] = d[p + 1] /\ <<At(d, p)>>[1] = d[p + 1]
    BY <1>2 DEF At
  <2> QED  BY <1>2, <2>1, <2>2, SeqEqual
<1>5. s # << >> /\ Head(s) = At(d, p)
  <2> HIDE DEF s
  <2>1. 1 \in 1 .. q - p
    BY <1>1
  <2>2. s[1] = d[p + 1] /\ Len(s) # 0
    BY <1>2, <2>1
  <2> QED  BY <1>2, <2>2, EmptySeq, HeadTailProperties DEF At
<1>6. Tail(s) = t
  <2> HIDE DEF s, t
  <2>1. /\ Tail(s) \in Seq(Byte) /\ Len(Tail(s)) = Len(s) - 1
        /\ \A i \in 1 .. Len(Tail(s)) : Tail(s)[i] = s[i + 1]
    BY <1>2, <1>5, HeadTailProperties
  <2>2. Len(Tail(s)) = q - r /\ Len(t) = q - r
    BY <1>1, <1>2, <2>1
  <2>3. ASSUME NEW i \in 1 .. q - r PROVE Tail(s)[i] = t[i]
    <3>1. i + 1 \in 1 .. q - p /\ p + (i + 1) = r + i
      BY <1>1
    <3>2. Tail(s)[i] = d[p + (i + 1)] /\ t[i] = d[r + i]
      BY <1>2, <2>1, <2>2, <3>1
    <3> QED  BY <3>1, <3>2
  <2> HIDE DEF r
  <2> QED  BY <1>2, <2>1, <2>2, <2>3, SeqEqual
<1> QED  BY <1>2, <1>3, <1>4, <1>5, <1>6

\* Numbers of two bytes each.
LEMMA PairsBack ==
  ASSUME NEW d \in Bytes, NEW n \in Nat
  PROVE  LET k == Least(n, Len(d)) \div 2
         IN  /\ k \in Nat /\ 2 * k <= Len(d)
             /\ Pairs(U16s(d, n)) = Slice(d, 0, 2 * k)
<1> DEFINE m == Least(n, Len(d))
           k == m \div 2
           vs == U16s(d, n)
           s == [i \in DOMAIN vs |-> <<vs[i] \div 256, vs[i] % 256>>]
           mark == [i \in 0 .. k |-> 2 * i]
<1>1. Len(d) \in Nat /\ m \in Nat /\ m <= Len(d)
  <2>1. Len(d) \in Nat
    BY Reads
  <2> QED  BY <2>1 DEF Least
<1>2. k \in Nat /\ 2 * k <= m
  <2> HIDE DEF m
  <2> QED  BY <1>1
<1>3. vs = [i \in 1 .. k |-> U16(d, 2 * (i - 1))]
  BY DEF U16s
<1> HIDE DEF k, m, vs
<1>4. DOMAIN vs = 1 .. k /\ \A i \in 1 .. k : vs[i] = U16(d, 2 * (i - 1))
  BY <1>3
<1>5. /\ \A i \in 0 .. k : mark[i] = 2 * i /\ mark[i] \in Nat /\ mark[i] <= Len(d)
  BY <1>1, <1>2
<1> HIDE DEF mark
<1>6. ASSUME NEW i \in 1 .. k
      PROVE  /\ s[i] = Slice(d, mark[i - 1], mark[i]) /\ s[i] \in Bytes
             /\ mark[i - 1] <= mark[i]
  <2> DEFINE a == 2 * (i - 1)
             b == a + 2
  <2>1. i - 1 \in 0 .. k /\ i \in 0 .. k
    BY <1>2
  <2>2. mark[i - 1] = a /\ mark[i] = b /\ a \in Nat /\ b \in Nat /\ b <= Len(d)
    BY <1>2, <1>5, <2>1
  <2>3. vs[i] = U16(d, a)
    BY <1>4
  <2> HIDE DEF a
  <2>4. a \in 0 .. Len(d) - 1 /\ a + 1 \in 0 .. Len(d) - 1
    BY <1>1, <2>2
  <2> DEFINE x == At(d, a)
             y == At(d, a + 1)
  <2>5. x \in Byte /\ y \in Byte /\ x \in 0 .. 255 /\ y \in 0 .. 255
    BY <2>4, Reads DEF Byte
  <2>6. vs[i] = 256 * x + y
    BY <2>3 DEF U16
  <2> HIDE DEF x, y, b
  <2>7. vs[i] \div 256 = x /\ vs[i] % 256 = y
    BY <2>5, <2>6
  <2>8. s[i] = <<x, y>>
    BY <1>4, <2>7
  <2>9. /\ Slice(d, a, b) \in Seq(Byte) /\ Len(Slice(d, a, b)) = 2
        /\ \A j \in 1 .. 2 : Slice(d, a, b)[j] = d[a + j]
    <3>1. a <= b /\ b - a = 2
      BY <2>2 DEF b
    <3>2. /\ Slice(d, a, b) \in Bytes /\ Len(Slice(d, a, b)) = b - a
          /\ \A j \in 1 .. b - a : Slice(d, a, b)[j] = d[a + j]
      BY <2>2, <3>1, SliceIs
    <3> QED  BY <3>1, <3>2 DEF Bytes
  <2>10. <<x, y>> \in Seq(Byte) /\ Len(<<x, y>>) = 2
    BY <2>5
  <2>11. <<x, y>>[1] = d[a + 1] /\ <<x, y>>[2] = d[a + 2]
    <3>1. (a + 1) + 1 = a + 2
      BY <2>2
    <3> QED  BY <3>1 DEF x, y, At
  <2>12. \A j \in 1 .. 2 : <<x, y>>[j] = Slice(d, a, b)[j]
    <3>1. \A j \in 1 .. 2 : j = 1 \/ j = 2
      OBVIOUS
    <3> QED  BY <2>9, <2>11, <3>1
  <2>13. <<x, y>> = Slice(d, a, b)
    BY <2>9, <2>10, <2>12, SeqEqual
  <2>14. a <= b
    BY <2>2 DEF b
  <2> HIDE DEF s
  <2> QED  BY <2>2, <2>8, <2>9, <2>13, <2>14 DEF Bytes
<1>7. s \in Seq(Bytes) /\ Len(s) = k
  <2>1. s = [i \in 1 .. k |-> s[i]]
    BY <1>4
  <2> HIDE DEF s
  <2>2. \A i \in 1 .. k : s[i] \in Bytes
    BY <1>6
  <2>3. s \in [1 .. k -> Bytes]
    BY <2>1, <2>2
  <2> QED  BY <1>2, <2>3, IsASeq, LenProperties
<1>8. Pairs(vs) = FlattenSeq(s)
  BY Zenon DEF Pairs
<1> HIDE DEF s
<1>9. Cut(d, s, mark)
  BY <1>5, <1>6, <1>7 DEF Cut
<1>10. FlattenSeq(s) = Slice(d, mark[0], mark[k])
  BY <1>7, <1>9, FlattenIs
<1>11. mark[0] = 0 /\ mark[k] = 2 * k
  BY <1>2, <1>5
<1>12. 2 * k <= Len(d)
  BY <1>1, <1>2
<1> QED  BY <1>2, <1>8, <1>10, <1>11, <1>12 DEF k, m, vs

LEMMA PairsBehind ==
  ASSUME NEW d \in Bytes, NEW a \in Nat, a <= Len(d), NEW n \in Nat
  PROVE  Behind(d, a, Pairs(U16s(From(d, a), n)))
<1> DEFINE m == Len(d)
           e == Slice(d, a, m)
           k == Least(n, Len(e)) \div 2
           q == 2 * k
<1>1. From(d, a) = e /\ m \in Nat
  BY Reads DEF From, Slice
<1>2. e \in Bytes /\ Len(e) = m - a
  <2>1. m <= Len(d)
    BY <1>1
  <2> HIDE DEF m
  <2> QED  BY <1>1, <2>1, SliceIs DEF m
<1>3. k \in Nat /\ q <= Len(e) /\ Pairs(U16s(e, n)) = Slice(e, 0, q)
  <2> HIDE DEF e
  <2> QED  BY <1>2, PairsBack
<1>4. q \in Nat /\ a + 0 = a /\ a + q \in Nat /\ a <= a + q /\ a + q <= m /\ q <= m - a /\ m <= m
  <2> HIDE DEF k
  <2> QED  BY <1>1, <1>2, <1>3
<1>5. Slice(e, 0, q) = Slice(d, a, a + q)
  <2>1. Slice(Slice(d, a, m), 0, q) = Slice(d, a + 0, a + q)
    <3> HIDE DEF q, m
    <3> QED  BY <1>1, <1>4, SliceSlice DEF m
  <2> QED  BY <1>4, <2>1
<1> HIDE DEF q, e
<1>6. Behind(d, a, Slice(d, a, a + q))
  <2> DEFINE b == a + q
  <2>1. b \in Nat /\ a <= b /\ b <= Len(d)
    BY <1>4
  <2> HIDE DEF b
  <2>2. Behind(d, a, Slice(d, a, b))
    BY <2>1, SliceBehind
  <2> QED  BY <2>2 DEF b
<1> QED  BY <1>1, <1>3, <1>5, <1>6

\* Every entry of a run is a slice of its size.
EntryAt(d, start, end, size, entry, p) ==
  /\ p \in Nat /\ start <= p /\ size[p] \in Nat \ {0} /\ p + size[p] <= end
  /\ entry = Slice(d, p, p + size[p])

LEMMA EntriesOf ==
  ASSUME NEW d \in Bytes, NEW start \in Nat, NEW end \in Nat, start <= end, end <= Len(d),
         NEW size, Sized(end, size)
  PROVE  LET got == Entries(d, start, end, size)
         IN  /\ got \in Seq(Bytes)
             /\ \A i \in 1 .. Len(got) : \E p : EntryAt(d, start, end, size, got[i], p)
<1> DEFINE run == Run(d, start, end, size)
           got == run.got
           n == Len(got)
<1>1. got \in Seq(Bytes)
  BY RunIsWhole
<1>2. PICK mark : CutRun(d, start, end, size, run, mark)
  BY RunCut
<1>3. /\ \A i \in 0 .. n : mark[i] \in Nat
      /\ \A i \in 1 .. n : mark[i - 1] <= mark[i] /\ got[i] = Slice(d, mark[i - 1], mark[i])
      /\ \A i \in 1 .. n : /\ size[mark[i - 1]] \in Nat \ {0}
                           /\ mark[i] = mark[i - 1] + size[mark[i - 1]] /\ mark[i] <= end
      /\ mark[0] = start
  BY <1>2 DEF CutRun, Cut
<1>4. n \in Nat
  BY <1>1, LenProperties
<1> HIDE DEF n, run
<1> DEFINE T == {i \in Nat : i <= n => start <= mark[i]}
<1>5. 0 \in T
  BY <1>3
<1>6. ASSUME NEW i \in Nat, i \in T PROVE i + 1 \in T
  <2> SUFFICES ASSUME i + 1 <= n PROVE start <= mark[i + 1]
    OBVIOUS
  <2>1. i \in 0 .. n /\ i + 1 \in 0 .. n /\ i + 1 \in 1 .. n /\ (i + 1) - 1 = i
    BY <1>4
  <2>2. mark[i] \in Nat /\ mark[i + 1] \in Nat /\ mark[i] <= mark[i + 1] /\ start <= mark[i]
    BY <1>3, <1>6, <2>1
  <2> QED  BY <2>2
<1> HIDE DEF T
<1>7. Nat \subseteq T
  BY <1>5, <1>6, SetInduction
<1>8. ASSUME NEW i \in 1 .. n PROVE EntryAt(d, start, end, size, got[i], mark[i - 1])
  <2>1. i - 1 \in Nat /\ i - 1 \in 0 .. n /\ i - 1 <= n
    BY <1>4
  <2>2. start <= mark[i - 1] /\ mark[i - 1] \in Nat
    BY <1>3, <1>7, <2>1 DEF T
  <2>3. /\ got[i] = Slice(d, mark[i - 1], mark[i]) /\ size[mark[i - 1]] \in Nat \ {0}
        /\ mark[i] = mark[i - 1] + size[mark[i - 1]] /\ mark[i] <= end
    BY <1>3
  <2> HIDE DEF got
  <2> QED  BY <2>2, <2>3 DEF EntryAt
<1>9. \A i \in 1 .. n : \E p : EntryAt(d, start, end, size, got[i], p)
  BY <1>8
<1>10. Entries(d, start, end, size) = got
  BY DEF Entries, run
<1> HIDE DEF got
<1> QED  BY <1>1, <1>9, <1>10 DEF n

\* The sizes of entries that begin with their length.
LEMMA AlpnSizes ==
  ASSUME NEW d \in Bytes
  PROVE  /\ Sized(Len(d), AlpnSize(d))
         /\ \A p \in 0 .. Len(d) - 1 : AlpnSize(d)[p] = 1 + At(d, p) /\ At(d, p) \in Nat
<1>1. ASSUME NEW p \in 0 .. Len(d) - 1
      PROVE  AlpnSize(d)[p] = 1 + At(d, p) /\ At(d, p) \in Nat
  BY Reads DEF AlpnSize
<1>2. ASSUME NEW p \in 0 .. Len(d) - 1 PROVE AlpnSize(d)[p] \in Nat \ {0}
  <2>1. AlpnSize(d)[p] = 1 + At(d, p) /\ At(d, p) \in Nat
    BY <1>1
  <2> QED  BY <2>1
<1> QED  BY <1>1, <1>2 DEF Sized

\* parse_alpn.
LEMMA AlpnBack ==
  ASSUME NEW d \in Bytes
  PROVE  /\ Behind(d, 2, Coded(Alpn(d))) \/ Len(d) < 2
         /\ LET rest == From(d, 2 + Len(Coded(Alpn(d))))
            IN  rest # << >> => Len(rest) < 1 + Head(rest)
<1> DEFINE m == Len(d)
           run == Run(d, 2, m, AlpnSize(d))
           es == run.got
           vs == Alpn(d)
           g == [i \in DOMAIN vs |-> <<Len(vs[i])>> \o vs[i]]
<1>1. m \in Nat
  BY Reads
<1>2. Coded(vs) = FlattenSeq(g)
  BY Zenon DEF Coded
<1>3. CASE m < 2
  <2>1. vs = << >>
    BY <1>3, Zenon DEF Alpn
  <2>2. DOMAIN vs = {}
    BY <2>1
  <2>3. g = << >>
    <3> HIDE DEF vs
    <3> QED  BY <2>2
  <2>4. FlattenSeq(g) = << >>
    <3> HIDE DEF g
    <3> QED  BY <2>3 DEF FlattenSeq
  <2>5. Len(Coded(vs)) = 0
    BY <1>2, <2>4
  <2>6. From(d, 2 + Len(Coded(vs))) = << >>
    <3>1. (2 + Len(Coded(vs))) + 1 = 3
      BY <2>5
    <3>2. SubSeq(d, 3, m) = << >>
      BY <1>1, <1>3, SubSeqEmpty
    <3> QED  BY <3>1, <3>2 DEF From
  <2> QED  BY <1>3, <2>6
<1>4. CASE ~(m < 2)
  <2>1. /\ 2 \in Nat /\ 2 <= m /\ m <= Len(d) /\ Sized(m, AlpnSize(d))
        /\ \A p \in 0 .. m - 1 : AlpnSize(d)[p] = 1 + At(d, p) /\ At(d, p) \in Nat
    BY <1>1, <1>4, AlpnSizes
  <2>2. /\ run.at \in Nat /\ 2 <= run.at /\ run.at <= m
        /\ FlattenSeq(es) = Slice(d, 2, run.at) /\ es \in Seq(Bytes)
        /\ Entries(d, 2, m, AlpnSize(d)) = es
        /\ ~Whole(m, AlpnSize(d), run)
        /\ \A i \in 1 .. Len(es) : \E p : EntryAt(d, 2, m, AlpnSize(d), es[i], p)
    <3> HIDE DEF m
    <3>1. /\ Run(d, 2, m, AlpnSize(d)).at \in Nat /\ 2 <= run.at /\ run.at <= m
          /\ FlattenSeq(es) = Slice(d, 2, run.at) /\ es \in Seq(Bytes)
      BY <1>1, <2>1, RunIsWhole
    <3>2. ~Whole(m, AlpnSize(d), run)
      BY <1>1, <2>1, RunEnds
    <3>3. Entries(d, 2, m, AlpnSize(d)) = es
      BY DEF Entries
    <3>4. \A i \in 1 .. Len(es) : \E p : EntryAt(d, 2, m, AlpnSize(d), es[i], p)
      BY <1>1, <2>1, <3>3, EntriesOf
    <3> QED  BY <3>1, <3>2, <3>3, <3>4
  <2>3. vs = [i \in DOMAIN es |-> Tail(es[i])]
    BY <1>4, <2>2, Zenon DEF Alpn
  <2>4. DOMAIN es = 1 .. Len(es) /\ Len(es) \in Nat
    BY <2>2, LenProperties
  <2> HIDE DEF run, vs, m
  <2> DEFINE a == run.at
  <2>5. ASSUME NEW i \in 1 .. Len(es) PROVE <<Len(Tail(es[i]))>> \o Tail(es[i]) = es[i]
    <3>1. PICK p : EntryAt(d, 2, m, AlpnSize(d), es[i], p)
      BY <2>2
    <3> DEFINE q == p + AlpnSize(d)[p]
    <3>2. /\ p \in Nat /\ AlpnSize(d)[p] \in Nat \ {0} /\ q <= m /\ es[i] = Slice(d, p, q)
      BY <3>1 DEF EntryAt
    <3>3. p \in 0 .. m - 1 /\ q \in Nat /\ p < q
      BY <1>1, <3>2
    <3>4. q = p + (1 + At(d, p)) /\ At(d, p) \in Nat
      BY <2>1, <3>3
    <3> HIDE DEF q
    <3>5. /\ Tail(Slice(d, p, q)) = Slice(d, p + 1, q)
          /\ Len(Slice(d, p + 1, q)) = q - (p + 1)
          /\ <<At(d, p)>> \o Slice(d, p + 1, q) = Slice(d, p, q)
      BY <3>2, <3>3, SlicePrefixed DEF m
    <3>6. q - (p + 1) = At(d, p)
      BY <3>2, <3>3, <3>4
    <3> QED  BY <3>2, <3>5, <3>6
  <2>6. g = es
    <3>1. DOMAIN vs = 1 .. Len(es) /\ \A i \in 1 .. Len(es) : vs[i] = Tail(es[i])
      BY <2>3, <2>4
    <3>2. ASSUME NEW i \in 1 .. Len(es) PROVE g[i] = es[i]
      BY <2>5, <3>1
    <3>3. g = [i \in 1 .. Len(es) |-> g[i]]
      BY <3>1
    <3>4. es = [i \in 1 .. Len(es) |-> es[i]]
      BY <2>2, <2>4, LenProperties
    <3> HIDE DEF g, es
    <3>5. [i \in 1 .. Len(es) |-> g[i]] = [i \in 1 .. Len(es) |-> es[i]]
      BY <3>2, Zenon
    <3> QED  BY <3>3, <3>4, <3>5
  <2>7. Coded(vs) = Slice(d, 2, a)
    BY <1>2, <2>2, <2>6
  <2>8. Len(Slice(d, 2, a)) = a - 2 /\ Behind(d, 2, Slice(d, 2, a))
    BY <1>1, <2>1, <2>2, SliceIs, SliceBehind DEF m
  <2>9. From(d, 2 + Len(Coded(vs))) = Slice(d, a, m)
    <3>1. (2 + Len(Coded(vs))) + 1 = a + 1
      BY <2>2, <2>7, <2>8
    <3> QED  BY <3>1 DEF From, Slice, m
  <2>10. ASSUME Slice(d, a, m) # << >>
         PROVE  Len(Slice(d, a, m)) < 1 + Head(Slice(d, a, m))
    <3>1. a # m
      <4>1. a = m => Slice(d, a, m) = << >>
        BY <2>1, <2>2, NothingIsCut DEF m
      <4> QED  BY <2>10, <4>1
    <3>2. a < m /\ a \in 0 .. m - 1
      BY <1>1, <2>2, <3>1
    <3>3. AlpnSize(d)[a] = 1 + At(d, a) /\ At(d, a) \in Nat
      BY <2>1, <3>2
    <3>4. ~(a + AlpnSize(d)[a] <= m)
      <4>1. AlpnSize(d)[a] # Nothing
        <5>1. 1 + At(d, a) \in Nat
          BY <3>3
        <5> QED  BY <3>3, <5>1, ParsersAssumption
      <4> QED  BY <2>2, <3>2, <4>1 DEF Whole
    <3>5. Len(Slice(d, a, m)) = m - a /\ Head(Slice(d, a, m)) = At(d, a)
      BY <1>1, <2>1, <2>2, <3>2, SliceIs, SlicePrefixed DEF m
    <3> HIDE DEF a
    <3> QED  BY <1>1, <2>2, <3>2, <3>3, <3>4, <3>5 DEF a
  <2> QED  BY <2>7, <2>8, <2>9, <2>10 DEF vs
<1> QED  BY <1>3, <1>4

\* parse_sni.
LEMMA SniSizes ==
  ASSUME NEW d \in Bytes
  PROVE  /\ Sized(Len(d), SniSize(d))
         /\ \A p \in Nat : SniSize(d)[p] # Nothing =>
              p + 3 <= Len(d) /\ SniSize(d)[p] = 3 + U16(d, p + 1) /\ U16(d, p + 1) \in Nat
<1>1. Len(d) \in Nat /\ \A i \in 0 .. Len(d) - 2 : U16(d, i) \in Nat
  BY Reads
<1>2. ASSUME NEW p \in Nat
      PROVE  /\ SniSize(d)[p] = IF p + 3 > Len(d) THEN Nothing ELSE 3 + U16(d, p + 1)
             /\ ~(p + 3 > Len(d)) => p + 1 \in 0 .. Len(d) - 2 /\ U16(d, p + 1) \in Nat
  <2>1. ~(p + 3 > Len(d)) => p + 1 \in 0 .. Len(d) - 2
    BY <1>1
  <2> QED  BY <1>1, <2>1 DEF SniSize
<1>3. ASSUME NEW p \in Nat, SniSize(d)[p] # Nothing
      PROVE  p + 3 <= Len(d) /\ SniSize(d)[p] = 3 + U16(d, p + 1) /\ U16(d, p + 1) \in Nat
  <2>1. ~(p + 3 > Len(d))
    BY <1>2, <1>3
  <2>2. SniSize(d)[p] = 3 + U16(d, p + 1) /\ U16(d, p + 1) \in Nat
    BY <1>2, <2>1
  <2> QED  BY <1>1, <2>1, <2>2
<1>4. ASSUME NEW p \in 0 .. Len(d) - 1, SniSize(d)[p] # Nothing
      PROVE  SniSize(d)[p] \in Nat \ {0}
  <2>1. SniSize(d)[p] = 3 + U16(d, p + 1) /\ U16(d, p + 1) \in Nat
    BY <1>3, <1>4
  <2> QED  BY <2>1
<1> QED  BY <1>3, <1>4 DEF Sized

LEMMA ThreeBytes ==
  ASSUME NEW d \in Bytes, NEW p \in Nat, p + 3 <= Len(d)
  PROVE  Slice(d, p, p + 3) = <<At(d, p), At(d, p + 1), At(d, p + 2)>>
<1> DEFINE s == Slice(d, p, p + 3)
           t == <<At(d, p), At(d, p + 1), At(d, p + 2)>>
<1>1. /\ Len(d) \in Nat /\ p \in 0 .. Len(d) - 1 /\ p + 1 \in 0 .. Len(d) - 1
      /\ p + 2 \in 0 .. Len(d) - 1
  BY Reads
<1>2. s \in Seq(Byte) /\ Len(s) = 3 /\ \A i \in 1 .. 3 : s[i] = d[p + i]
  <2> DEFINE q == p + 3
  <2>1. q \in Nat /\ p <= q /\ q <= Len(d) /\ q - p = 3
    BY <1>1
  <2> HIDE DEF q
  <2>2. /\ Slice(d, p, q) \in Bytes /\ Len(Slice(d, p, q)) = q - p
        /\ \A i \in 1 .. q - p : Slice(d, p, q)[i] = d[p + i]
    BY <2>1, SliceIs
  <2> QED  BY <2>1, <2>2 DEF Bytes, q
<1>3. t \in Seq(Byte) /\ Len(t) = 3
  BY <1>1, Reads
<1>4. t[1] = d[p + 1] /\ t[2] = d[p + 2] /\ t[3] = d[p + 3]
  <2>1. (p + 1) + 1 = p + 2 /\ (p + 2) + 1 = p + 3
    OBVIOUS
  <2> QED  BY <2>1 DEF At
<1>5. \A i \in 1 .. 3 : t[i] = s[i]
  <2> HIDE DEF t, s
  <2>1. \A i \in 1 .. 3 : i = 1 \/ i = 2 \/ i = 3
    OBVIOUS
  <2> QED  BY <1>2, <1>4, <2>1
<1> QED  BY <1>2, <1>3, <1>5, SeqEqual

LEMMA SniBack ==
  ASSUME NEW d \in Bytes, Sni(d) # Nothing
  PROVE  \E p \in 2 .. Len(d) :
           Behind(d, p, <<0, Len(Sni(d)) \div 256, Len(Sni(d)) % 256>> \o Sni(d))
<1> DEFINE m == Len(d)
           es == Entries(d, 2, m, SniSize(d))
           hosts == {i \in DOMAIN es : At(es[i], 0) = 0}
           k == Min(hosts)
           name == Sni(d)
<1>1. m \in Nat
  BY Reads
<1>2. ~(m < 5) /\ hosts # {} /\ name = From(es[k], 3)
  <2>1. name = IF m < 5 \/ hosts = {} THEN Nothing ELSE From(es[k], 3)
    BY Zenon DEF Sni
  <2> HIDE DEF hosts, name, m, k
  <2>2. name # Nothing
    BY DEF name
  <2> QED  BY <2>1, <2>2
<1>3. /\ es \in Seq(Bytes)
      /\ \A i \in 1 .. Len(es) : \E p : EntryAt(d, 2, m, SniSize(d), es[i], p)
  <2>1. 2 <= m /\ m <= Len(d) /\ Sized(m, SniSize(d))
    BY <1>1, <1>2, SniSizes
  <2> HIDE DEF m
  <2> QED  BY <1>1, <2>1, EntriesOf
<1> HIDE DEF es, m
<1>4. k \in 1 .. Len(es) /\ At(es[k], 0) = 0
  <2>1. DOMAIN es = 1 .. Len(es)
    BY <1>3, LenProperties
  <2>2. hosts \subseteq Nat
    BY <2>1
  <2>3. k \in hosts
    <3> HIDE DEF hosts
    <3> QED  BY <1>2, <2>2, MinIs
  <2> HIDE DEF k
  <2> QED  BY <2>1, <2>3
<1>5. PICK p : EntryAt(d, 2, m, SniSize(d), es[k], p)
  BY <1>3, <1>4
<1> DEFINE x == At(d, p + 1)
           y == At(d, p + 2)
           q == p + (3 + (256 * x + y))
           r == p + 3
<1>6. /\ p \in Nat /\ 2 <= p /\ es[k] = Slice(d, p, q) /\ q <= m /\ r <= m
      /\ 256 * x + y \in Nat
  <2>1. /\ p \in Nat /\ 2 <= p /\ SniSize(d)[p] \in Nat \ {0} /\ p + SniSize(d)[p] <= m
        /\ es[k] = Slice(d, p, p + SniSize(d)[p])
    BY <1>5 DEF EntryAt
  <2>2. SniSize(d)[p] # Nothing
    BY <2>1, ParsersAssumption
  <2>3. SniSize(d)[p] = 3 + U16(d, p + 1) /\ U16(d, p + 1) \in Nat /\ r <= m
    BY <2>1, <2>2, SniSizes DEF m
  <2>4. U16(d, p + 1) = 256 * x + y
    <3>1. (p + 1) + 1 = p + 2
      BY <2>1
    <3> QED  BY <3>1 DEF U16
  <2> QED  BY <2>1, <2>3, <2>4
<1> HIDE DEF k, name
<1>7. x \in 0 .. 255 /\ y \in 0 .. 255
  <2>1. p + 1 \in 0 .. m - 1 /\ p + 2 \in 0 .. m - 1
    BY <1>1, <1>6
  <2> QED  BY <2>1, Reads DEF m, Byte
<1>8. At(d, p) = 0
  <2>1. q \in Nat /\ p <= q /\ q <= Len(d) /\ 0 \in 0 .. (q - p) - 1 /\ p + 0 = p
    BY <1>1, <1>6 DEF m
  <2> HIDE DEF q
  <2>2. At(Slice(d, p, q), 0) = At(d, p + 0)
    BY <1>6, <2>1, SliceReads
  <2> QED  BY <1>4, <1>6, <2>1, <2>2
<1> HIDE DEF x, y
<1>9. /\ q \in Nat /\ r \in Nat /\ p <= r /\ r <= q /\ p <= q
      /\ q - r = 256 * x + y /\ q - p = 3 + (256 * x + y)
  BY <1>6
<1>10. name = Slice(d, r, q) /\ Len(name) = 256 * x + y
  <2> DEFINE n == q - p
             s == Slice(d, p, q)
  <2> HIDE DEF q
  <2>1. Len(s) = n
    BY <1>6, <1>9, SliceIs DEF m
  <2>2. From(s, 3) = Slice(s, 3, n)
    BY <2>1 DEF From, Slice
  <2>3. Slice(s, 3, n) = Slice(d, p + 3, p + n)
    <3>1. n \in Nat /\ 3 <= n /\ n <= q - p /\ q <= Len(d) /\ p <= q
      BY <1>6, <1>9 DEF m
    <3> HIDE DEF n
    <3> QED  BY <1>6, <1>9, <3>1, SliceSlice
  <2>4. p + n = q
    BY <1>6, <1>9
  <2>5. name = Slice(d, r, q)
    BY <1>2, <1>6, <2>2, <2>3, <2>4
  <2>6. Len(Slice(d, r, q)) = q - r
    <3>1. r \in Nat /\ q \in Nat /\ r <= q /\ q <= Len(d)
      BY <1>6, <1>9 DEF m
    <3> HIDE DEF r
    <3> QED  BY <3>1, SliceIs
  <2> QED  BY <1>9, <2>5, <2>6
<1>11. Len(name) \div 256 = x /\ Len(name) % 256 = y
  <2> HIDE DEF q, r
  <2> QED  BY <1>7, <1>10
<1>12. <<0, x, y>> = Slice(d, p, r)
  BY <1>6, <1>8, ThreeBytes DEF x, y, m
<1> HIDE DEF q, r
<1>13. Slice(d, p, r) \o Slice(d, r, q) = Slice(d, p, q)
  <2>1. p \in Nat /\ r \in Nat /\ q \in Nat /\ p <= r /\ r <= q /\ q <= Len(d)
    BY <1>6, <1>9 DEF m
  <2> QED  BY <2>1, SlicesJoin
<1>14. Behind(d, p, Slice(d, p, q))
  BY <1>6, <1>9, SliceBehind DEF m
<1>15. p \in 2 .. Len(d)
  BY <1>1, <1>6, <1>9 DEF m
<1>16. <<0, Len(name) \div 256, Len(name) % 256>> \o name = Slice(d, p, q)
  BY <1>10, <1>11, <1>12, <1>13
<1> QED  BY <1>14, <1>15, <1>16 DEF name

\* count_certs.
LEMMA CertSizes ==
  ASSUME NEW d \in Bytes
  PROVE  Sized(Len(d), CertSize(d))
<1> SUFFICES ASSUME NEW p \in 0 .. Len(d) - 1, CertSize(d)[p] # Nothing
             PROVE  CertSize(d)[p] \in Nat \ {0}
  BY DEF Sized
<1>1. Len(d) \in Nat /\ p \in Nat /\ \A i \in 0 .. Len(d) - 3 : U24(d, i) \in Nat
  BY Reads
<1>2. CertSize(d)[p] = IF p + 3 > Len(d) THEN Nothing ELSE 3 + U24(d, p)
  BY <1>1 DEF CertSize
<1>3. p \in 0 .. Len(d) - 3 /\ CertSize(d)[p] = 3 + U24(d, p)
  BY <1>1, <1>2
<1> QED  BY <1>1, <1>3

LEMMA CertsBack ==
  ASSUME NEW d \in Bytes, Len(d) >= 3
  PROVE  Len(FlattenSeq(Certs(d))) <= U24(d, 0)
<1> DEFINE m == Len(d)
           u == U24(d, 0)
           b == CertEnd(d)
           s == Slice(d, 0, b)
           run == Run(s, 3, b, CertSize(s))
<1>1. m \in Nat /\ u \in Nat
  <2>1. m \in Nat /\ 0 \in 0 .. m - 3
    BY Reads
  <2> QED  BY <2>1, Reads
<1>2. b \in Nat /\ 3 <= b /\ b <= m /\ b <= 3 + u
  <2> HIDE DEF m, u
  <2>1. m >= 3
    BY DEF m
  <2> QED  BY <1>1, <2>1 DEF CertEnd, Least, m, u
<1> HIDE DEF b
<1>3. s \in Bytes /\ Len(s) = b
  <2>1. s \in Bytes /\ Len(s) = b - 0
    BY <1>2, SliceIs
  <2> HIDE DEF s
  <2> QED  BY <1>2, <2>1
<1> HIDE DEF s
<1>4. Certs(d) = run.got
  <2>1. ~(m < 3)
    BY <1>1
  <2> QED  BY <2>1, Zenon DEF Certs, Entries, s, b
<1>5. /\ run.at \in Nat /\ 3 <= run.at /\ run.at <= b
      /\ FlattenSeq(run.got) = Slice(s, 3, run.at)
  <2>1. Sized(b, CertSize(s)) /\ 3 \in Nat /\ b <= Len(s)
    BY <1>2, <1>3, CertSizes
  <2> QED  BY <1>2, <1>3, <2>1, RunIsWhole
<1> DEFINE a == run.at
<1>6. Len(Slice(s, 3, a)) = a - 3
  <2> HIDE DEF run
  <2> QED  BY <1>3, <1>5, SliceIs
<1> HIDE DEF run, u
<1>7. a - 3 <= u
  BY <1>1, <1>2, <1>5
<1> QED  BY <1>4, <1>5, <1>6, <1>7 DEF u

\* parse_extensions.
LEMMA ExtSizes ==
  ASSUME NEW d \in Bytes
  PROVE  Sized(Len(d), ExtSize(d))
<1> SUFFICES ASSUME NEW p \in 0 .. Len(d) - 1, ExtSize(d)[p] # Nothing
             PROVE  ExtSize(d)[p] \in Nat \ {0}
  BY DEF Sized
<1>1. Len(d) \in Nat /\ p \in Nat /\ \A i \in 0 .. Len(d) - 2 : U16(d, i) \in Nat
  BY Reads
<1>2. ExtSize(d)[p] = IF p + 4 > Len(d) THEN Nothing ELSE 4 + U16(d, p + 2)
  BY <1>1 DEF ExtSize
<1>3. p + 2 \in 0 .. Len(d) - 2 /\ ExtSize(d)[p] = 4 + U16(d, p + 2)
  BY <1>1, <1>2
<1> QED  BY <1>1, <1>3

LEMMA ExtensionsAre ==
  ASSUME NEW d \in Bytes
  PROVE  /\ Extensions(d) \in Seq(Bytes)
         /\ \E n \in Nat : n <= Len(d) /\ FlattenSeq(Extensions(d)) = Slice(d, 0, n)
<1> DEFINE m == Len(d)
           run == Run(d, 0, m, ExtSize(d))
<1>1. m \in Nat /\ 0 <= m /\ m <= Len(d) /\ 0 \in Nat /\ Sized(m, ExtSize(d))
  BY Reads, ExtSizes
<1>2. Extensions(d) = run.got
  BY Zenon DEF Extensions, Entries
<1>3. /\ run.at \in Nat /\ run.at <= m /\ run.got \in Seq(Bytes)
      /\ FlattenSeq(run.got) = Slice(d, 0, run.at)
  <2> HIDE DEF m
  <2> QED  BY <1>1, RunIsWhole
<1> HIDE DEF run
<1> QED  BY <1>2, <1>3

LEMMA ExtensionsBehind ==
  ASSUME NEW d \in Bytes, NEW a \in Nat, NEW b \in Nat, a <= b, b <= Len(d)
  PROVE  Behind(d, a, FlattenSeq(Extensions(Slice(d, a, b))))
<1> DEFINE e == Slice(d, a, b)
<1>1. e \in Bytes /\ Len(e) = b - a
  BY SliceIs
<1>2. PICK n \in Nat : n <= Len(e) /\ FlattenSeq(Extensions(e)) = Slice(e, 0, n)
  <2> HIDE DEF e
  <2> QED  BY <1>1, ExtensionsAre
<1> DEFINE c == a + n
<1>3. n <= b - a /\ c \in Nat /\ a <= c /\ c <= Len(d) /\ a + 0 = a /\ 0 <= n
  <2>1. Len(d) \in Nat
    BY Reads
  <2> HIDE DEF e
  <2> QED  BY <1>1, <1>2, <2>1
<1>4. Slice(e, 0, n) = Slice(d, a + 0, c)
  BY <1>3, SliceSlice
<1> HIDE DEF c, e
<1>5. Behind(d, a, Slice(d, a, c))
  BY <1>3, SliceBehind
<1> QED  BY <1>2, <1>3, <1>4, <1>5 DEF e

LEMMA FromBytes ==
  ASSUME NEW d \in Bytes, NEW k \in Nat
  PROVE  From(d, k) \in Bytes
<1>1. Len(d) \in Nat /\ \A i \in 1 .. Len(d) : d[i] \in Byte
  BY LenProperties, ElementOfSeq DEF Bytes
<1>2. k + 1 \in Int /\ Len(d) \in Int /\ \A i \in k + 1 .. Len(d) : d[i] \in Byte
  BY <1>1
<1>3. SubSeq(d, k + 1, Len(d)) \in Seq(Byte)
  BY <1>2, SubSeqProperties
<1> QED  BY <1>3 DEF From, Bytes

LEMMA ExtOfBytes ==
  ASSUME NEW es \in Seq(Bytes), NEW type
  PROVE  ExtOf(es, type) \in Bytes
<1> DEFINE of == {i \in DOMAIN es : ExtType(es[i]) = type}
<1>1. ExtOf(es, type) = IF of = {} THEN << >> ELSE From(es[Max(of)], 4)
  BY Zenon DEF ExtOf
<1>2. << >> \in Bytes
  BY EmptySeq DEF Bytes
<1>3. ASSUME of # {} PROVE From(es[Max(of)], 4) \in Bytes
  <2>1. DOMAIN es = 1 .. Len(es) /\ Len(es) \in Nat
    BY LenProperties
  <2>2. of \subseteq 1 .. Len(es)
    BY <2>1
  <2>3. Max(of) \in of
    <3> HIDE DEF of
    <3>1. of \subseteq 0 .. Len(es)
      BY <2>1, <2>2
    <3> QED  BY <1>3, <2>1, <3>1, MaxIs
  <2> DEFINE k == Max(of)
  <2>4. k \in 1 .. Len(es)
    BY <2>2, <2>3
  <2> HIDE DEF k
  <2>5. es[k] \in Bytes
    BY <2>4, ElementOfSeq
  <2> QED  BY <2>5, FromBytes DEF k
<1> QED  BY <1>1, <1>2, <1>3

\* The lists inside an extension.
LEMMA ListsBack ==
  ASSUME NEW e \in Bytes
  PROVE  /\ Behind(e, 2, Pairs(List2(e))) \/ List2(e) = << >>
         /\ Behind(e, 1, Pairs(List1(e))) \/ List1(e) = << >>
         /\ Behind(e, 1, Bytes1(e)) \/ Bytes1(e) = << >>
<1> DEFINE m == Len(e)
<1>1. m \in Nat
  BY Reads
<1>2. ASSUME m < 2 PROVE List2(e) = << >>
  BY <1>2, Zenon DEF List2
<1>3. ASSUME ~(m < 2) PROVE Behind(e, 2, Pairs(List2(e)))
  <2>1. 0 \in 0 .. m - 2 /\ 2 <= Len(e)
    BY <1>1, <1>3
  <2> DEFINE n == U16(e, 0)
  <2>2. n \in Nat
    BY <2>1, Reads
  <2>3. List2(e) = U16s(From(e, 2), n)
    BY <1>3, Zenon DEF List2
  <2> HIDE DEF n
  <2>4. Behind(e, 2, Pairs(U16s(From(e, 2), n)))
    BY <2>1, <2>2, PairsBehind
  <2> QED  BY <2>3, <2>4
<1>4. ASSUME e = << >> PROVE List1(e) = << >> /\ Bytes1(e) = << >>
  BY <1>4, Zenon DEF List1, Bytes1
<1>5. ASSUME e # << >>
      PROVE  Behind(e, 1, Pairs(List1(e))) /\ Behind(e, 1, Bytes1(e))
  <2> DEFINE n == At(e, 0)
             b == Least(1 + n, m)
  <2>1. 0 \in 0 .. m - 1 /\ 1 <= Len(e)
    BY <1>1, <1>5, EmptySeq DEF Bytes
  <2>2. n \in Nat
    BY <2>1, Reads
  <2>3. List1(e) = U16s(From(e, 1), n) /\ Bytes1(e) = Slice(e, 1, b)
    BY <1>5, Zenon DEF List1, Bytes1
  <2> HIDE DEF n
  <2>4. Behind(e, 1, Pairs(U16s(From(e, 1), n)))
    BY <2>1, <2>2, PairsBehind
  <2>5. b \in Nat /\ 1 <= b /\ b <= Len(e)
    BY <1>1, <2>1, <2>2 DEF Least
  <2> HIDE DEF b
  <2>6. Behind(e, 1, Slice(e, 1, b))
    BY <2>5, SliceBehind
  <2> QED  BY <2>3, <2>4, <2>6
<1> QED  BY <1>2, <1>3, <1>4, <1>5

LEMMA ExtensionsBack ==
  ASSUME NEW d \in Bytes
  PROVE  /\ Behind(d, 0, FlattenSeq(Extensions(d)))
         /\ LET x == ExtData(Extensions(d))
            IN  /\ Behind(ExtOf(Extensions(d), 10), 2, Pairs(x.groups)) \/ x.groups = << >>
                /\ Behind(ExtOf(Extensions(d), 43), 1, Pairs(x.versions)) \/ x.versions = << >>
                /\ Behind(ExtOf(Extensions(d), 11), 1, x.formats) \/ x.formats = << >>
<1> DEFINE es == Extensions(d)
           x == ExtData(es)
<1>1. es \in Seq(Bytes)
  BY ExtensionsAre
<1>2. PICK n \in Nat : n <= Len(d) /\ FlattenSeq(es) = Slice(d, 0, n)
  BY ExtensionsAre
<1>3. Behind(d, 0, Slice(d, 0, n))
  BY <1>2, SliceBehind
<1>4. /\ x.groups = List2(ExtOf(es, 10)) /\ x.versions = List1(ExtOf(es, 43))
      /\ x.formats = Bytes1(ExtOf(es, 11))
  BY DEF ExtData
<1> HIDE DEF es, x
<1>5. ExtOf(es, 10) \in Bytes /\ ExtOf(es, 43) \in Bytes /\ ExtOf(es, 11) \in Bytes
  BY <1>1, ExtOfBytes
<1>6. /\ Behind(ExtOf(es, 10), 2, Pairs(x.groups)) \/ x.groups = << >>
      /\ Behind(ExtOf(es, 43), 1, Pairs(x.versions)) \/ x.versions = << >>
      /\ Behind(ExtOf(es, 11), 1, x.formats) \/ x.formats = << >>
  BY <1>4, <1>5, ListsBack
<1> QED  BY <1>2, <1>3, <1>6 DEF es, x

\* The ciphers and extensions of a hello.
LEMMA FlattenNone == FlattenSeq(<< >>) = << >>
  BY DEF FlattenSeq

LEMMA BehindNothing ==
  ASSUME NEW d \in Bytes, NEW a \in Nat, a <= Len(d)
  PROVE  Behind(d, a, << >>)
<1>1. Slice(d, a, a) = << >> /\ Behind(d, a, Slice(d, a, a))
  BY NothingIsCut, SliceBehind
<1> QED  BY <1>1

\* Extensions behind a length of two bytes, as far as they are there.
Tailed(d, x) ==
  IF x + 2 > Len(d) THEN << >>
  ELSE Extensions(Slice(d, x + 2, Least(x + 2 + U16(d, x), Len(d))))

LEMMA TailedBack ==
  ASSUME NEW d \in Bytes, NEW x \in Nat, 37 <= x, 37 <= Len(d)
  PROVE  \E p \in 37 .. Len(d) : Behind(d, p, FlattenSeq(Tailed(d, x)))
<1> DEFINE m == Len(d)
           u == U16(d, x)
           a == x + 2
           b == Least(a + u, m)
<1>1. m \in Nat
  BY Reads
<1>2. CASE a > m
  <2>1. FlattenSeq(Tailed(d, x)) = << >>
    BY <1>2, FlattenNone DEF Tailed
  <2>2. Behind(d, 37, << >>) /\ 37 \in 37 .. m
    BY <1>1, BehindNothing
  <2> QED  BY <2>1, <2>2
<1>3. CASE ~(a > m)
  <2>1. x \in 0 .. m - 2
    BY <1>1, <1>3
  <2>2. u \in Nat
    BY <2>1, Reads
  <2>3. Tailed(d, x) = Extensions(Slice(d, a, b))
    BY <1>3, Zenon DEF Tailed
  <2> HIDE DEF u, m
  <2>4. a \in Nat /\ b \in Nat /\ a <= b /\ b <= m /\ a \in 37 .. m
    BY <1>1, <1>3, <2>2 DEF Least
  <2> HIDE DEF a, b
  <2>5. Behind(d, a, FlattenSeq(Extensions(Slice(d, a, b))))
    BY <2>4, ExtensionsBehind DEF m
  <2> QED  BY <2>3, <2>4, <2>5 DEF m
<1> QED  BY <1>2, <1>3

LEMMA HelloBack ==
  ASSUME NEW d \in Bytes, ClientHello(d) # Minimal
  PROVE  LET c == ClientHello(d)
         IN  /\ Behind(d, 37 + At(d, 34), Pairs(c.ciphers))
             /\ \E p \in 37 .. Len(d) : Behind(d, p, FlattenSeq(c.extensions))
             /\ \E p \in 37 .. Len(d) : Behind(d, p, FlattenSeq(ServerHello(d).extensions))
<1> DEFINE m == Len(d)
           s == At(d, 34)
           p == 35 + s
           u == U16(d, p)
           c == p + 2 + u
           x == c + 1 + At(d, c)
           hello == [ciphers |-> U16s(From(d, p + 2), u), extensions |-> Tailed(d, x)]
<1>1. m \in Nat
  BY Reads
<1>2. /\ ~(m < 35) /\ ~(p + 2 > m) /\ ~(p + 2 + u > m) /\ ~(c >= m)
      /\ ClientHello(d) = hello
  <2>1. ClientHello(d) =
          IF m < 35 THEN Minimal
          ELSE IF p + 2 > m THEN Minimal
          ELSE IF p + 2 + u > m THEN Minimal
          ELSE IF c >= m THEN Minimal ELSE hello
    BY Zenon DEF ClientHello, Tailed
  <2> HIDE DEF hello, m, p, c, u
  <2> QED  BY <2>1
<1>3. s \in Nat
  <2>1. 34 \in 0 .. m - 1
    BY <1>1, <1>2
  <2> QED  BY <2>1, Reads
<1>4. u \in Nat
  <2>1. p \in 0 .. m - 2
    <3> HIDE DEF s, m, u, c, hello
    <3> QED  BY <1>1, <1>2, <1>3
  <2> HIDE DEF p
  <2> QED  BY <2>1, Reads DEF m
<1>5. At(d, c) \in Nat
  <2>1. c \in 0 .. m - 1
    <3> HIDE DEF s, m, u, hello
    <3> QED  BY <1>1, <1>2, <1>3, <1>4
  <2> HIDE DEF c
  <2> QED  BY <2>1, Reads DEF m
<1> DEFINE v == At(d, c)
           q == p + 2
           y == c + 1 + v
<1>6. /\ q \in Nat /\ q <= m /\ q = 37 + s /\ y \in Nat /\ 37 <= y /\ 37 <= m
      /\ p + 3 \in Nat /\ 37 <= p + 3
  <2>1. v \in Nat
    BY <1>5
  <2> HIDE DEF s, m, u, v, hello
  <2> QED  BY <1>1, <1>2, <1>3, <1>4, <2>1
<1>7. ClientHello(d) = [ciphers |-> U16s(From(d, q), u), extensions |-> Tailed(d, y)]
  BY <1>2
<1>8. Behind(d, q, Pairs(U16s(From(d, q), u)))
  <2> HIDE DEF q, u
  <2> QED  BY <1>4, <1>6, PairsBehind DEF m
<1>9. \E w \in 37 .. Len(d) : Behind(d, w, FlattenSeq(Tailed(d, y)))
  <2> HIDE DEF y
  <2> QED  BY <1>6, TailedBack DEF m
<1>10. \E w \in 37 .. Len(d) : Behind(d, w, FlattenSeq(ServerHello(d).extensions))
  <2> DEFINE z == p + 3
  <2>1. ServerHello(d).extensions =
          IF p + 5 > m THEN << >>
          ELSE Extensions(Slice(d, p + 5, Least(p + 5 + U16(d, p + 3), m)))
    <3>1. ServerHello(d) =
            [cipher     |-> U16(d, p),
             extensions |->
               IF p + 5 > m THEN << >>
               ELSE Extensions(Slice(d, p + 5, Least(p + 5 + U16(d, p + 3), m)))]
      BY <1>2, Zenon DEF ServerHello
    <3> QED  BY <3>1
  <2>2. p + 5 = z + 2 /\ p + 3 = z
    <3> HIDE DEF s
    <3> QED  BY <1>3
  <2>3. ServerHello(d).extensions = Tailed(d, z)
    <3> HIDE DEF z, p
    <3> QED  BY <2>1, <2>2 DEF Tailed
  <2>4. z \in Nat /\ 37 <= z /\ 37 <= Len(d)
    BY <1>6
  <2> HIDE DEF z
  <2>5. \E w \in 37 .. Len(d) : Behind(d, w, FlattenSeq(Tailed(d, z)))
    BY <2>4, TailedBack
  <2> QED  BY <2>3, <2>5
<1>11. /\ ClientHello(d).ciphers = U16s(From(d, q), u)
       /\ ClientHello(d).extensions = Tailed(d, y)
  BY <1>7
<1>12. q = 37 + At(d, 34)
  BY <1>6
<1> HIDE DEF q, u, y, p
<1> QED  BY <1>8, <1>9, <1>10, <1>11, <1>12

\* try_decode_http2.
LEMMA FrameSizes ==
  ASSUME NEW d \in Bytes
  PROVE  /\ Sized(Len(d), FrameSize(d))
         /\ \A p \in Nat : FrameSize(d)[p] # Nothing =>
              p + 9 <= Len(d) /\ FrameSize(d)[p] = 9 + U24(d, p) /\ U24(d, p) \in Nat
<1>1. Len(d) \in Nat /\ \A i \in 0 .. Len(d) - 3 : U24(d, i) \in Nat
  BY Reads
<1>2. ASSUME NEW p \in Nat, FrameSize(d)[p] # Nothing
      PROVE  p + 9 <= Len(d) /\ FrameSize(d)[p] = 9 + U24(d, p) /\ U24(d, p) \in Nat
  <2>1. FrameSize(d)[p] = IF p + 9 > Len(d) THEN Nothing ELSE 9 + U24(d, p)
    BY DEF FrameSize
  <2>2. ~(p + 9 > Len(d)) /\ FrameSize(d)[p] = 9 + U24(d, p)
    BY <1>2, <2>1
  <2>3. p \in 0 .. Len(d) - 3 /\ p + 9 <= Len(d)
    BY <1>1, <2>2
  <2> QED  BY <1>1, <2>2, <2>3
<1>3. ASSUME NEW p \in 0 .. Len(d) - 1, FrameSize(d)[p] # Nothing
      PROVE  FrameSize(d)[p] \in Nat \ {0}
  <2>1. FrameSize(d)[p] = 9 + U24(d, p) /\ U24(d, p) \in Nat
    BY <1>2, <1>3
  <2> QED  BY <2>1
<1> QED  BY <1>2, <1>3 DEF Sized

\* The first pieces of what was cut are cut where they were.
LEMMA CutFirst ==
  ASSUME NEW d \in Bytes, NEW s \in Seq(Bytes), NEW mark, Cut(d, s, mark),
         NEW n \in 0 .. Len(s)
  PROVE  /\ SubSeq(s, 1, n) \in Seq(Bytes) /\ Len(SubSeq(s, 1, n)) = n
         /\ \A i \in 1 .. n : SubSeq(s, 1, n)[i] = s[i]
         /\ Cut(d, SubSeq(s, 1, n), mark)
<1> DEFINE t == SubSeq(s, 1, n)
<1>1. Len(s) \in Nat /\ \A i \in 1 .. Len(s) : s[i] \in Bytes
  BY LenProperties, ElementOfSeq
<1>2. n \in Nat /\ n \in Int /\ 1 \in Int /\ \A i \in 1 .. n : s[i] \in Bytes
  BY <1>1
<1>3. /\ t \in Seq(Bytes) /\ Len(t) = IF 1 <= n THEN n - 1 + 1 ELSE 0
      /\ \A i \in 1 .. n - 1 + 1 : t[i] = s[1 + i - 1]
  BY <1>2, SubSeqProperties
<1> HIDE DEF t
<1>4. Len(t) = n /\ \A i \in 1 .. n : t[i] = s[i]
  <2>1. n - 1 + 1 = n /\ (~(1 <= n) => n = 0) /\ \A i \in 1 .. n : 1 + i - 1 = i
    BY <1>2
  <2> QED  BY <1>3, <2>1
<1>5. Cut(d, t, mark)
  <2>1. /\ \A i \in 0 .. Len(s) : mark[i] \in Nat /\ mark[i] <= Len(d)
        /\ \A i \in 1 .. Len(s) : mark[i - 1] <= mark[i] /\ s[i] = Slice(d, mark[i - 1], mark[i])
    BY DEF Cut
  <2>2. 0 .. n \subseteq 0 .. Len(s) /\ 1 .. n \subseteq 1 .. Len(s)
    BY <1>1
  <2> QED  BY <1>4, <2>1, <2>2 DEF Cut
<1> QED  BY <1>3, <1>4, <1>5 DEF t

LEMMA FramesBack ==
  ASSUME NEW d \in Bytes
  PROVE  /\ Behind(d, 0, FlattenSeq(H2Frames(d)))
         /\ \A i \in DOMAIN H2Frames(d) :
              LET f == H2Frames(d)[i]
              IN  HeaderBlock(f) # << >> => Len(HeaderBlock(f)) = U24(f, 0)
<1> DEFINE m == Len(d)
           run == Run(d, 0, m, FrameSize(d))
           es == run.got
           n == Least(Len(es), 128)
           fs == SubSeq(es, 1, n)
<1>1. /\ m \in Nat /\ 0 <= m /\ m <= Len(d) /\ 0 \in Nat /\ Sized(m, FrameSize(d))
  BY Reads, FrameSizes
<1>2. /\ es \in Seq(Bytes)
      /\ \E mark : CutRun(d, 0, m, FrameSize(d), run, mark)
      /\ \A i \in 1 .. Len(es) : \E p : EntryAt(d, 0, m, FrameSize(d), es[i], p)
  <2>1. Entries(d, 0, m, FrameSize(d)) = es
    BY DEF Entries
  <2> HIDE DEF m
  <2>2. es \in Seq(Bytes)
    BY <1>1, RunIsWhole
  <2>3. \E mark : CutRun(d, 0, m, FrameSize(d), run, mark)
    BY <1>1, RunCut
  <2>4. \A i \in 1 .. Len(es) : \E p : EntryAt(d, 0, m, FrameSize(d), es[i], p)
    BY <1>1, <2>1, EntriesOf
  <2> QED  BY <2>2, <2>3, <2>4
<1>3. H2Frames(d) = fs
  BY Zenon DEF H2Frames, Entries
<1>4. PICK mark : CutRun(d, 0, m, FrameSize(d), run, mark)
  BY <1>2
<1>5. Cut(d, es, mark) /\ mark[0] = 0
  BY <1>4 DEF CutRun
<1> HIDE DEF run
<1>6. n \in 0 .. Len(es)
  <2>1. Len(es) \in Nat
    BY <1>2, LenProperties
  <2> HIDE DEF es
  <2> QED  BY <2>1 DEF Least
<1> HIDE DEF es, n
<1>7. /\ fs \in Seq(Bytes) /\ Len(fs) = n /\ \A i \in 1 .. n : fs[i] = es[i]
      /\ Cut(d, fs, mark)
  BY <1>2, <1>5, <1>6, CutFirst
<1> HIDE DEF fs
<1>8. FlattenSeq(fs) = Slice(d, mark[0], mark[n]) /\ mark[n] \in Nat /\ mark[n] <= Len(d)
  <2>1. FlattenSeq(fs) = Slice(d, mark[0], mark[Len(fs)])
    BY <1>7, FlattenIs
  <2>2. n \in 0 .. Len(fs)
    BY <1>6, <1>7
  <2> QED  BY <1>7, <2>1, <2>2 DEF Cut
<1>9. Behind(d, 0, FlattenSeq(fs))
  <2> DEFINE b == mark[n]
  <2>1. b \in Nat /\ 0 <= b /\ b <= Len(d)
    BY <1>8
  <2> HIDE DEF b
  <2>2. Behind(d, 0, Slice(d, 0, b))
    BY <2>1, SliceBehind
  <2> QED  BY <1>5, <1>8, <2>2 DEF b
<1>10. ASSUME NEW i \in 1 .. n, HeaderBlock(es[i]) # << >>
       PROVE  Len(HeaderBlock(es[i])) = U24(es[i], 0)
  <2>1. i \in 1 .. Len(es)
    BY <1>2, <1>6, LenProperties
  <2>2. PICK p : EntryAt(d, 0, m, FrameSize(d), es[i], p)
    BY <1>2, <2>1
  <2> DEFINE u == U24(d, p)
             q == p + (9 + u)
             f == Slice(d, p, q)
  <2>3. /\ p \in Nat /\ FrameSize(d)[p] \in Nat \ {0} /\ p + FrameSize(d)[p] <= m
        /\ es[i] = Slice(d, p, p + FrameSize(d)[p])
    BY <2>2 DEF EntryAt
  <2>4. FrameSize(d)[p] = 9 + u /\ u \in Nat
    <3>1. FrameSize(d)[p] # Nothing
      BY <2>3, ParsersAssumption
    <3> QED  BY <2>3, <3>1, FrameSizes
  <2>5. es[i] = f /\ q <= m
    BY <2>3, <2>4
  <2> HIDE DEF u
  <2>6. q \in Nat /\ p <= q /\ q <= Len(d) /\ q - p = 9 + u /\ 0 \in 0 .. (q - p) - 3
    BY <2>3, <2>4, <2>5 DEF m
  <2> HIDE DEF q
  <2>7. Len(f) = 9 + u /\ f \in Bytes
    <3>1. Len(f) = q - p /\ f \in Bytes
      BY <2>3, <2>6, SliceIs
    <3> QED  BY <2>6, <3>1
  <2>8. U24(f, 0) = u
    <3>1. U24(f, 0) = U24(d, p + 0) /\ p + 0 = p
      BY <2>3, <2>6, SliceReads
    <3> QED  BY <3>1 DEF u
  <2> HIDE DEF f
  <2>9. HeaderBlock(f) = From(f, 9)
    <3>1. HeaderBlock(f) # << >>
      BY <1>10, <2>5
    <3> QED  BY <3>1 DEF HeaderBlock
  <2>10. From(f, 9) = Slice(f, 9, 9 + u)
    BY <2>7 DEF From, Slice
  <2>11. Len(Slice(f, 9, 9 + u)) = (9 + u) - 9
    <3> DEFINE b == 9 + u
    <3>1. b \in Nat /\ 9 <= b /\ b <= Len(f)
      BY <2>4, <2>7
    <3> HIDE DEF b
    <3>2. Len(Slice(f, 9, b)) = b - 9
      BY <2>7, <3>1, SliceIs
    <3> QED  BY <3>2 DEF b
  <2>12. (9 + u) - 9 = u
    BY <2>4
  <2> QED  BY <2>5, <2>8, <2>9, <2>10, <2>11, <2>12
<1>11. DOMAIN fs = 1 .. n
  BY <1>7, LenProperties
<1> QED  BY <1>3, <1>7, <1>9, <1>10, <1>11

\* try_decode_quic and read_cid.
LEMMA CidIs ==
  ASSUME NEW d \in Bytes, NEW p \in Nat, Cid(d, p) # Nothing
  PROVE  \E q \in Nat : /\ p < q /\ q <= Len(d) /\ Cid(d, p) = Slice(d, p + 1, q)
                        /\ Len(Cid(d, p)) = q - (p + 1)
                        /\ <<Len(Cid(d, p))>> \o Cid(d, p) = Slice(d, p, q)
<1> DEFINE m == Len(d)
           n == At(d, p)
           q == p + 1 + n
<1>1. Cid(d, p) = IF p >= m THEN Nothing
                  ELSE IF n > 20 \/ q > m THEN Nothing ELSE Slice(d, p + 1, q)
  BY Zenon DEF Cid
<1>2. ~(p >= m) /\ ~(q > m) /\ Cid(d, p) = Slice(d, p + 1, q)
  <2> HIDE DEF q, m, n
  <2> QED  BY <1>1
<1>3. m \in Nat /\ n \in Nat
  <2>1. m \in Nat
    BY Reads
  <2>2. p \in 0 .. m - 1
    <3> HIDE DEF q, m, n
    <3> QED  BY <1>2, <2>1
  <2> QED  BY <2>1, <2>2, Reads
<1>4. q \in Nat /\ p < q /\ q <= m /\ q - (p + 1) = n
  <2> HIDE DEF m, n
  <2> QED  BY <1>2, <1>3
<1> HIDE DEF q
<1>5. /\ Len(Slice(d, p + 1, q)) = q - (p + 1)
      /\ <<At(d, p)>> \o Slice(d, p + 1, q) = Slice(d, p, q)
  BY <1>4, SlicePrefixed
<1>6. <<Len(Cid(d, p))>> \o Cid(d, p) = Slice(d, p, q) /\ Len(Cid(d, p)) = q - (p + 1)
  BY <1>2, <1>4, <1>5
<1> QED  BY <1>2, <1>4, <1>6

LEMMA QuicBack ==
  ASSUME NEW d \in Bytes, QuicHeader(d) # Nothing
  PROVE  Behind(d, 5, Coded(<<QuicHeader(d).dcid, QuicHeader(d).scid>>))
<1> DEFINE a == Cid(d, 5)
           b == Cid(d, 6 + Len(a))
           cids == <<QuicHeader(d).dcid, QuicHeader(d).scid>>
           g == [i \in DOMAIN cids |-> <<Len(cids[i])>> \o cids[i]]
<1>1. a # Nothing /\ b # Nothing /\ QuicHeader(d) = [dcid |-> a, scid |-> b]
  <2>1. QuicHeader(d) =
          IF Len(d) < 6 THEN Nothing
          ELSE IF At(d, 0) < 128 \/ a = Nothing THEN Nothing
          ELSE IF b = Nothing THEN Nothing ELSE [dcid |-> a, scid |-> b]
    BY Zenon DEF QuicHeader
  <2> HIDE DEF a, b
  <2> QED  BY <2>1
<1>2. PICK q \in Nat : /\ 5 < q /\ q <= Len(d) /\ a = Slice(d, 5 + 1, q)
                       /\ Len(a) = q - (5 + 1)
                       /\ <<Len(a)>> \o a = Slice(d, 5, q)
  BY <1>1, CidIs
<1>3. 6 + Len(a) = q
  BY <1>2
<1>4. b = Cid(d, q)
  BY <1>3
<1> HIDE DEF a, b
<1>5. PICK r \in Nat : /\ q < r /\ r <= Len(d)
                       /\ <<Len(b)>> \o b = Slice(d, q, r)
  BY <1>1, <1>4, CidIs
<1>6. cids = <<a, b>>
  BY <1>1
<1>7. Coded(cids) = FlattenSeq(g)
  BY Zenon DEF Coded
<1> HIDE DEF cids
<1> DEFINE u == Slice(d, 5, q)
           v == Slice(d, q, r)
           s == <<u, v>>
           mark == [i \in 0 .. 2 |-> IF i = 0 THEN 5 ELSE IF i = 1 THEN q ELSE r]
<1>8. u \in Bytes /\ v \in Bytes
  BY <1>2, <1>5, SliceIs
<1> HIDE DEF u, v
<1>9. DOMAIN cids = {1, 2} /\ g[1] = u /\ g[2] = v
  <2>1. DOMAIN cids = {1, 2} /\ cids[1] = a /\ cids[2] = b
    BY <1>6
  <2>2. g[1] = <<Len(a)>> \o a /\ g[2] = <<Len(b)>> \o b
    BY <2>1, Zenon
  <2>3. <<Len(a)>> \o a = u /\ <<Len(b)>> \o b = v
    BY <1>2, <1>5 DEF u, v
  <2> QED  BY <2>1, <2>2, <2>3
<1>10. s \in Seq(Bytes) /\ Len(s) = 2 /\ s[1] = u /\ s[2] = v
  BY <1>8
<1>11. g = s
  <2>1. g = [i \in {1, 2} |-> g[i]]
    BY <1>9
  <2>2. s = [i \in {1, 2} |-> s[i]]
    OBVIOUS
  <2>3. ASSUME NEW i \in {1, 2} PROVE g[i] = s[i]
    BY <1>9, <1>10
  <2> HIDE DEF g, s
  <2>4. [i \in {1, 2} |-> g[i]] = [i \in {1, 2} |-> s[i]]
    BY <2>3, Zenon
  <2> QED  BY <2>1, <2>2, <2>4
<1>12. mark[0] = 5 /\ mark[1] = q /\ mark[2] = r
  OBVIOUS
<1> HIDE DEF s, mark
<1>13. Cut(d, s, mark)
  <2>1. \A i \in 0 .. 2 : i = 0 \/ i = 1 \/ i = 2
    OBVIOUS
  <2>2. \A i \in 0 .. 2 : mark[i] \in Nat /\ mark[i] <= Len(d)
    <3>1. 5 <= Len(d) /\ 5 \in Nat
      BY <1>2, Reads
    <3> QED  BY <1>2, <1>5, <1>12, <2>1, <3>1
  <2>3. ASSUME NEW i \in 1 .. 2
        PROVE  mark[i - 1] <= mark[i] /\ s[i] = Slice(d, mark[i - 1], mark[i])
    <3>1. CASE i = 1
      <4>1. i - 1 = 0 /\ 5 <= q
        BY <1>2, <3>1
      <4> QED  BY <1>10, <1>12, <3>1, <4>1 DEF u
    <3>2. CASE i = 2
      <4>1. i - 1 = 1 /\ q <= r
        BY <1>5, <3>2
      <4> QED  BY <1>10, <1>12, <3>2, <4>1 DEF v
    <3> QED  BY <3>1, <3>2
  <2> QED  BY <1>10, <2>2, <2>3 DEF Cut
<1>14. FlattenSeq(s) = Slice(d, 5, r)
  <2>1. FlattenSeq(s) = Slice(d, mark[0], mark[Len(s)])
    BY <1>10, <1>13, FlattenIs
  <2> QED  BY <1>10, <1>12, <2>1
<1>15. Behind(d, 5, Slice(d, 5, r))
  <2>1. 5 <= r /\ 5 \in Nat
    BY <1>2, <1>5
  <2> QED  BY <1>5, <2>1, SliceBehind
<1> HIDE DEF g
<1> QED  BY <1>7, <1>11, <1>14, <1>15 DEF cids

(***************************************************************************)
(* Integers of several bytes.                                              *)
(***************************************************************************)
\* A recursion over numbers has a solution.
Recursion(V, zero, step) == zero \in V /\ step \in [Nat \X V -> V]
Solved(V, zero, step, k) ==
  \E f \in [0 .. k -> V] : f[0] = zero /\ \A i \in 1 .. k : f[i] = step[<<i, f[i - 1]>>]

LEMMA RecursionExists ==
  ASSUME NEW V, NEW zero, NEW step, Recursion(V, zero, step)
  PROVE  \A k \in Nat : Solved(V, zero, step, k)
<1> DEFINE Ok(k, f) ==
             f[0] = zero /\ \A i \in 1 .. k : f[i] = step[<<i, f[i - 1]>>]
           T == {k \in Nat : \E f \in [0 .. k -> V] : Ok(k, f)}
<1>0. zero \in V /\ step \in [Nat \X V -> V]
  BY DEF Recursion
<1>1. 0 \in T
  <2> DEFINE f == [i \in 0 .. 0 |-> zero]
  <2>1. f \in [0 .. 0 -> V] /\ f[0] = zero /\ 1 .. 0 = {}
    BY <1>0
  <2> HIDE DEF f
  <2> QED  BY <2>1
<1>2. ASSUME NEW k \in Nat, k \in T PROVE k + 1 \in T
  <2>1. PICK f \in [0 .. k -> V] : Ok(k, f)
    BY <1>2
  <2> DEFINE last == step[<<k + 1, f[k]>>]
             g == [i \in 0 .. k + 1 |-> IF i = k + 1 THEN last ELSE f[i]]
  <2>2. last \in V
    <3>1. f[k] \in V /\ k + 1 \in Nat
      BY <2>1
    <3> QED  BY <1>0, <3>1
  <2> HIDE DEF last
  <2>3. /\ g \in [0 .. k + 1 -> V] /\ g[k + 1] = last
        /\ \A i \in 0 .. k : g[i] = f[i]
    BY <2>1, <2>2
  <2> HIDE DEF g
  <2>4. ASSUME NEW i \in 1 .. k + 1 PROVE g[i] = step[<<i, g[i - 1]>>]
    <3>1. CASE i = k + 1
      <4>1. i - 1 = k /\ k \in 0 .. k
        BY <3>1
      <4> QED  BY <2>3, <3>1, <4>1 DEF last
    <3>2. CASE i # k + 1
      <4>1. i \in 1 .. k /\ i \in 0 .. k /\ i - 1 \in 0 .. k
        BY <3>2
      <4> QED  BY <2>1, <2>3, <4>1
    <3> QED  BY <3>1, <3>2
  <2>5. g[0] = zero
    <3>1. 0 \in 0 .. k
      OBVIOUS
    <3> QED  BY <2>1, <2>3, <3>1
  <2> QED  BY <2>3, <2>4, <2>5
<1> HIDE DEF T
<1>3. Nat \subseteq T
  BY <1>1, <1>2, SetInduction
<1> QED  BY <1>3 DEF T, Solved

PowerBy(n, f) == f = [i \in 0 .. n |-> IF i = 0 THEN 1 ELSE 2 * f[i - 1]]
PowerSteps(n, f) ==
  /\ Power(n) = f[n] /\ f \in [0 .. n -> Nat] /\ f[0] = 1
  /\ \A i \in 1 .. n : f[i] = 2 * f[i - 1]

LEMMA PowerByIs ==
  ASSUME NEW n \in Nat
  PROVE  \E f : PowerSteps(n, f)
<1> DEFINE step == [x \in Nat \X Nat |-> 2 * x[2]]
           f == CHOOSE f : PowerBy(n, f)
<1>1. PICK g \in [0 .. n -> Nat] : g[0] = 1 /\ \A i \in 1 .. n : g[i] = step[<<i, g[i - 1]>>]
  <2>1. Recursion(Nat, 1, step)
    BY DEF Recursion
  <2> HIDE DEF step
  <2>2. Solved(Nat, 1, step, n)
    BY <2>1, RecursionExists
  <2> QED  BY <2>2 DEF Solved
<1>2. ASSUME NEW i \in 1 .. n PROVE g[i] = 2 * g[i - 1]
  <2>1. i \in Nat /\ g[i - 1] \in Nat
    BY <1>1
  <2> QED  BY <1>1, <2>1
<1>3. PowerBy(n, g)
  <2> DEFINE h == [i \in 0 .. n |-> IF i = 0 THEN 1 ELSE 2 * g[i - 1]]
  <2>1. ASSUME NEW i \in 0 .. n PROVE g[i] = h[i]
    <3>1. i = 0 \/ i \in 1 .. n
      OBVIOUS
    <3> QED  BY <1>1, <1>2, <3>1
  <2>2. g = h
    BY <1>1, <2>1
  <2> QED  BY <2>2, Zenon DEF PowerBy
<1>4. PowerBy(n, f)
  BY <1>3, Zenon
<1>5. Power(n) = f[n]
  BY Zenon DEF Power, PowerBy
<1> HIDE DEF f
<1>6. DOMAIN f = 0 .. n /\ f[0] = 1 /\ \A i \in 1 .. n : f[i] = 2 * f[i - 1]
  BY <1>4 DEF PowerBy
<1> DEFINE T == {i \in Nat : i <= n => f[i] \in Nat}
<1>7. 0 \in T
  BY <1>6
<1>8. ASSUME NEW i \in Nat, i \in T PROVE i + 1 \in T
  <2> SUFFICES ASSUME i + 1 <= n PROVE f[i + 1] \in Nat
    OBVIOUS
  <2>1. i + 1 \in 1 .. n /\ (i + 1) - 1 = i /\ f[i] \in Nat
    BY <1>8
  <2>2. f[i + 1] = 2 * f[i]
    BY <1>6, <2>1
  <2> QED  BY <2>1, <2>2
<1> HIDE DEF T
<1>9. Nat \subseteq T
  BY <1>7, <1>8, SetInduction
<1>10. f \in [0 .. n -> Nat]
  <2>1. \A i \in 0 .. n : f[i] \in Nat
    BY <1>9 DEF T
  <2>2. f = [i \in 0 .. n |-> f[i]]
    BY <1>4 DEF PowerBy
  <2> HIDE DEF f
  <2> QED  BY <2>1, <2>2
<1> QED  BY <1>5, <1>6, <1>10 DEF PowerSteps

LEMMA PowerOnward ==
  /\ Power(0) = 1
  /\ \A n \in Nat : Power(n) \in Nat /\ Power(n + 1) = 2 * Power(n)
<1>1. Power(0) = 1
  <2>1. PICK f : PowerSteps(0, f)
    BY PowerByIs
  <2> QED  BY <2>1 DEF PowerSteps
<1>2. ASSUME NEW n \in Nat PROVE Power(n) \in Nat /\ Power(n + 1) = 2 * Power(n)
  <2>1. PICK f : PowerSteps(n, f)
    BY PowerByIs
  <2>2. n + 1 \in Nat
    OBVIOUS
  <2>3. PICK g : PowerSteps(n + 1, g)
    BY <2>2, PowerByIs
  <2>4. /\ Power(n) = f[n] /\ f \in [0 .. n -> Nat] /\ f[0] = 1
        /\ \A i \in 1 .. n : f[i] = 2 * f[i - 1]
        /\ Power(n + 1) = g[n + 1] /\ g[0] = 1
        /\ \A i \in 1 .. n + 1 : g[i] = 2 * g[i - 1]
    BY <2>1, <2>3 DEF PowerSteps
  <2> DEFINE T == {i \in Nat : i <= n => g[i] = f[i]}
  <2>5. 0 \in T
    BY <2>4
  <2>6. ASSUME NEW i \in Nat, i \in T PROVE i + 1 \in T
    <3> SUFFICES ASSUME i + 1 <= n PROVE g[i + 1] = f[i + 1]
      OBVIOUS
    <3>1. i + 1 \in 1 .. n /\ i + 1 \in 1 .. n + 1 /\ (i + 1) - 1 = i /\ g[i] = f[i]
      BY <2>6
    <3>2. g[i + 1] = 2 * g[i] /\ f[i + 1] = 2 * f[i]
      BY <2>4, <3>1
    <3> QED  BY <3>1, <3>2
  <2> HIDE DEF T
  <2>7. Nat \subseteq T
    BY <2>5, <2>6, SetInduction
  <2>8. g[n] = f[n]
    BY <2>7 DEF T
  <2>9. g[n + 1] = 2 * g[n]
    <3>1. n + 1 \in 1 .. n + 1 /\ (n + 1) - 1 = n
      OBVIOUS
    <3> QED  BY <2>4, <3>1
  <2>10. f[n] \in Nat
    BY <2>4
  <2> QED  BY <2>4, <2>8, <2>9, <2>10
<1> QED  BY <1>1, <1>2

LEMMA PowersAre ==
  /\ Power(5) = 32
  /\ \A n \in Nat : Power(n + 7) = 128 * Power(n)
<1>1. ASSUME NEW n \in Nat
      PROVE  /\ Power(n + 1) = 2 * Power(n) /\ Power(n + 2) = 4 * Power(n)
             /\ Power(n + 3) = 8 * Power(n) /\ Power(n + 4) = 16 * Power(n)
  <2>1. /\ n + 1 \in Nat /\ n + 2 \in Nat /\ n + 3 \in Nat
        /\ (n + 1) + 1 = n + 2 /\ (n + 2) + 1 = n + 3 /\ (n + 3) + 1 = n + 4
    OBVIOUS
  <2>2. /\ Power(n) \in Nat /\ Power(n + 1) = 2 * Power(n)
        /\ Power(n + 2) = 2 * Power(n + 1) /\ Power(n + 3) = 2 * Power(n + 2)
        /\ Power(n + 4) = 2 * Power(n + 3)
    BY <2>1, PowerOnward
  <2> QED  BY <2>2
<1>2. Power(5) = 32
  <2>1. 0 + 4 = 4 /\ 4 + 1 = 5 /\ 0 \in Nat /\ 4 \in Nat
    OBVIOUS
  <2>2. Power(4) = 16 * Power(0) /\ Power(5) = 2 * Power(4) /\ Power(0) = 1
    BY <1>1, <2>1, PowerOnward
  <2> QED  BY <2>2
<1>3. ASSUME NEW n \in Nat PROVE Power(n + 7) = 128 * Power(n)
  <2>1. n + 4 \in Nat /\ (n + 4) + 3 = n + 7
    OBVIOUS
  <2>2. Power(n + 7) = 8 * Power(n + 4) /\ Power(n + 4) = 16 * Power(n) /\ Power(n) \in Nat
    BY <1>1, <2>1, PowerOnward
  <2> QED  BY <2>2
<1> QED  BY <1>2, <1>3

LEMMA SevenBits == \A b \in Byte : b % 128 \in Int
BY DEF Byte

\* What a continuation adds, from its first byte on and from its last one on.
AddedBy(s, f) ==
  f = [i \in 0 .. Len(s) |->
         IF i = 0 THEN 0 ELSE f[i - 1] + (s[i] % 128) * Power(7 * (i - 1))]
AddedSteps(s, f) ==
  /\ Added(s) = f[Len(s)] /\ f[0] = 0
  /\ \A i \in 1 .. Len(s) : f[i] = f[i - 1] + (s[i] % 128) * Power(7 * (i - 1))

LEMMA AddedByIs ==
  ASSUME NEW s \in Bytes
  PROVE  \E f : AddedSteps(s, f)
<1> DEFINE n == Len(s)
           t(i) == (s[i] % 128) * Power(7 * (i - 1))
           step == [x \in Nat \X Int |-> IF x[1] \in 1 .. n THEN x[2] + t(x[1]) ELSE 0]
           f == CHOOSE f : AddedBy(s, f)
<1>1. n \in Nat
  BY Reads
<1>2. \A i \in 1 .. n : t(i) \in Int
  <2> TAKE i \in 1 .. n
  <2>1. s[i] \in Byte /\ i - 1 \in Nat
    BY ElementOfSeq DEF Bytes
  <2>2. s[i] % 128 \in Int
    BY <2>1, SevenBits
  <2>3. 7 * (i - 1) \in Nat
    BY <2>1
  <2>4. Power(7 * (i - 1)) \in Int
    BY <2>3, PowerOnward
  <2> QED  BY <2>2, <2>4
<1> HIDE DEF t, n
<1>3. PICK g \in [0 .. n -> Int] : g[0] = 0 /\ \A i \in 1 .. n : g[i] = step[<<i, g[i - 1]>>]
  <2>1. Recursion(Int, 0, step)
    BY <1>2 DEF Recursion
  <2> HIDE DEF step
  <2>2. Solved(Int, 0, step, n)
    BY <1>1, <2>1, RecursionExists
  <2> QED  BY <2>2 DEF Solved
<1>4. ASSUME NEW i \in 1 .. n PROVE g[i] = g[i - 1] + t(i)
  <2>1. i \in Nat /\ g[i - 1] \in Int
    BY <1>1, <1>3
  <2> QED  BY <1>3, <2>1
<1>5. AddedBy(s, g)
  <2> DEFINE h == [i \in 0 .. n |-> IF i = 0 THEN 0 ELSE g[i - 1] + t(i)]
  <2>1. ASSUME NEW i \in 0 .. n PROVE g[i] = h[i]
    <3>1. i = 0 \/ i \in 1 .. n
      BY <1>1
    <3> QED  BY <1>3, <1>4, <3>1
  <2>2. g = h
    BY <1>3, <2>1
  <2> QED  BY <2>2, Zenon DEF AddedBy, t, n
<1>6. AddedBy(s, f)
  BY <1>5, Zenon
<1>7. Added(s) = f[n]
  BY Zenon DEF Added, AddedBy, n
<1> HIDE DEF f
<1>8. f[0] = 0 /\ \A i \in 1 .. n : f[i] = f[i - 1] + t(i)
  <2>1. f = [i \in 0 .. n |-> IF i = 0 THEN 0 ELSE f[i - 1] + t(i)]
    BY <1>6, Zenon DEF AddedBy, t, n
  <2> QED  BY <1>1, <2>1
<1> QED  BY <1>7, <1>8, Zenon DEF AddedSteps, t, n

Final(d) == Min({i \in 2 .. Len(d) : d[i] < 128} \cup {Len(d)})
WorthBy(d, last, f) ==
  f = [n \in 0 .. last - 1 |->
         IF n = 0 THEN 0 ELSE (d[last - n + 1] % 128) + 128 * f[n - 1]]
WorthSteps(d, k, bits, f) ==
  /\ IntOf(d, bits) = Power(bits) - 1 + f[k]
  /\ f[0] = 0 /\ \A n \in 0 .. k : f[n] \in Int
  /\ \A n \in 1 .. k : f[n] = (d[k + 1 - n + 1] % 128) + 128 * f[n - 1]

LEMMA WorthByIs ==
  ASSUME NEW d \in Bytes, NEW k \in Nat, k + 1 <= Len(d), Final(d) = k + 1, NEW bits
  PROVE  \E f : WorthSteps(d, k, bits, f)
<1> DEFINE last == Final(d)
           t(n) == d[last - n + 1] % 128
           step == [x \in Nat \X Int |-> IF x[1] \in 1 .. k THEN t(x[1]) + 128 * x[2] ELSE 0]
           f == CHOOSE f : WorthBy(d, last, f)
<1>1. last = k + 1 /\ last - 1 = k
  OBVIOUS
<1>2. IntOf(d, bits) = Power(bits) - 1 + f[last - 1]
  BY Zenon DEF IntOf, WorthBy, Final
<1>3. \A n \in 1 .. k : t(n) \in Int
  <2> TAKE n \in 1 .. k
  <2> DEFINE j == last - n + 1
  <2> HIDE DEF last
  <2>1. j \in 1 .. Len(d)
    BY <1>1, Reads
  <2>2. d[j] \in Byte
    <3> HIDE DEF j
    <3> QED  BY <2>1, ElementOfSeq DEF Bytes
  <2> QED  BY <2>2, SevenBits
<1> HIDE DEF t, last
<1>4. PICK g \in [0 .. k -> Int] : g[0] = 0 /\ \A n \in 1 .. k : g[n] = step[<<n, g[n - 1]>>]
  <2>1. Recursion(Int, 0, step)
    BY <1>3 DEF Recursion
  <2> HIDE DEF step
  <2>2. Solved(Int, 0, step, k)
    BY <2>1, RecursionExists
  <2> QED  BY <2>2 DEF Solved
<1>5. ASSUME NEW n \in 1 .. k PROVE g[n] = t(n) + 128 * g[n - 1]
  <2>1. n \in Nat /\ g[n - 1] \in Int
    BY <1>4
  <2> QED  BY <1>4, <2>1
<1>6. WorthBy(d, last, g)
  <2> DEFINE h == [n \in 0 .. last - 1 |-> IF n = 0 THEN 0 ELSE t(n) + 128 * g[n - 1]]
  <2>1. ASSUME NEW n \in 0 .. k PROVE g[n] = h[n]
    <3>1. n = 0 \/ n \in 1 .. k
      OBVIOUS
    <3> QED  BY <1>1, <1>4, <1>5, <3>1
  <2>2. g = h
    BY <1>1, <1>4, <2>1
  <2> QED  BY <2>2, Zenon DEF WorthBy, t
<1>7. WorthBy(d, last, f)
  BY <1>6, Zenon
<1> HIDE DEF f
<1>8. f[0] = 0 /\ \A n \in 1 .. k : f[n] = t(n) + 128 * f[n - 1]
  <2>1. f = [n \in 0 .. last - 1 |-> IF n = 0 THEN 0 ELSE t(n) + 128 * f[n - 1]]
    BY <1>7, Zenon DEF WorthBy, t
  <2> QED  BY <1>1, <2>1
<1> DEFINE T == {i \in Nat : i <= k => f[i] \in Int}
<1>9. 0 \in T
  BY <1>8
<1>10. ASSUME NEW i \in Nat, i \in T PROVE i + 1 \in T
  <2> SUFFICES ASSUME i + 1 <= k PROVE f[i + 1] \in Int
    OBVIOUS
  <2>1. i + 1 \in 1 .. k /\ (i + 1) - 1 = i /\ f[i] \in Int
    BY <1>10
  <2>2. f[i + 1] = t(i + 1) + 128 * f[i] /\ t(i + 1) \in Int
    BY <1>3, <1>8, <2>1
  <2> QED  BY <2>1, <2>2
<1> HIDE DEF T
<1>11. Nat \subseteq T
  BY <1>9, <1>10, SetInduction
<1>12. \A n \in 0 .. k : f[n] \in Int
  BY <1>11 DEF T
<1>13. IntOf(d, bits) = Power(bits) - 1 + f[k]
  BY <1>1, <1>2
<1>14. ASSUME NEW n \in 1 .. k PROVE f[n] = (d[k + 1 - n + 1] % 128) + 128 * f[n - 1]
  <2>1. f[n] = t(n) + 128 * f[n - 1]
    BY <1>8
  <2>2. t(n) = d[last - n + 1] % 128
    BY Zenon DEF t
  <2>3. last - n + 1 = k + 1 - n + 1
    BY <1>1
  <2> QED  BY <2>1, <2>2, <2>3, Zenon
<1> QED  BY <1>8, <1>12, <1>13, <1>14, Zenon DEF WorthSteps

LEMMA Rearranged ==
  ASSUME NEW s \in Int, NEW p \in Int, NEW b \in Int, NEW w \in Int
  PROVE  s + p * (b + 128 * w) = (s + b * p) + (128 * p) * w
OBVIOUS

\* Both ways come to the same.
LEMMA AddedIsWorth ==
  ASSUME NEW d \in Bytes, NEW k \in Nat, k + 1 <= Len(d), Final(d) = k + 1, NEW bits,
         Power(bits) \in Int
  PROVE  IntOf(d, bits) = Power(bits) - 1 + Added(Slice(d, 1, 1 + k))
<1> DEFINE s == Slice(d, 1, 1 + k)
<1>1. s \in Bytes /\ Len(s) = k /\ \A i \in 1 .. k : s[i] = d[1 + i]
  <2> DEFINE a == 1
             b == 1 + k
  <2>1. a \in Nat /\ b \in Nat /\ a <= b /\ b <= Len(d) /\ b - a = k
    OBVIOUS
  <2> HIDE DEF a, b
  <2>2. /\ Slice(d, a, b) \in Bytes /\ Len(Slice(d, a, b)) = b - a
        /\ \A i \in 1 .. b - a : Slice(d, a, b)[i] = d[a + i]
    BY <2>1, SliceIs
  <2>3. /\ Slice(d, a, b) \in Bytes /\ Len(Slice(d, a, b)) = k
        /\ \A i \in 1 .. k : Slice(d, a, b)[i] = d[a + i]
    BY <2>1, <2>2
  <2> QED  BY <2>3 DEF a, b
<1> HIDE DEF s
<1>2. PICK f : AddedSteps(s, f)
  BY <1>1, AddedByIs
<1>3. PICK w : WorthSteps(d, k, bits, w)
  BY WorthByIs
<1>4. /\ Added(s) = f[k] /\ f[0] = 0
      /\ \A i \in 1 .. k : f[i] = f[i - 1] + (s[i] % 128) * Power(7 * (i - 1))
  BY <1>1, <1>2 DEF AddedSteps
<1>5. /\ IntOf(d, bits) = Power(bits) - 1 + w[k]
      /\ w[0] = 0 /\ \A n \in 0 .. k : w[n] \in Int
      /\ \A n \in 1 .. k : w[n] = (d[k + 1 - n + 1] % 128) + 128 * w[n - 1]
  BY <1>3 DEF WorthSteps
<1> DEFINE Equal(i) == f[i] \in Int /\ f[i] + Power(7 * i) * w[k - i] = w[k]
           T == {i \in Nat : i <= k => Equal(i)}
<1>6. 0 \in T
  <2>1. 7 * 0 = 0 /\ k - 0 = k /\ k \in 0 .. k
    OBVIOUS
  <2>2. Power(7 * 0) = 1 /\ w[k - 0] = w[k] /\ w[k] \in Int
    BY <1>5, <2>1, PowerOnward
  <2>3. f[0] + Power(7 * 0) * w[k - 0] = w[k]
    BY <1>4, <2>2
  <2> QED  BY <1>4, <2>3
<1>7. ASSUME NEW i \in Nat, i \in T PROVE i + 1 \in T
  <2> SUFFICES ASSUME i + 1 <= k PROVE Equal(i + 1)
    OBVIOUS
  <2> DEFINE b == s[i + 1] % 128
             p == Power(7 * i)
             v == w[k - (i + 1)]
  <2>1. /\ i + 1 \in 1 .. k /\ (i + 1) - 1 = i /\ 7 * i \in Nat /\ 7 * (i + 1) = 7 * i + 7
        /\ k - i \in 1 .. k /\ (k - i) - 1 = k - (i + 1) /\ k - (i + 1) \in 0 .. k
        /\ k + 1 - (k - i) + 1 = 1 + (i + 1)
    OBVIOUS
  <2>2. Equal(i)
    BY <1>7, <2>1
  <2>3. b \in Int
    <3>1. s[i + 1] \in Byte
      BY <1>1, <2>1, ElementOfSeq DEF Bytes
    <3> QED  BY <3>1, SevenBits
  <2>4. p \in Int /\ Power(7 * (i + 1)) = 128 * p
    <3> DEFINE e == 7 * i
    <3>1. e \in Nat /\ 7 * (i + 1) = e + 7
      BY <2>1
    <3> HIDE DEF e
    <3>2. Power(e) \in Nat /\ Power(e + 7) = 128 * Power(e)
      BY <3>1, PowerOnward, PowersAre
    <3> QED  BY <3>1, <3>2 DEF e
  <2>5. v \in Int
    BY <1>5, <2>1
  <2>6. w[k - i] = b + 128 * v
    <3> DEFINE n == k - i
    <3>1. w[n] = (d[k + 1 - n + 1] % 128) + 128 * w[n - 1]
      <4>1. n \in 1 .. k
        BY <2>1
      <4> HIDE DEF n
      <4> QED  BY <1>5, <4>1
    <3>2. d[k + 1 - n + 1] = s[i + 1] /\ n - 1 = k - (i + 1)
      BY <1>1, <2>1
    <3> QED  BY <3>1, <3>2
  <2>7. f[i + 1] = f[i] + b * p
    BY <1>4, <2>1
  <2> HIDE DEF b, p, v
  <2>8. f[i] + p * (b + 128 * v) = w[k] /\ f[i] \in Int
    BY <2>2, <2>6 DEF p
  <2>9. (f[i] + b * p) + (128 * p) * v = w[k]
    BY <2>3, <2>4, <2>5, <2>8, Rearranged
  <2>10. f[i + 1] \in Int
    BY <2>3, <2>4, <2>7, <2>8
  <2>11. f[i + 1] + Power(7 * (i + 1)) * v = w[k]
    BY <2>4, <2>7, <2>9
  <2> QED  BY <2>10, <2>11 DEF v
<1> HIDE DEF T
<1>8. Nat \subseteq T
  BY <1>6, <1>7, SetInduction
<1>9. Equal(k)
  BY <1>8 DEF T
<1>10. f[k] = w[k]
  <2>1. k - k = 0 /\ 7 * k \in Nat
    OBVIOUS
  <2>2. Power(7 * k) \in Nat
    BY <2>1, PowerOnward
  <2> DEFINE q == Power(7 * k)
  <2>3. f[k] + q * 0 = w[k] /\ f[k] \in Int
    BY <1>5, <1>9, <2>1
  <2>4. q * 0 = 0
    BY <2>2
  <2> HIDE DEF q
  <2> QED  BY <2>3, <2>4
<1> QED  BY <1>4, <1>5, <1>10 DEF s

LEMMA IntBack ==
  ASSUME NEW d \in Bytes, HpackInt(d, 0, 5) # Nothing, Head(d) % 32 = 31
  PROVE  HpackInt(d, 0, 5)[1] = IntOf(d, 5)
<1> DEFINE m == Len(d)
           S == {i \in 1 .. Least(5, m - 1) : At(d, 1 + i - 1) < 128}
           k == Min(S)
           L == {i \in 2 .. m : d[i] < 128} \cup {m}
<1>1. m \in Nat
  BY Reads
<1>2. HpackInt(d, 0, 5) =
        IF 0 >= m THEN Nothing
        ELSE IF At(d, 0) % ((Power(5) - 1) + 1) < Power(5) - 1
        THEN <<At(d, 0) % ((Power(5) - 1) + 1), 0 + 1>> ELSE Continued(d, 0 + 1, Power(5) - 1)
  BY Zenon DEF HpackInt
<1>3. ~(0 >= m)
  <2> HIDE DEF m
  <2> QED  BY <1>2
<1>4. At(d, 0) = Head(d)
  <2>1. d # << >> /\ d \in Seq(Byte)
    BY <1>3 DEF Bytes
  <2> QED  BY <2>1 DEF At
<1>5. Power(5) - 1 = 31 /\ (Power(5) - 1) + 1 = 32 /\ 0 + 1 = 1
  BY PowersAre
<1>6. HpackInt(d, 0, 5) = Continued(d, 1, 31)
  <2>1. At(d, 0) % 32 = 31 /\ ~(31 < 31)
    BY <1>4
  <2> HIDE DEF m
  <2> QED  BY <1>2, <1>3, <1>5, <2>1
<1>7. Continued(d, 1, 31) = IF S = {} THEN Nothing ELSE <<31 + Added(Slice(d, 1, 1 + k)), 1 + k>>
  BY Zenon DEF Continued
<1> DEFINE z == Least(5, m - 1)
<1>8. z \in Int /\ z <= m - 1 /\ z <= 5 /\ (z = 5 \/ z = m - 1)
  <2> HIDE DEF m
  <2> QED  BY <1>1 DEF Least
<1>9. S # {} /\ S \subseteq Nat /\ S = {i \in 1 .. z : d[i + 1] < 128}
  <2>1. S # {}
    BY <1>6, <1>7
  <2>2. \A i \in 1 .. z : At(d, 1 + i - 1) = d[i + 1]
    <3> TAKE i \in 1 .. z
    <3>1. (1 + i - 1) + 1 = i + 1
      OBVIOUS
    <3> QED  BY <3>1 DEF At
  <2>3. S = {i \in 1 .. z : At(d, 1 + i - 1) < 128}
    OBVIOUS
  <2> HIDE DEF z, S
  <2>4. S = {i \in 1 .. z : d[i + 1] < 128}
    BY <2>2, <2>3
  <2> QED  BY <2>1, <2>3, <2>4
<1> HIDE DEF z, S
<1>10. k \in S /\ k \in Nat /\ \A y \in S : k <= y
  BY <1>9, MinIs
<1> HIDE DEF k
<1>11. k \in 1 .. z /\ d[k + 1] < 128
  BY <1>9, <1>10
<1>12. Final(d) = k + 1
  <2> DEFINE l == Min(L)
  <2>1. L \subseteq Nat /\ L # {}
    BY <1>1
  <2>2. k + 1 \in L
    <3>1. k + 1 \in 2 .. m
      <4> HIDE DEF m
      <4> QED  BY <1>1, <1>8, <1>11
    <3> QED  BY <1>11, <3>1
  <2>3. ASSUME NEW y \in L PROVE k + 1 <= y
    <3>1. CASE y \in 2 .. m /\ d[y] < 128
      <4> SUFFICES ASSUME y < k + 1 PROVE FALSE
        <5> HIDE DEF L, m
        <5> QED  BY <1>10, <3>1
      <4>1. y - 1 \in 1 .. z /\ (y - 1) + 1 = y /\ y - 1 < k
        <5> HIDE DEF L, m
        <5> QED  BY <1>8, <1>11, <3>1
      <4>2. y - 1 \in S
        BY <1>9, <3>1, <4>1
      <4>3. k <= y - 1
        BY <1>10, <4>2
      <4> QED  BY <1>10, <3>1, <4>1, <4>3
    <3>2. CASE y = m
      <4> HIDE DEF L, m
      <4> QED  BY <1>1, <1>8, <1>11, <3>2
    <3> QED  BY <3>1, <3>2
  <2> HIDE DEF L
  <2>4. l \in L /\ l \in Nat /\ \A y \in L : l <= y
    BY <2>1, MinIs
  <2> HIDE DEF l
  <2>5. l <= k + 1 /\ k + 1 <= l
    BY <2>2, <2>3, <2>4
  <2>6. l = k + 1
    BY <1>10, <2>4, <2>5
  <2> QED  BY <2>6 DEF Final, l, L
<1>13. k \in Nat /\ k + 1 <= Len(d) /\ Power(5) \in Int
  <2>1. k + 1 <= m
    <3> HIDE DEF m
    <3> QED  BY <1>1, <1>8, <1>11
  <2> QED  BY <1>10, <2>1, PowersAre
<1> DEFINE five == 5
<1>14. IntOf(d, five) = Power(five) - 1 + Added(Slice(d, 1, 1 + k))
  <2>1. Power(five) \in Int
    BY <1>13
  <2> HIDE DEF five
  <2> QED  BY <1>12, <1>13, <2>1, AddedIsWorth
<1>15. IntOf(d, 5) = 31 + Added(Slice(d, 1, 1 + k))
  BY <1>5, <1>14
<1> DEFINE u == 31 + Added(Slice(d, 1, 1 + k))
<1>16. HpackInt(d, 0, 5) = <<u, 1 + k>>
  BY <1>6, <1>7, <1>9 DEF k
<1> HIDE DEF u
<1>17. <<u, 1 + k>>[1] = u
  OBVIOUS
<1> QED  BY <1>15, <1>16, <1>17 DEF u

(***************************************************************************)
(* Every kind of input: ReadsBack.                                         *)
(***************************************************************************)
BackAlpn(d) ==
  /\ Behind(d, 2, Coded(Alpn(d))) \/ Len(d) < 2
  /\ LET rest == From(d, 2 + Len(Coded(Alpn(d))))
     IN  rest # << >> => Len(rest) < 1 + Head(rest)
BackSni(d) ==
  Sni(d) # Nothing =>
    \E p \in 2 .. Len(d) :
      Behind(d, p, <<0, Len(Sni(d)) \div 256, Len(Sni(d)) % 256>> \o Sni(d))
BackCerts(d) == Len(d) >= 3 => Len(FlattenSeq(Certs(d))) <= U24(d, 0)
BackExtensions(d) ==
  /\ Behind(d, 0, FlattenSeq(Extensions(d)))
  /\ LET x == ExtData(Extensions(d))
     IN  /\ Behind(ExtOf(Extensions(d), 10), 2, Pairs(x.groups)) \/ x.groups = << >>
         /\ Behind(ExtOf(Extensions(d), 43), 1, Pairs(x.versions)) \/ x.versions = << >>
         /\ Behind(ExtOf(Extensions(d), 11), 1, x.formats) \/ x.formats = << >>
BackHello(d) ==
  LET c == ClientHello(d)
  IN  c # Minimal =>
        /\ Behind(d, 37 + At(d, 34), Pairs(c.ciphers))
        /\ \E p \in 37 .. Len(d) : Behind(d, p, FlattenSeq(c.extensions))
        /\ \E p \in 37 .. Len(d) : Behind(d, p, FlattenSeq(ServerHello(d).extensions))
BackFrames(d) ==
  /\ Behind(d, 0, FlattenSeq(H2Frames(d)))
  /\ \A i \in DOMAIN H2Frames(d) :
       LET f == H2Frames(d)[i]
       IN  HeaderBlock(f) # << >> => Len(HeaderBlock(f)) = U24(f, 0)
BackQuic(d) ==
  QuicHeader(d) # Nothing =>
    Behind(d, 5, Coded(<<QuicHeader(d).dcid, QuicHeader(d).scid>>))
BackInt(d) ==
  LET got == HpackInt(d, 0, 5)
  IN  got # Nothing /\ Head(d) % 32 = 31 => got[1] = IntOf(d, 5)

LEMMA AllBack ==
  ASSUME NEW d \in Bytes
  PROVE  /\ BackAlpn(d) /\ BackSni(d) /\ BackCerts(d) /\ BackExtensions(d)
         /\ BackHello(d) /\ BackFrames(d) /\ BackQuic(d) /\ BackInt(d)
<1>1. BackAlpn(d)
  BY AlpnBack, Zenon DEF BackAlpn
<1>2. BackSni(d)
  BY SniBack, Zenon DEF BackSni
<1>3. BackCerts(d)
  BY CertsBack, Zenon DEF BackCerts
<1>4. BackExtensions(d)
  BY ExtensionsBack, Zenon DEF BackExtensions
<1>5. BackHello(d)
  BY HelloBack, Zenon DEF BackHello
<1>6. BackFrames(d)
  BY FramesBack, Zenon DEF BackFrames
<1>7. BackQuic(d)
  BY QuicBack, Zenon DEF BackQuic
<1>8. BackInt(d)
  BY IntBack, Zenon DEF BackInt
<1> QED  BY <1>1, <1>2, <1>3, <1>4, <1>5, <1>6, <1>7, <1>8

LEMMA WrittenAgain ==
  ASSUME Readable
  PROVE  ReadsBack
<1>1. ReadsBack <=> CASE kind = "alpn"       -> BackAlpn(data)
                      [] kind = "sni"        -> BackSni(data)
                      [] kind = "certs"      -> BackCerts(data)
                      [] kind = "extensions" -> BackExtensions(data)
                      [] kind = "hello"      -> BackHello(data)
                      [] kind = "h2"         -> BackFrames(data)
                      [] kind = "quic"       -> BackQuic(data)
                      [] kind = "int"        -> BackInt(data)
                      [] OTHER               -> TRUE
  BY Zenon DEF ReadsBack, BackAlpn, BackSni, BackCerts, BackExtensions, BackHello,
               BackFrames, BackQuic, BackInt
<1>2. CASE kind \in {"alpn", "sni", "certs", "extensions", "hello", "h2", "quic", "int"}
  <2>1. kind \notin {"hpack", "ja", "http"}
    BY <1>2
  <2>2. Alphabet(kind) = Byte
    BY <2>1, Zenon DEF Alphabet
  <2>3. data \in Bytes
    BY <2>2 DEF Readable, Bytes
  <2> QED  BY <1>1, <1>2, <2>3, AllBack
<1>3. CASE kind \notin {"alpn", "sni", "certs", "extensions", "hello", "h2", "quic", "int"}
  BY <1>1, <1>3
<1> QED  BY <1>2, <1>3

(***************************************************************************)
(* Names: what the labels from a position on are, one label at a time.     *)
(***************************************************************************)
Begun(p) == [at |-> p, got |-> << >>]

LEMMA LabelsStuck ==
  ASSUME NEW d \in Bytes, NEW p \in Nat, ~Whole(Len(d), LabelSize(d), Begun(p))
  PROVE  Labels(d, p) = Begun(p)
<1> DEFINE m == Len(d)
           size == LabelSize(d)
<1>1. m \in Nat /\ m <= Len(d) /\ Sized(m, size)
  BY Reads, LabelSizes, ParsersAssumption
<1>2. PICK f : RunSteps(d, p, m, size, f)
  BY <1>1, RunByIs
<1>3. f[0] = Begun(p) /\ Labels(d, p) = f[m]
  BY <1>2 DEF RunSteps, Labels, Begun
<1>4. f[0] \in Runs
  <2>1. << >> \in Seq(Bytes)
    BY EmptySeq
  <2> QED  BY <1>3, <2>1 DEF Runs, Begun
<1>5. ~Whole(m, size, f[0])
  BY <1>3
<1> HIDE DEF m, size
<1>6. \A k \in 0 .. m : f[k] \in Runs /\ ~Whole(m, size, f[k]) => f[m] = f[k]
  BY <1>1, <1>2, RunStays
<1>7. 0 \in 0 .. m
  BY <1>1
<1> QED  BY <1>3, <1>4, <1>5, <1>6, <1>7

LEMMA AppendBehind ==
  ASSUME NEW x \in Bytes, NEW s \in Seq(Bytes), NEW y \in Bytes
  PROVE  Append(<<x>> \o s, y) = <<x>> \o Append(s, y)
<1>1. <<x>> \in Seq(Bytes) /\ <<y>> \in Seq(Bytes)
  OBVIOUS
<1> DEFINE u == <<x>>
<1>2. u \in Seq(Bytes) /\ u \o s \in Seq(Bytes)
  <2>1. u \in Seq(Bytes)
    BY <1>1
  <2> HIDE DEF u
  <2> QED  BY <2>1, ConcatProperties
<1> HIDE DEF u
<1>3. Append(u \o s, y) = (u \o s) \o <<y>> /\ Append(s, y) = s \o <<y>>
  BY <1>2, AppendIsConcat
<1>4. (u \o s) \o <<y>> = u \o (s \o <<y>>)
  BY <1>1, <1>2, ConcatAssociative
<1>5. Append(u \o s, y) = u \o Append(s, y)
  BY <1>3, <1>4
<1> QED  BY <1>5, Zenon DEF u

\* A run that has one entry more in front.
Ahead(x, was, is) == is.at = was.at /\ is.got = <<x>> \o was.got

LEMMA TakesAhead ==
  ASSUME NEW d \in Bytes, NEW end \in Nat, end <= Len(d), NEW size, Sized(end, size),
         NEW x \in Bytes, NEW was \in Runs, NEW is \in Runs, Ahead(x, was, is)
  PROVE  Ahead(x, Take(d, end, size, was), Take(d, end, size, is))
<1>1. Whole(end, size, is) <=> Whole(end, size, was)
  BY DEF Whole, Ahead
<1>2. CASE Whole(end, size, was)
  <2> DEFINE a == was.at
             b == a + size[a]
             y == Slice(d, a, b)
  <2>1. /\ Take(d, end, size, was) = Taken(d, size, was)
        /\ Take(d, end, size, is) = Taken(d, size, is)
    BY <1>1, <1>2, TakeIs
  <2>2. a \in Nat /\ b \in Nat /\ a <= b /\ b <= Len(d)
    <3>1. a \in Nat /\ size[a] \in Nat
      BY <1>2, TakeIs DEF Runs
    <3>2. b <= end
      BY <1>2 DEF Whole
    <3>3. Len(d) \in Nat
      BY Reads
    <3> DEFINE n == size[a]
    <3> HIDE DEF a, n
    <3> QED  BY <3>1, <3>2, <3>3 DEF n
  <2>3. y \in Bytes
    <3> HIDE DEF a, b
    <3> QED  BY <2>2, SliceIs
  <2>4. was.got \in Seq(Bytes)
    BY DEF Runs
  <2>5. is.at = a /\ is.got = <<x>> \o was.got
    BY DEF Ahead
  <2> HIDE DEF y
  <2>6. Append(<<x>> \o was.got, y) = <<x>> \o Append(was.got, y)
    BY <2>3, <2>4, AppendBehind
  <2>7. /\ Taken(d, size, was) = [at |-> b, got |-> Append(was.got, y)]
        /\ Taken(d, size, is) = [at |-> b, got |-> Append(<<x>> \o was.got, y)]
    BY <2>5, Zenon DEF Taken, y
  <2> QED  BY <2>1, <2>6, <2>7 DEF Ahead
<1>3. CASE ~Whole(end, size, was)
  <2>1. Take(d, end, size, was) = was /\ Take(d, end, size, is) = is
    BY <1>1, <1>3, TakeIs
  <2> QED  BY <2>1
<1> QED  BY <1>2, <1>3

LEMMA LabelsShift ==
  ASSUME NEW d \in Bytes, NEW p \in Nat, NEW b \in 1 .. 191, p < Len(d), At(d, p) = b,
         p + 1 + b <= Len(d)
  PROVE  Ahead(Slice(d, p, p + 1 + b), Labels(d, p + 1 + b), Labels(d, p))
<1> DEFINE m == Len(d)
           q == p + 1 + b
           size == LabelSize(d)
           x == Slice(d, p, q)
<1>1. m \in Nat /\ m <= Len(d) /\ Sized(m, size)
  BY Reads, LabelSizes, ParsersAssumption
<1>2. q \in Nat /\ p < q /\ q <= m /\ p < m /\ p <= q /\ m - 1 \in Nat /\ q >= 1
  BY <1>1
<1>3. PICK f : RunSteps(d, p, m, size, f)
  BY <1>1, RunByIs
<1>4. PICK g : RunSteps(d, q, m, size, g)
  BY <1>1, RunByIs
<1>5. /\ Labels(d, p) = f[m] /\ Labels(d, q) = g[m]
      /\ f[0] = [at |-> p, got |-> << >>] /\ g[0] = [at |-> q, got |-> << >>]
      /\ \A i \in 1 .. m : f[i] = Take(d, m, size, f[i - 1])
      /\ \A i \in 1 .. m : g[i] = Take(d, m, size, g[i - 1])
  BY <1>3, <1>4 DEF RunSteps, Labels
<1>6. size[p] = 1 + b
  <2>1. p \in 0 .. m - 1 /\ At(d, p) \in 1 .. 191
    BY <1>1
  <2> QED  BY <2>1, LabelSizes, ParsersAssumption
<1>7. x \in Bytes
  <2> HIDE DEF q
  <2> QED  BY <1>2, SliceIs
<1> HIDE DEF m, size, x
<1>8. \A i \in 0 .. m : f[i] \in Runs
  <2>1. \A i \in 0 .. m : /\ f[i] \in Runs /\ f[i].at >= p
                          /\ f[i].at >= p + i \/ ~Whole(m, size, f[i])
    BY <1>1, <1>3, RunAdvances
  <2> QED  BY <2>1
<1>9. \A i \in 0 .. m : g[i] \in Runs /\ (g[i].at >= q + i \/ ~Whole(m, size, g[i]))
  <2> HIDE DEF q
  <2>1. \A i \in 0 .. m : /\ g[i] \in Runs /\ g[i].at >= q
                          /\ g[i].at >= q + i \/ ~Whole(m, size, g[i])
    BY <1>1, <1>2, <1>4, RunAdvances
  <2> QED  BY <2>1
<1> DEFINE T == {i \in Nat : i + 1 <= m => Ahead(x, g[i], f[i + 1])}
<1>10. 0 \in T
  <2>1. 0 \in 0 .. m /\ 1 \in 1 .. m /\ 1 - 1 = 0 /\ 0 + 1 = 1
    BY <1>1, <1>2
  <2>2. f[1] = Take(d, m, size, f[0])
    BY <1>5, <2>1
  <2>3. f[0].at = p /\ f[0].got = << >> /\ f[0] \in Runs
    BY <1>5, <1>8, <2>1
  <2>4. p + size[p] = q
    BY <1>6
  <2>5. Whole(m, size, f[0])
    <3>1. size[p] # Nothing
      BY <1>6, ParsersAssumption
    <3>2. f[0].at + size[f[0].at] <= m
      BY <1>2, <2>3, <2>4
    <3> HIDE DEF q
    <3> QED  BY <1>2, <2>3, <3>1, <3>2 DEF Whole
  <2>6. f[1] = Taken(d, size, f[0])
    BY <1>1, <2>2, <2>3, <2>5, TakeIs
  <2>7. f[1].at = q /\ f[1].got = Append(<< >>, x)
    <3>1. Taken(d, size, f[0]) =
            [at |-> p + size[p], got |-> Append(<< >>, Slice(d, p, p + size[p]))]
      BY <2>3, Zenon DEF Taken
    <3>2. Taken(d, size, f[0]) = [at |-> q, got |-> Append(<< >>, x)]
      BY <2>4, <3>1, Zenon DEF x
    <3> HIDE DEF q
    <3> QED  BY <2>6, <3>2
  <2>8. Append(<< >>, x) = <<x>> /\ <<x>> \o << >> = <<x>>
    OBVIOUS
  <2>9. g[0].at = q /\ g[0].got = << >>
    <3> HIDE DEF q
    <3> QED  BY <1>5
  <2> HIDE DEF q
  <2>10. Ahead(x, g[0], f[1])
    BY <2>7, <2>8, <2>9 DEF Ahead
  <2> QED  BY <2>1, <2>10
<1>11. ASSUME NEW i \in Nat, i \in T PROVE i + 1 \in T
  <2> HIDE DEF q
  <2> SUFFICES ASSUME (i + 1) + 1 <= m PROVE Ahead(x, g[i + 1], f[(i + 1) + 1])
    OBVIOUS
  <2>1. /\ i + 1 <= m /\ i + 1 \in 1 .. m /\ (i + 1) + 1 \in 1 .. m
        /\ (i + 1) - 1 = i /\ ((i + 1) + 1) - 1 = i + 1
        /\ i \in 0 .. m /\ i + 1 \in 0 .. m
    BY <1>1
  <2>2. Ahead(x, g[i], f[i + 1]) /\ g[i] \in Runs /\ f[i + 1] \in Runs
    BY <1>8, <1>9, <1>11, <2>1
  <2>3. g[i + 1] = Take(d, m, size, g[i]) /\ f[(i + 1) + 1] = Take(d, m, size, f[i + 1])
    BY <1>5, <2>1
  <2> QED  BY <1>1, <1>7, <2>2, <2>3, TakesAhead
<1> HIDE DEF T
<1>12. Nat \subseteq T
  BY <1>10, <1>11, SetInduction
<1>13. Ahead(x, g[m - 1], f[m])
  <2>1. (m - 1) + 1 = m /\ m <= m
    BY <1>1
  <2>2. m - 1 \in T
    BY <1>2, <1>12
  <2> QED  BY <2>1, <2>2 DEF T
<1>14. g[m] = g[m - 1]
  <2>1. m - 1 \in 0 .. m
    BY <1>1, <1>2
  <2>2. g[m - 1] \in Runs /\ (g[m - 1].at >= q + (m - 1) \/ ~Whole(m, size, g[m - 1]))
    BY <1>9, <2>1
  <2>3. ~Whole(m, size, g[m - 1])
    <3> HIDE DEF q
    <3> SUFFICES ASSUME g[m - 1].at >= q + (m - 1) PROVE ~Whole(m, size, g[m - 1])
      BY <2>2
    <3>1. g[m - 1].at \in Nat
      BY <2>2 DEF Runs
    <3>2. ~(g[m - 1].at < m)
      BY <1>1, <1>2, <3>1
    <3> QED  BY <3>2 DEF Whole
  <2>4. \A k \in 0 .. m : g[k] \in Runs /\ ~Whole(m, size, g[k]) => g[m] = g[k]
    <3> HIDE DEF q
    <3> QED  BY <1>1, <1>4, RunStays
  <2> QED  BY <2>1, <2>2, <2>3, <2>4
<1> QED  BY <1>5, <1>13, <1>14 DEF x

(***************************************************************************)
(* A name by its first label or pointer.                                   *)
(***************************************************************************)
\* The empty label that a pointer to the root leaves is not one of the name.
LEMMA UnrootedIs ==
  /\ Unrooted(<< >>) = << >>
  /\ \A s \in Seq(Bytes), e \in Bytes :
       Unrooted(Append(s, e)) = IF e = << >> THEN s ELSE Append(s, e)
<1>1. Unrooted(<< >>) = << >>
  BY DEF Unrooted, Rooted
<1>2. ASSUME NEW s \in Seq(Bytes), NEW e \in Bytes
      PROVE  Unrooted(Append(s, e)) = IF e = << >> THEN s ELSE Append(s, e)
  <2> DEFINE t == Append(s, e)
             n == Len(s)
  <2>1. t \in Seq(Bytes) /\ t # << >> /\ Len(t) = n + 1 /\ t[n + 1] = e /\ n \in Nat
    BY AppendProperties, LenProperties
  <2>2. \A i \in 1 .. n : t[i] = s[i]
    BY AppendProperties
  <2>3. Last(t) = e
    <3> HIDE DEF t, n
    <3> QED  BY <2>1, Zenon DEF Last
  <2>4. Front(t) = s
    <3> DEFINE f == SubSeq(t, 1, Len(t) - 1)
    <3>1. Len(t) - 1 = n
      <4> HIDE DEF t, n
      <4> QED  BY <2>1
    <3>2. f = SubSeq(t, 1, n)
      BY <3>1
    <3> HIDE DEF t, n, f
    <3>3. \A i \in 1 .. n : t[i] \in Bytes
      BY <2>1, ElementOfSeq
    <3>4. /\ SubSeq(t, 1, n) \in Seq(Bytes) /\ Len(SubSeq(t, 1, n)) = n
          /\ \A i \in 1 .. n : SubSeq(t, 1, n)[i] = t[i]
      <4>1. 1 \in Int /\ n \in Int
        BY <2>1
      <4>2. /\ SubSeq(t, 1, n) \in Seq(Bytes)
            /\ Len(SubSeq(t, 1, n)) = IF 1 <= n THEN n - 1 + 1 ELSE 0
            /\ \A i \in 1 .. n - 1 + 1 : SubSeq(t, 1, n)[i] = t[1 + i - 1]
        BY <3>3, <4>1, SubSeqProperties
      <4> QED  BY <2>1, <4>2
    <3>5. f = s
      <4>1. /\ f \in Seq(Bytes) /\ s \in Seq(Bytes) /\ Len(f) = Len(s)
            /\ \A i \in 1 .. Len(f) : f[i] = s[i]
        BY <2>2, <3>2, <3>4 DEF n
      <4> QED  BY <4>1, SeqEqual
    <3> QED  BY <3>5, Zenon DEF Front, f
  <2>5. Unrooted(t) = IF t # << >> /\ Last(t) = << >> THEN Front(t) ELSE t
    BY Zenon DEF Unrooted, Rooted
  <2> HIDE DEF t
  <2>6. Unrooted(t) = IF e = << >> THEN s ELSE t
    BY <2>1, <2>3, <2>4, <2>5
  <2> QED  BY <2>6 DEF t
<1> QED  BY <1>1, <1>2

\* A label in front of a name; behind it, the root is an empty label.
Onto(l, was, is) == is = <<l>> \o was \/ (was = << >> /\ is = Append(<<l>>, << >>))

LEMMA UnrootedOnto ==
  ASSUME NEW l \in Bytes, l # << >>, NEW was \in Seq(Bytes), NEW is, Onto(l, was, is)
  PROVE  is \in Seq(Bytes) /\ Unrooted(is) = <<l>> \o Unrooted(was)
<1>1. << >> \in Bytes /\ << >> \in Seq(Bytes) /\ <<l>> \in Seq(Bytes)
  BY EmptySeq DEF Bytes
<1>2. Append(<< >>, l) = <<l>> /\ <<l>> \o << >> = <<l>>
  <2>1. Append(<< >>, l) = <<l>>
    OBVIOUS
  <2>2. <<l>> \o << >> = <<l>>
    <3> DEFINE u == <<l>>
    <3>1. u \in Seq(Bytes)
      BY <1>1
    <3> HIDE DEF u
    <3>2. u \o << >> = u
      BY <3>1, ConcatEmptySeq
    <3> QED  BY <3>2 DEF u
  <2> QED  BY <2>1, <2>2
<1>3. Unrooted(<< >>) = << >>
  BY UnrootedIs
<1>4. CASE was = << >>
  <2>1. Unrooted(Append(<< >>, l)) = Append(<< >>, l)
    BY <1>1, UnrootedIs
  <2>2. Unrooted(<<l>>) = <<l>>
    BY <1>2, <2>1
  <2>3. Unrooted(Append(<<l>>, << >>)) = <<l>>
    BY <1>1, UnrootedIs
  <2>4. is = <<l>> \/ is = Append(<<l>>, << >>)
    BY <1>2, <1>4 DEF Onto
  <2>5. Unrooted(is) = <<l>>
    BY <2>2, <2>3, <2>4
  <2>6. Append(<<l>>, << >>) \in Seq(Bytes)
    BY <1>1, AppendProperties
  <2>7. is \in Seq(Bytes)
    BY <1>1, <2>4, <2>6
  <2> QED  BY <1>2, <1>3, <1>4, <2>5, <2>7
<1>5. CASE was # << >>
  <2>1. PICK s \in Seq(Bytes), e \in Bytes : was = Append(s, e)
    BY <1>5, SequenceEmptyOrAppend
  <2>2. is = <<l>> \o was
    BY <1>5 DEF Onto
  <2> DEFINE u == <<l>>
  <2>3. u \in Seq(Bytes) /\ is = u \o was
    BY <1>1, <2>2
  <2> HIDE DEF u
  <2>4. u \o was \in Seq(Bytes) /\ u \o s \in Seq(Bytes)
    BY <2>3, ConcatProperties
  <2>5. u \o Append(s, e) = Append(u \o s, e)
    BY AppendBehind DEF u
  <2>6. Unrooted(was) = IF e = << >> THEN s ELSE Append(s, e)
    BY <2>1, UnrootedIs
  <2>7. Unrooted(Append(u \o s, e)) = IF e = << >> THEN u \o s ELSE Append(u \o s, e)
    BY <2>4, UnrootedIs
  <2>8. Unrooted(is) = u \o Unrooted(was)
    BY <2>1, <2>3, <2>5, <2>6, <2>7
  <2> QED  BY <2>3, <2>4, <2>8 DEF u
<1> QED  BY <1>4, <1>5

LabelsOf(run) == [i \in DOMAIN run.got |-> Tail(run.got[i])]
NameOf(ls, name) == ls \o (IF ls # << >> /\ name = << >> THEN << << >> >> ELSE name)

\* What the code makes of the first byte that is not a label.
LEMMA DnsNameIs ==
  ASSUME NEW d \in Bytes, NEW pos \in Nat, NEW base, NEW pointed
  PROVE  LET run  == Labels(d, pos)
             a    == run.at
             part == pointed[base + Pointer(d, a)]
         IN  DnsName(d, pos, base, pointed) =
               IF a >= Len(d) THEN Refused
               ELSE IF At(d, a) = 0 THEN NameRead(LabelsOf(run), a + 1)
               ELSE IF At(d, a) < 192 \/ a + 1 >= Len(d) THEN Refused
               ELSE IF ~part.ok THEN Refused
               ELSE NameRead(NameOf(LabelsOf(run), part.name), a + 2)
BY Zenon DEF DnsName, Labels, LabelsOf, NameOf

\* A name that does not begin with a label.
LEMMA NameEnds ==
  ASSUME NEW d \in Bytes, NEW p \in Nat, NEW base, NEW pointed
  PROVE  LET name == DnsName(d, p, base, pointed)
             part == pointed[base + Pointer(d, p)]
         IN  /\ p >= Len(d) => ~name.ok
             /\ p < Len(d) /\ At(d, p) = 0 => name = NameRead(<< >>, p + 1)
             /\ p < Len(d) /\ At(d, p) >= 192 /\ p + 1 >= Len(d) => ~name.ok
             /\ p + 1 < Len(d) /\ At(d, p) >= 192 /\ ~part.ok => ~name.ok
             /\ p + 1 < Len(d) /\ At(d, p) >= 192 /\ part.ok /\ part.name \in Seq(Bytes) =>
                  name = NameRead(part.name, p + 2)
             /\ p < Len(d) /\ At(d, p) \in 1 .. 191 /\ p + 1 + At(d, p) > Len(d) => ~name.ok
<1> DEFINE m == Len(d)
           b == At(d, p)
           name == DnsName(d, p, base, pointed)
           part == pointed[base + Pointer(d, p)]
           run == Labels(d, p)
<1>1. m \in Nat /\ (p < m => b \in Nat /\ b < 256)
  <2>1. m \in Nat
    BY Reads
  <2>2. p < m => p \in 0 .. m - 1
    BY <2>1
  <2> QED  BY <2>1, <2>2, Reads
<1>2. ASSUME p >= m \/ ~(b \in 1 .. 191) \/ p + 1 + b > m
      PROVE  run = Begun(p)
  <2>1. ~Whole(m, LabelSize(d), Begun(p))
    <3>1. Begun(p).at = p
      BY DEF Begun
    <3>2. Whole(m, LabelSize(d), Begun(p)) <=>
            p < m /\ LabelSize(d)[p] # Nothing /\ p + LabelSize(d)[p] <= m
      BY <3>1 DEF Whole
    <3>3. CASE p >= m
      <4> HIDE DEF m, b
      <4> QED  BY <1>1, <3>2, <3>3
    <3>4. CASE p < m
      <4>1. p \in 0 .. m - 1
        BY <1>1, <3>4
      <4>2. /\ b \in 1 .. 191 => LabelSize(d)[p] = 1 + b
            /\ b \notin 1 .. 191 => LabelSize(d)[p] = Nothing
        BY <4>1, LabelSizes, ParsersAssumption
      <4> HIDE DEF m, b
      <4> QED  BY <1>1, <1>2, <3>2, <3>4, <4>2
    <3> QED  BY <1>1, <3>3, <3>4
  <2> QED  BY <2>1, LabelsStuck
<1>3. ASSUME run = Begun(p)
      PROVE  name = IF p >= m THEN Refused
                    ELSE IF b = 0 THEN NameRead(<< >>, p + 1)
                    ELSE IF b < 192 \/ p + 1 >= m THEN Refused
                    ELSE IF ~part.ok THEN Refused
                    ELSE NameRead(NameOf(<< >>, part.name), p + 2)
  <2>1. run.at = p /\ LabelsOf(run) = << >>
    <3>1. run.at = p /\ run.got = << >>
      BY <1>3 DEF Begun
    <3> HIDE DEF run
    <3> QED  BY <3>1 DEF LabelsOf
  <2>2. name = IF run.at >= m THEN Refused
               ELSE IF At(d, run.at) = 0 THEN NameRead(LabelsOf(run), run.at + 1)
               ELSE IF At(d, run.at) < 192 \/ run.at + 1 >= m THEN Refused
               ELSE IF ~pointed[base + Pointer(d, run.at)].ok THEN Refused
               ELSE NameRead(NameOf(LabelsOf(run), pointed[base + Pointer(d, run.at)].name),
                             run.at + 2)
    BY DnsNameIs, Zenon
  <2> HIDE DEF name, m, run
  <2> QED  BY <2>1, <2>2, Zenon
<1>4. ~Refused.ok
  BY DEF Refused
<1>5. part.name \in Seq(Bytes) => NameOf(<< >>, part.name) = part.name
  <2> DEFINE n == part.name
  <2> HIDE DEF n
  <2>1. n \in Seq(Bytes) => << >> \o n = n
    BY ConcatEmptySeq
  <2>2. NameOf(<< >>, n) = << >> \o n
    BY DEF NameOf
  <2> QED  BY <2>1, <2>2 DEF n
<1> HIDE DEF m, b, name, part, run
<1>6. p + 1 < m /\ b >= 192 =>
         ~(p >= m) /\ ~(b = 0) /\ ~(b < 192) /\ ~(p + 1 >= m) /\ ~(b \in 1 .. 191)
  BY <1>1
<1>7. p >= m => ~name.ok
  BY <1>2, <1>3, <1>4
<1>8. p < m /\ b = 0 => name = NameRead(<< >>, p + 1)
  BY <1>1, <1>2, <1>3
<1>9. p < m /\ b >= 192 /\ p + 1 >= m => ~name.ok
  BY <1>1, <1>2, <1>3, <1>4
<1>10. p + 1 < m /\ b >= 192 /\ ~part.ok => ~name.ok
  <2> SUFFICES ASSUME p + 1 < m, b >= 192, ~part.ok PROVE ~name.ok
    OBVIOUS
  <2>1. ~(p >= m) /\ ~(b = 0) /\ ~(b < 192) /\ ~(p + 1 >= m) /\ ~(b \in 1 .. 191)
    BY <1>6
  <2>2. name = Refused
    BY <1>2, <1>3, <2>1
  <2> QED  BY <1>4, <2>2
<1>11. p + 1 < m /\ b >= 192 /\ part.ok /\ part.name \in Seq(Bytes) =>
         name = NameRead(part.name, p + 2)
  <2> SUFFICES ASSUME p + 1 < m, b >= 192, part.ok, part.name \in Seq(Bytes)
               PROVE  name = NameRead(part.name, p + 2)
    OBVIOUS
  <2>1. ~(p >= m) /\ ~(b = 0) /\ ~(b < 192) /\ ~(p + 1 >= m) /\ ~(b \in 1 .. 191)
    BY <1>6
  <2>2. name = NameRead(NameOf(<< >>, part.name), p + 2)
    BY <1>2, <1>3, <2>1
  <2> QED  BY <1>5, <2>2
<1>12. p < m /\ b \in 1 .. 191 /\ p + 1 + b > m => ~name.ok
  BY <1>1, <1>2, <1>3, <1>4
<1> QED  BY <1>7, <1>8, <1>9, <1>10, <1>11, <1>12 DEF m, b, name, part

\* The labels of a run are what is behind their lengths.
LEMMA LabelsAre ==
  ASSUME NEW d \in Bytes, NEW p \in Nat, p <= Len(d)
  PROVE  LET got == Labels(d, p).got
             ls  == LabelsOf(Labels(d, p))
         IN  /\ got \in Seq(Bytes) /\ ls \in Seq(Bytes) /\ Len(ls) = Len(got)
             /\ \A i \in 1 .. Len(got) : ls[i] = Tail(got[i])
<1> DEFINE m == Len(d)
           size == LabelSize(d)
           got == Labels(d, p).got
<1>1. m \in Nat /\ m <= Len(d) /\ p <= m /\ Sized(m, size)
  BY Reads, LabelSizes, ParsersAssumption
<1> HIDE DEF m, size
<1>2. LET es == Entries(d, p, m, size)
      IN  /\ es \in Seq(Bytes)
          /\ \A i \in 1 .. Len(es) : \E a : EntryAt(d, p, m, size, es[i], a)
  BY <1>1, EntriesOf
<1>3. got = Entries(d, p, m, size)
  BY Zenon DEF Labels, Entries, m, size
<1>4. got \in Seq(Bytes) /\ \A i \in 1 .. Len(got) : \E a : EntryAt(d, p, m, size, got[i], a)
  BY <1>2, <1>3
<1> HIDE DEF got
<1>5. ASSUME NEW i \in 1 .. Len(got) PROVE Tail(got[i]) \in Bytes
  <2>1. PICK a : EntryAt(d, p, m, size, got[i], a)
    BY <1>4
  <2> DEFINE b == a + size[a]
  <2>2. /\ a \in Nat /\ b \in Nat /\ a < b /\ b <= Len(d) /\ got[i] = Slice(d, a, b)
    <3>1. a \in Nat /\ size[a] \in Nat \ {0} /\ b <= m /\ got[i] = Slice(d, a, b)
      BY <2>1 DEF EntryAt
    <3> DEFINE n == size[a]
    <3> HIDE DEF n
    <3>2. a + n \in Nat /\ a < a + n
      BY <3>1 DEF n
    <3> QED  BY <1>1, <3>1, <3>2 DEF n, m
  <2> HIDE DEF b
  <2>3. Tail(got[i]) = Slice(d, a + 1, b)
    BY <2>2, SlicePrefixed
  <2>4. a + 1 \in Nat /\ a + 1 <= b
    BY <2>2
  <2> DEFINE c == a + 1
  <2> HIDE DEF c
  <2>5. Slice(d, c, b) \in Bytes
    BY <2>2, <2>4, SliceIs DEF c
  <2> QED  BY <2>3, <2>5 DEF c
<1>6. LabelsOf(Labels(d, p)) = [i \in 1 .. Len(got) |-> Tail(got[i])]
  <2>1. DOMAIN got = 1 .. Len(got)
    BY <1>4, LenProperties
  <2>2. LabelsOf(Labels(d, p)) = [i \in DOMAIN got |-> Tail(got[i])]
    BY Zenon DEF LabelsOf, got
  <2> QED  BY <2>1, <2>2
<1>7. Len(got) \in Nat
  BY <1>4, LenProperties
<1>8. [i \in 1 .. Len(got) |-> Tail(got[i])] \in Seq(Bytes)
  BY <1>5, <1>7, IsASeq
<1> DEFINE ls == [i \in 1 .. Len(got) |-> Tail(got[i])]
<1>9. Len(ls) = Len(got) /\ \A i \in 1 .. Len(got) : ls[i] = Tail(got[i])
  BY <1>7
<1>10. ls \in Seq(Bytes) /\ ls = LabelsOf(Labels(d, p))
  BY <1>6, <1>8
<1> HIDE DEF ls
<1> QED  BY <1>4, <1>9, <1>10 DEF got

LEMMA NameOfOnto ==
  ASSUME NEW l \in Bytes, NEW ls \in Seq(Bytes), NEW n \in Seq(Bytes)
  PROVE  Onto(l, NameOf(ls, n), NameOf(<<l>> \o ls, n))
<1> DEFINE u == <<l>>
           e == << >>
           root == <<e>>
           more == u \o ls
<1>1. u \in Seq(Bytes) /\ e \in Bytes /\ root \in Seq(Bytes) /\ u # << >>
  BY EmptySeq DEF Bytes
<1> HIDE DEF u, root
<1>2. more \in Seq(Bytes) /\ more # << >>
  BY <1>1, ConcatProperties, ConcatEqualIffEmpty
<1> HIDE DEF more
<1>3. CASE n = << >> /\ ls = << >>
  <2>1. NameOf(ls, n) = << >>
    <3>1. << >> \o << >> = << >>
      BY <1>3, ConcatEmptySeq
    <3> QED  BY <1>3, <3>1 DEF NameOf
  <2>2. NameOf(more, n) = more \o root
    BY <1>2, <1>3, Zenon DEF NameOf, root, e
  <2>3. more = u
    BY <1>1, <1>3, ConcatEmptySeq DEF more
  <2>4. u \o root = Append(u, e)
    BY <1>1, AppendIsConcat DEF root
  <2> QED  BY <2>1, <2>2, <2>3, <2>4 DEF Onto, u, more
<1>4. CASE ~(n = << >> /\ ls = << >>)
  <2> DEFINE rest == IF n = << >> THEN root ELSE n
  <2>1. NameOf(ls, n) = ls \o rest /\ NameOf(more, n) = more \o rest
    BY <1>2, <1>4, Zenon DEF NameOf, root, e
  <2>2. rest \in Seq(Bytes)
    BY <1>1
  <2> HIDE DEF rest
  <2>3. (u \o ls) \o rest = u \o (ls \o rest)
    BY <1>1, <2>2, ConcatAssociative
  <2> QED  BY <2>1, <2>3, Zenon DEF Onto, u, more
<1> QED  BY <1>3, <1>4

Named(pointed) == \A t \in Nat : pointed[t].ok => pointed[t].name \in Seq(Bytes)

\* Behind its label, a name is the one that begins there.
Follows(l, was, is) ==
  /\ is.ok <=> was.ok
  /\ was.ok => is.end = was.end /\ Onto(l, was.name, is.name)

LEMMA NameOnward ==
  ASSUME NEW d \in Bytes, NEW p \in Nat, NEW b \in 1 .. 191, p < Len(d), At(d, p) = b,
         p + 1 + b <= Len(d), NEW base \in Nat, NEW pointed, Named(pointed)
  PROVE  Follows(Slice(d, p + 1, p + 1 + b), DnsName(d, p + 1 + b, base, pointed),
                 DnsName(d, p, base, pointed))
<1> DEFINE m == Len(d)
           q == p + 1 + b
           l == Slice(d, p + 1, q)
           x == Slice(d, p, q)
           run == Labels(d, p)
           next == Labels(d, q)
           more == LabelsOf(run)
           ls == LabelsOf(next)
<1>1. m \in Nat /\ q \in Nat /\ p < q /\ q <= m /\ p <= m /\ p + 1 <= q /\ p + 1 \in Nat
  BY Reads
<1>2. Ahead(x, next, run)
  BY LabelsShift
<1>3. Tail(x) = l
  <2> HIDE DEF q
  <2> QED  BY <1>1, SlicePrefixed
<1>4. l \in Bytes /\ x \in Bytes
  <2> DEFINE a == p + 1
  <2>1. a \in Nat /\ a <= q
    BY <1>1
  <2> HIDE DEF q, a
  <2>2. Slice(d, a, q) \in Bytes /\ Slice(d, p, q) \in Bytes
    BY <1>1, <2>1, SliceIs
  <2> QED  BY <2>2 DEF a
<1>5. /\ run.got \in Seq(Bytes) /\ more \in Seq(Bytes) /\ Len(more) = Len(run.got)
      /\ \A i \in 1 .. Len(run.got) : more[i] = Tail(run.got[i])
  BY <1>1, LabelsAre
<1>6. /\ next.got \in Seq(Bytes) /\ ls \in Seq(Bytes) /\ Len(ls) = Len(next.got)
      /\ \A i \in 1 .. Len(next.got) : ls[i] = Tail(next.got[i])
  <2> HIDE DEF q
  <2> QED  BY <1>1, LabelsAre
<1>7. next.at \in Nat
  <2>1. Labels(d, q) \in Runs
    <3> HIDE DEF q
    <3>1. m <= Len(d) /\ Sized(m, LabelSize(d))
      BY <1>1, LabelSizes, ParsersAssumption
    <3> QED  BY <1>1, <3>1, RunEnds DEF Labels
  <2> QED  BY <2>1 DEF Runs
<1> HIDE DEF q, l, x, run, next, more, ls
<1>8. more = <<l>> \o ls
  <2> DEFINE u == <<l>>
             v == <<x>>
             n == Len(next.got)
             r == u \o ls
             g == v \o next.got
  <2>1. Len(u) = 1 /\ u[1] = l /\ Len(v) = 1 /\ v[1] = x
    BY <1>4
  <2>2. u \in Seq(Bytes) /\ v \in Seq(Bytes) /\ ls \in Seq(Bytes) /\ next.got \in Seq(Bytes)
    BY <1>4, <1>6
  <2>3. n \in Nat /\ run.got = g
    BY <1>2, <1>6, LenProperties DEF Ahead
  <2> HIDE DEF u, v
  <2>4. /\ r \in Seq(Bytes) /\ Len(r) = Len(u) + Len(ls)
        /\ \A i \in 1 .. Len(u) + Len(ls) : r[i] = IF i <= Len(u) THEN u[i] ELSE ls[i - Len(u)]
    BY <2>2, ConcatProperties
  <2>5. /\ g \in Seq(Bytes) /\ Len(g) = Len(v) + n
        /\ \A i \in 1 .. Len(v) + n : g[i] = IF i <= Len(v) THEN v[i] ELSE next.got[i - Len(v)]
    BY <2>2, ConcatProperties
  <2> HIDE DEF r, g, n
  <2>6. /\ Len(r) = 1 + n /\ Len(g) = 1 + n
        /\ \A i \in 1 .. 1 + n : r[i] = IF i <= 1 THEN u[i] ELSE ls[i - 1]
        /\ \A i \in 1 .. 1 + n : g[i] = IF i <= 1 THEN v[i] ELSE next.got[i - 1]
    BY <1>6, <2>1, <2>4, <2>5 DEF n
  <2>7. ASSUME NEW i \in 1 .. 1 + n PROVE more[i] = r[i]
    <3>1. more[i] = Tail(g[i])
      BY <1>5, <2>3, <2>6
    <3>2. CASE i <= 1
      <4>1. i = 1
        BY <2>3, <3>2
      <4>2. g[i] = x /\ r[i] = l
        BY <2>1, <2>6, <4>1
      <4> QED  BY <1>3, <3>1, <4>2
    <3>3. CASE ~(i <= 1)
      <4>1. i - 1 \in 1 .. n
        BY <2>3, <3>3
      <4>2. g[i] = next.got[i - 1] /\ r[i] = ls[i - 1]
        BY <2>6, <3>3
      <4>3. ls[i - 1] = Tail(next.got[i - 1])
        BY <1>6, <4>1 DEF n
      <4> QED  BY <3>1, <4>2, <4>3
    <3> QED  BY <3>2, <3>3
  <2>8. Len(more) = 1 + n
    BY <1>5, <2>3, <2>6
  <2>9. more = r
    <3>1. \A i \in 1 .. Len(more) : more[i] = r[i]
      BY <2>7, <2>8
    <3>2. Len(more) = Len(r)
      BY <2>6, <2>8
    <3> QED  BY <1>5, <2>4, <3>1, <3>2, SeqEqual
  <2> QED  BY <2>9, Zenon DEF r, u
<1> DEFINE a == next.at
           part == pointed[base + Pointer(d, a)]
           name(s, t) == IF a >= m THEN Refused
                         ELSE IF At(d, a) = 0 THEN NameRead(s, a + 1)
                         ELSE IF At(d, a) < 192 \/ a + 1 >= m THEN Refused
                         ELSE IF ~part.ok THEN Refused
                         ELSE NameRead(t, a + 2)
<1>9. /\ DnsName(d, q, base, pointed) = name(ls, NameOf(ls, part.name))
      /\ DnsName(d, p, base, pointed) = name(more, NameOf(more, part.name))
  <2>1. run.at = a
    BY <1>2 DEF Ahead
  <2>2. DnsName(d, q, base, pointed) = name(ls, NameOf(ls, part.name))
    BY <1>1, DnsNameIs, Zenon DEF next, ls
  <2>3. DnsName(d, p, base, pointed) =
          IF run.at >= m THEN Refused
          ELSE IF At(d, run.at) = 0 THEN NameRead(more, run.at + 1)
          ELSE IF At(d, run.at) < 192 \/ run.at + 1 >= m THEN Refused
          ELSE IF ~pointed[base + Pointer(d, run.at)].ok THEN Refused
          ELSE NameRead(NameOf(more, pointed[base + Pointer(d, run.at)].name), run.at + 2)
    BY DnsNameIs, Zenon DEF run, more
  <2> QED  BY <2>1, <2>2, <2>3, Zenon
<1>10. Onto(l, ls, more)
  BY <1>8 DEF Onto
<1>11. ASSUME ~(a + 1 >= m), part.ok
       PROVE  Onto(l, NameOf(ls, part.name), NameOf(more, part.name))
  <2> DEFINE t == base + Pointer(d, a)
  <2>1. t \in Nat
    <3>1. a \in 0 .. Len(d) - 2
      BY <1>1, <1>7, <1>11
    <3>2. Continues(d, d)
      BY <1>1 DEF Continues
    <3>3. Pointer(d, a) \in Nat
      BY <3>1, <3>2, Pointers
    <3> QED  BY <3>3
  <2> HIDE DEF t
  <2>2. pointed[t].ok => pointed[t].name \in Seq(Bytes)
    BY <2>1 DEF Named
  <2>3. part = pointed[t]
    BY DEF t
  <2>4. part.name \in Seq(Bytes)
    BY <1>11, <2>2, <2>3
  <2> DEFINE n == part.name
  <2> HIDE DEF n
  <2>5. Onto(l, NameOf(ls, n), NameOf(<<l>> \o ls, n))
    BY <1>4, <1>6, <2>4, NameOfOnto DEF n
  <2> QED  BY <1>8, <2>5, Zenon DEF n
<1> DEFINE s == NameOf(ls, part.name)
           t == NameOf(more, part.name)
<1> HIDE DEF a, m, part, s, t
<1>12. Follows(l, name(ls, s), name(more, t))
  <2>1. \A u, v, i : /\ NameRead(u, i).ok /\ NameRead(u, i).end = i /\ NameRead(u, i).name = u
                     /\ ~Refused.ok
    BY DEF NameRead, Refused
  <2>2. ASSUME NEW u, NEW v, NEW i, Onto(l, u, v)
        PROVE  Follows(l, NameRead(u, i), NameRead(v, i))
    BY <2>1, <2>2 DEF Follows
  <2>3. Follows(l, Refused, Refused)
    BY <2>1 DEF Follows
  <2>4. ~(a + 1 >= m) /\ part.ok => Onto(l, s, t)
    BY <1>11 DEF s, t
  <2> QED  BY <1>10, <2>2, <2>3, <2>4
<1> QED  BY <1>9, <1>12, Zenon DEF s, t, l, q

(***************************************************************************)
(* What a name stands for, step by step.                                   *)
(***************************************************************************)
Meaning == [ok : BOOLEAN, labels : Seq(Bytes), jumps : Nat, end : Nat]
Meanings(d) == {h \in [Nat -> Meaning] : \A p \in Nat : p >= Len(d) => ~h[p].ok}

IsRoot(is, end) == is.ok /\ is.labels = << >> /\ is.jumps = 0 /\ is.end = end
IsBehind(l, inside, next, is) ==
  /\ is.ok <=> next.ok
  /\ next.ok => /\ inside /\ is.jumps = next.jumps /\ is.end = next.end
                /\ is.labels = <<l>> \o next.labels
IsThere(there, is, end) ==
  /\ is.ok <=> there.ok
  /\ is.labels = there.labels /\ is.jumps = there.jumps + 1 /\ is.end = end

LEMMA OnwardIs ==
  ASSUME NEW d \in Bytes, NEW p \in Nat, NEW base \in Nat, NEW h \in Meanings(d)
  PROVE  LET b    == At(d, p)
             next == h[p + 1 + b]
             t    == base + Pointer(d, p)
             is   == Onward(d, p, base, h)
         IN  /\ is \in Meaning
             /\ p >= Len(d) => ~is.ok
             /\ p < Len(d) /\ b = 0 => IsRoot(is, p + 1)
             /\ p < Len(d) /\ b \in 1 .. 191 =>
                  IsBehind(Slice(d, p + 1, p + 1 + b), p + 1 + b <= Len(d), next, is)
             /\ p < Len(d) /\ b >= 192 /\ p + 1 >= Len(d) => ~is.ok
             /\ p + 1 < Len(d) /\ b >= 192 => t \in Nat /\ IsThere(h[t], is, p + 2)
<1> DEFINE m == Len(d)
           b == At(d, p)
           q == p + 1 + b
           next == h[q]
           t == base + Pointer(d, p)
           there == h[t]
           l == Slice(d, p + 1, q)
           is == Onward(d, p, base, h)
<1>1. is = IF p >= m THEN Unread
           ELSE IF b = 0 THEN [Unread EXCEPT !.ok = TRUE, !.end = p + 1]
           ELSE IF b < 192 THEN IF next.ok THEN [next EXCEPT !.labels = <<l>> \o @] ELSE Unread
           ELSE IF p + 1 >= m THEN Unread
           ELSE [there EXCEPT !.jumps = @ + 1, !.end = p + 2]
  BY Zenon DEF Onward
<1>2. m \in Nat /\ (p < m => b \in Nat /\ b < 256)
  <2>1. m \in Nat
    BY Reads
  <2>2. p < m => p \in 0 .. m - 1
    BY <2>1
  <2> QED  BY <2>1, <2>2, Reads
<1>3. h \in [Nat -> Meaning] /\ \A s \in Nat : s >= m => ~h[s].ok
  BY DEF Meanings
<1>4. Unread \in Meaning /\ ~Unread.ok
  <2>1. << >> \in Seq(Bytes)
    BY EmptySeq
  <2> QED  BY <2>1 DEF Unread, Meaning
<1>5. p + 1 < m => t \in Nat
  <2> SUFFICES ASSUME p + 1 < m PROVE t \in Nat
    OBVIOUS
  <2>1. p \in 0 .. Len(d) - 2
    BY <1>2
  <2>2. Continues(d, d)
    BY <1>2 DEF Continues
  <2>3. Pointer(d, p) \in Nat
    BY <2>1, <2>2, Pointers
  <2> QED  BY <2>3
<1>6. p < m => q \in Nat /\ p + 1 <= q
  BY <1>2
<1> HIDE DEF is, t, m, b
<1>7. CASE p >= m
  <2>1. is = Unread
    BY <1>1, <1>7
  <2>2. ~(p < m) /\ ~(p + 1 < m)
    BY <1>2, <1>7
  <2> QED  BY <1>4, <2>1, <2>2 DEF is, m, b
<1>8. CASE p < m /\ b = 0
  <2>1. is = [Unread EXCEPT !.ok = TRUE, !.end = p + 1]
    BY <1>1, <1>2, <1>8
  <2>2. is = [ok |-> TRUE, labels |-> << >>, jumps |-> 0, end |-> p + 1]
    BY <2>1 DEF Unread
  <2>3. is \in Meaning
    <3>1. << >> \in Seq(Bytes) /\ p + 1 \in Nat
      BY EmptySeq
    <3> QED  BY <2>2, <3>1 DEF Meaning
  <2>4. IsRoot(is, p + 1)
    BY <2>2 DEF IsRoot
  <2>5. ~(p >= m) /\ ~(b \in 1 .. 191) /\ ~(b >= 192)
    BY <1>2, <1>8
  <2> QED  BY <2>3, <2>4, <2>5 DEF is, m, b
<1>9. CASE p < m /\ b \in 1 .. 191
  <2>1. ~(p >= m) /\ b # 0 /\ ~(b >= 192) /\ b < 192
    BY <1>2, <1>9
  <2>2. is = IF next.ok THEN [next EXCEPT !.labels = <<l>> \o @] ELSE Unread
    BY <1>1, <2>1, Zenon
  <2>3. next \in Meaning /\ (next.ok => q <= m)
    <3>1. q \in Nat
      BY <1>6, <1>9
    <3> HIDE DEF q
    <3> QED  BY <1>2, <1>3, <3>1
  <2> HIDE DEF next, l
  <2>4. ASSUME next.ok
        PROVE  /\ is \in Meaning /\ is.ok /\ is.jumps = next.jumps /\ is.end = next.end
               /\ is.labels = <<l>> \o next.labels
    <3> DEFINE ls == <<l>> \o next.labels
    <3>1. next.labels \in Seq(Bytes) /\ next.jumps \in Nat /\ next.end \in Nat
          /\ next.ok \in BOOLEAN
      BY <2>3 DEF Meaning
    <3>2. l \in Bytes
      <4> DEFINE a == p + 1
      <4>1. a \in Nat /\ q \in Nat /\ a <= q /\ q <= Len(d)
        <5> HIDE DEF q
        <5> QED  BY <1>6, <1>9, <2>3, <2>4 DEF m
      <4> HIDE DEF a, q
      <4>2. Slice(d, a, q) \in Bytes
        BY <4>1, SliceIs
      <4> QED  BY <4>2 DEF l, a
    <3>3. ls \in Seq(Bytes)
      <4> DEFINE u == <<l>>
      <4>1. u \in Seq(Bytes)
        BY <3>2
      <4> HIDE DEF u
      <4>2. u \o next.labels \in Seq(Bytes)
        BY <3>1, <4>1, ConcatProperties
      <4> QED  BY <4>2 DEF u
    <3>4. is = [next EXCEPT !.labels = ls]
      BY <2>2, <2>4
    <3> HIDE DEF ls
    <3>5. is = [ok |-> next.ok, labels |-> ls, jumps |-> next.jumps, end |-> next.end]
      BY <2>3, <3>4 DEF Meaning
    <3>6. is \in Meaning
      BY <3>1, <3>3, <3>5 DEF Meaning
    <3>7. is.ok /\ is.jumps = next.jumps /\ is.end = next.end /\ is.labels = ls
      BY <2>4, <3>5
    <3> QED  BY <3>6, <3>7 DEF ls
  <2>5. ~next.ok => is \in Meaning /\ ~is.ok
    BY <1>4, <2>2
  <2>6. IsBehind(l, q <= m, next, is)
    <3> HIDE DEF q
    <3> QED  BY <2>3, <2>4, <2>5 DEF IsBehind
  <2>7. is \in Meaning
    BY <2>4, <2>5
  <2> QED  BY <1>9, <2>1, <2>6, <2>7 DEF is, next, l, m, b
<1>10. CASE p < m /\ b >= 192 /\ p + 1 >= m
  <2>1. is = Unread
    BY <1>1, <1>2, <1>10
  <2>2. ~(p >= m) /\ b # 0 /\ ~(b \in 1 .. 191) /\ ~(p + 1 < m)
    BY <1>2, <1>10
  <2> QED  BY <1>4, <2>1, <2>2 DEF is, m, b
<1>11. CASE p + 1 < m /\ b >= 192
  <2>1. ~(p >= m) /\ p < m /\ b # 0 /\ ~(b < 192) /\ ~(b \in 1 .. 191) /\ ~(p + 1 >= m)
    BY <1>2, <1>11
  <2>2. is = [there EXCEPT !.jumps = @ + 1, !.end = p + 2]
    BY <1>1, <2>1
  <2>3. t \in Nat /\ there \in Meaning
    BY <1>3, <1>5, <1>11
  <2> HIDE DEF there
  <2>4. is = [ok |-> there.ok, labels |-> there.labels, jumps |-> there.jumps + 1, end |-> p + 2]
    BY <2>2, <2>3 DEF Meaning
  <2>5. is \in Meaning
    <3>1. there.jumps + 1 \in Nat /\ p + 2 \in Nat
      BY <2>3 DEF Meaning
    <3> QED  BY <2>3, <2>4, <3>1 DEF Meaning
  <2>6. IsThere(there, is, p + 2)
    BY <2>4 DEF IsThere
  <2> QED  BY <1>11, <2>1, <2>3, <2>5, <2>6 DEF is, there, t, m, b
<1>12. (p >= m) \/ (p < m /\ b = 0) \/ (p < m /\ b \in 1 .. 191)
         \/ (p < m /\ b >= 192 /\ p + 1 >= m) \/ (p + 1 < m /\ b >= 192)
  BY <1>2
<1> QED  BY <1>7, <1>8, <1>9, <1>10, <1>11, <1>12

MeantBy(d, base, steps, f) ==
  f = [n \in 0 .. steps |->
         IF n = 0 THEN [p \in Nat |-> Unread]
         ELSE [p \in Nat |-> Onward(d, p, base, f[n - 1])]]
Steps(d) == (MaxJumps + 1) * (Len(d) + 1)
MeantSteps(d, start, base, f) ==
  /\ Meant(d, start, base) = f[Steps(d)][start]
  /\ \A n \in 0 .. Steps(d) : f[n] \in Meanings(d)
  /\ \A p \in Nat : ~f[0][p].ok
  /\ \A n \in 1 .. Steps(d), p \in Nat : f[n][p] = Onward(d, p, base, f[n - 1])

LEMMA MeantByIs ==
  ASSUME NEW d \in Bytes, NEW base \in Nat, NEW start
  PROVE  \E f : MeantSteps(d, start, base, f)
<1> DEFINE k == Steps(d)
           V == Meanings(d)
           zero == [p \in Nat |-> Unread]
           on(h) == [p \in Nat |-> Onward(d, p, base, h)]
           step == [x \in Nat \X V |-> on(x[2])]
           f == CHOOSE f : MeantBy(d, base, k, f)
<1>1. k \in Nat
  <2> DEFINE a == MaxJumps + 1
             b == Len(d) + 1
  <2>1. a \in Nat /\ b \in Nat
    BY Reads, ParsersAssumption
  <2> HIDE DEF a, b
  <2>2. a * b \in Nat
    BY <2>1
  <2> QED  BY <2>2 DEF Steps, a, b
<1>2. zero \in V
  <2>1. Unread \in Meaning /\ ~Unread.ok
    <3>1. << >> \in Seq(Bytes)
      BY EmptySeq
    <3> QED  BY <3>1 DEF Unread, Meaning
  <2> QED  BY <2>1 DEF Meanings
<1>3. ASSUME NEW h \in V PROVE on(h) \in V
  <2>1. ASSUME NEW p \in Nat
        PROVE  Onward(d, p, base, h) \in Meaning /\ (p >= Len(d) => ~Onward(d, p, base, h).ok)
    BY OnwardIs
  <2> QED  BY <2>1 DEF Meanings
<1> HIDE DEF k, V, zero, on
<1>4. PICK g \in [0 .. k -> V] : g[0] = zero /\ \A i \in 1 .. k : g[i] = step[<<i, g[i - 1]>>]
  <2>1. Recursion(V, zero, step)
    BY <1>2, <1>3 DEF Recursion
  <2> HIDE DEF step
  <2>2. Solved(V, zero, step, k)
    BY <1>1, <2>1, RecursionExists
  <2> QED  BY <2>2 DEF Solved
<1>5. ASSUME NEW i \in 1 .. k PROVE g[i] = on(g[i - 1])
  <2>1. i \in Nat /\ g[i - 1] \in V
    BY <1>1, <1>4
  <2> QED  BY <1>4, <2>1
<1>6. MeantBy(d, base, k, g)
  <2> DEFINE h == [i \in 0 .. k |-> IF i = 0 THEN zero ELSE on(g[i - 1])]
  <2>1. ASSUME NEW i \in 0 .. k PROVE g[i] = h[i]
    <3>1. i = 0 \/ i \in 1 .. k
      BY <1>1
    <3> QED  BY <1>4, <1>5, <3>1
  <2>2. g = h
    BY <1>4, <2>1
  <2> QED  BY <2>2, Zenon DEF MeantBy, zero, on
<1>7. MeantBy(d, base, k, f)
  BY <1>6, Zenon
<1>8. Meant(d, start, base) = f[k][start]
  BY Zenon DEF Meant, MeantBy, k, Steps
<1> HIDE DEF f
<1>9. f[0] = zero /\ \A i \in 1 .. k : f[i] = on(f[i - 1])
  <2>1. f = [i \in 0 .. k |-> IF i = 0 THEN zero ELSE on(f[i - 1])]
    BY <1>7, Zenon DEF MeantBy, zero, on
  <2> QED  BY <1>1, <2>1
<1> DEFINE T == {i \in Nat : i <= k => f[i] \in V}
<1>10. 0 \in T
  BY <1>2, <1>9
<1>11. ASSUME NEW i \in Nat, i \in T PROVE i + 1 \in T
  <2> SUFFICES ASSUME i + 1 <= k PROVE f[i + 1] \in V
    OBVIOUS
  <2>1. i + 1 \in 1 .. k /\ (i + 1) - 1 = i /\ f[i] \in V
    BY <1>1, <1>11
  <2> QED  BY <1>3, <1>9, <2>1
<1> HIDE DEF T
<1>12. Nat \subseteq T
  BY <1>10, <1>11, SetInduction
<1>13. \A n \in 0 .. k : f[n] \in V
  BY <1>1, <1>12 DEF T
<1>14. \A p \in Nat : ~f[0][p].ok
  BY <1>9 DEF zero, Unread
<1>15. ASSUME NEW n \in 1 .. k, NEW p \in Nat PROVE f[n][p] = Onward(d, p, base, f[n - 1])
  <2>1. f[n] = on(f[n - 1])
    BY <1>9
  <2> QED  BY <2>1, Zenon DEF on
<1> QED  BY <1>8, <1>13, <1>14, <1>15, Zenon DEF MeantSteps, k, V

(***************************************************************************)
(* What is read and what is meant agree.                                   *)
(***************************************************************************)
Agree(x, y, n) ==
  /\ x.ok <=> (y.ok /\ y.jumps < n)
  /\ x.ok => x.name \in Seq(Bytes) /\ Unrooted(x.name) = y.labels /\ x.end = y.end

LEMMA ReadIs ==
  \A name, end : /\ NameRead(name, end).ok /\ NameRead(name, end).name = name
                 /\ NameRead(name, end).end = end
BY DEF NameRead

LEMMA EndsAgree ==
  ASSUME NEW d \in Bytes, NEW p \in Nat, NEW base \in Nat, NEW pointed,
         NEW h \in Meanings(d), NEW n \in Nat,
         \/ p >= Len(d)
         \/ p < Len(d) /\ At(d, p) = 0
         \/ p < Len(d) /\ At(d, p) >= 192 /\ p + 1 >= Len(d)
  PROVE  Agree(DnsName(d, p, base, pointed), Onward(d, p, base, h), n + 1)
<1> DEFINE x == DnsName(d, p, base, pointed)
           y == Onward(d, p, base, h)
           z == At(d, p) = 0
<1>1. CASE ~(p < Len(d) /\ z)
  <2>1. ~x.ok
    BY <1>1, NameEnds
  <2>2. ~y.ok
    BY <1>1, OnwardIs
  <2> HIDE DEF x, y
  <2>3. Agree(x, y, n + 1)
    BY <2>1, <2>2 DEF Agree
  <2> QED  BY <2>3 DEF x, y
<1>2. CASE p < Len(d) /\ z
  <2>1. x = NameRead(<< >>, p + 1)
    BY <1>2, NameEnds
  <2>2. y.ok /\ y.labels = << >> /\ y.jumps = 0 /\ y.end = p + 1
    <3>1. IsRoot(y, p + 1)
      BY <1>2, OnwardIs
    <3> HIDE DEF y
    <3> QED  BY <3>1 DEF IsRoot
  <2> HIDE DEF x, y
  <2>3. x.ok /\ x.name = << >> /\ x.end = p + 1
    BY <2>1, ReadIs
  <2>4. << >> \in Seq(Bytes) /\ Unrooted(<< >>) = << >>
    BY EmptySeq, UnrootedIs
  <2>5. x.name \in Seq(Bytes) /\ Unrooted(x.name) = y.labels
    BY <2>2, <2>3, <2>4
  <2>6. y.jumps < n + 1
    BY <2>2
  <2>7. Agree(x, y, n + 1)
    BY <2>2, <2>3, <2>5, <2>6 DEF Agree
  <2> QED  BY <2>7 DEF x, y
<1> QED  BY <1>1, <1>2

LEMMA PointedAgree ==
  ASSUME NEW d \in Bytes, NEW p \in Nat, NEW base \in Nat, NEW pointed,
         NEW h \in Meanings(d), NEW n \in Nat, p + 1 < Len(d), At(d, p) >= 192,
         \A t \in Nat : Agree(pointed[t], h[t], n)
  PROVE  Agree(DnsName(d, p, base, pointed), Onward(d, p, base, h), n + 1)
<1> DEFINE x == DnsName(d, p, base, pointed)
           y == Onward(d, p, base, h)
           t == base + Pointer(d, p)
           part == pointed[t]
           there == h[t]
<1>1. /\ t \in Nat
      /\ y.ok <=> there.ok
      /\ y.labels = there.labels /\ y.jumps = there.jumps + 1 /\ y.end = p + 2
  <2>1. t \in Nat /\ IsThere(there, y, p + 2)
    BY OnwardIs
  <2> HIDE DEF t, there, y
  <2> QED  BY <2>1 DEF IsThere
<1>2. /\ ~part.ok => ~x.ok
      /\ part.ok /\ part.name \in Seq(Bytes) => x = NameRead(part.name, p + 2)
  BY NameEnds
<1>3. there.jumps \in Nat
  <2> HIDE DEF t
  <2>1. there \in Meaning
    BY <1>1 DEF Meanings
  <2> QED  BY <2>1 DEF Meaning
<1> HIDE DEF x, y, t
<1>4. Agree(part, there, n)
  BY <1>1
<1> HIDE DEF part, there
<1>5. /\ part.ok <=> (there.ok /\ there.jumps < n)
      /\ part.ok => part.name \in Seq(Bytes) /\ Unrooted(part.name) = there.labels
  BY <1>4 DEF Agree
<1>6. there.jumps < n <=> y.jumps < n + 1
  BY <1>1, <1>3
<1>7. CASE part.ok
  <2>1. x = NameRead(part.name, p + 2)
    BY <1>2, <1>5, <1>7
  <2>2. x.ok /\ x.name = part.name /\ x.end = p + 2
    BY <2>1, ReadIs, Zenon
  <2>3. y.ok /\ y.jumps < n + 1
    BY <1>1, <1>5, <1>6, <1>7
  <2>4. x.name \in Seq(Bytes) /\ Unrooted(x.name) = y.labels /\ x.end = y.end
    BY <1>1, <1>5, <1>7, <2>2
  <2> QED  BY <2>2, <2>3, <2>4 DEF Agree, x, y
<1>8. CASE ~part.ok
  <2>1. ~x.ok /\ ~(y.ok /\ y.jumps < n + 1)
    BY <1>1, <1>2, <1>5, <1>6, <1>8
  <2>2. Agree(x, y, n + 1)
    BY <2>1 DEF Agree
  <2> QED  BY <2>2 DEF x, y
<1> QED  BY <1>7, <1>8

LEMMA LabelAgrees ==
  ASSUME NEW d \in Bytes, NEW p \in Nat, NEW base \in Nat, NEW pointed, Named(pointed),
         NEW h \in Meanings(d), NEW n, p < Len(d), NEW b \in 1 .. 191, At(d, p) = b,
         p + 1 + b <= Len(d) =>
           Agree(DnsName(d, p + 1 + b, base, pointed), h[p + 1 + b], n)
  PROVE  Agree(DnsName(d, p, base, pointed), Onward(d, p, base, h), n)
<1> DEFINE q == p + 1 + b
           l == Slice(d, p + 1, q)
           x == DnsName(d, p, base, pointed)
           y == Onward(d, p, base, h)
           u == DnsName(d, q, base, pointed)
           v == h[q]
<1>1. /\ y.ok <=> v.ok
      /\ v.ok => /\ q <= Len(d) /\ y.jumps = v.jumps /\ y.end = v.end
                 /\ y.labels = <<l>> \o v.labels
  <2>1. IsBehind(l, q <= Len(d), v, y)
    BY OnwardIs
  <2> HIDE DEF l, q, v, y
  <2> QED  BY <2>1 DEF IsBehind
<1>2. Len(d) \in Nat /\ q \in Nat
  BY Reads
<1>3. CASE q <= Len(d)
  <2>1. Follows(l, u, x)
    BY <1>3, NameOnward
  <2>2. Agree(u, v, n)
    BY <1>3
  <2>3. l \in Bytes /\ l # << >>
    <3> DEFINE a == p + 1
    <3>1. a \in Nat /\ a <= q /\ q - a = b /\ b # 0
      OBVIOUS
    <3> HIDE DEF q, a
    <3>2. Slice(d, a, q) \in Bytes /\ Len(Slice(d, a, q)) = q - a
      BY <1>2, <1>3, <3>1, SliceIs
    <3>3. Len(Slice(d, a, q)) = b
      BY <3>1, <3>2
    <3>4. Len(<< >>) = 0
      OBVIOUS
    <3>5. Slice(d, a, q) # << >>
      BY <3>1, <3>3, <3>4
    <3> QED  BY <3>2, <3>5 DEF l, a
  <2> HIDE DEF q, l, x, y, u, v
  <2>4. /\ u.ok <=> (v.ok /\ v.jumps < n)
        /\ u.ok => u.name \in Seq(Bytes) /\ Unrooted(u.name) = v.labels /\ u.end = v.end
    BY <2>2 DEF Agree
  <2>5. /\ x.ok <=> u.ok
        /\ u.ok => x.end = u.end /\ Onto(l, u.name, x.name)
    BY <2>1 DEF Follows
  <2>6. CASE u.ok
    <3>1. x.name \in Seq(Bytes) /\ Unrooted(x.name) = <<l>> \o Unrooted(u.name)
      BY <2>3, <2>4, <2>5, <2>6, UnrootedOnto
    <3>2. Unrooted(x.name) = y.labels
      BY <1>1, <2>4, <2>6, <3>1
    <3>3. x.ok /\ y.ok /\ y.jumps < n /\ x.end = y.end
      BY <1>1, <2>4, <2>5, <2>6
    <3>4. Agree(x, y, n)
      BY <3>1, <3>2, <3>3 DEF Agree
    <3> QED  BY <3>4 DEF x, y
  <2>7. CASE ~u.ok
    <3>1. ~x.ok /\ ~(y.ok /\ y.jumps < n)
      BY <1>1, <2>4, <2>5, <2>7
    <3>2. Agree(x, y, n)
      BY <3>1 DEF Agree
    <3> QED  BY <3>2 DEF x, y
  <2> QED  BY <2>6, <2>7
<1>4. CASE q > Len(d)
  <2>1. ~x.ok
    BY <1>4, NameEnds
  <2>2. ~(q <= Len(d))
    <3> HIDE DEF q
    <3> QED  BY <1>2, <1>4
  <2> HIDE DEF q, l, x, y, v
  <2>3. ~y.ok
    BY <1>1, <2>2
  <2>4. Agree(x, y, n)
    BY <2>1, <2>3 DEF Agree
  <2> QED  BY <2>4 DEF x, y
<1>5. q <= Len(d) \/ q > Len(d)
  <2> HIDE DEF q
  <2> QED  BY <1>2
<1> QED  BY <1>3, <1>4, <1>5

\* The meanings of d after up to s steps.
MeantOn(d, base, s, g) ==
  /\ \A k \in 0 .. s : g[k] \in Meanings(d)
  /\ \A k \in 1 .. s, p \in Nat : g[k][p] = Onward(d, p, base, g[k - 1])
\* After w steps, all names agree that take fewer than n pointers.
AllAgree(names, g, w, s, n) ==
  \A k \in 0 .. s : k >= w => \A t \in Nat : Agree(names[t], g[k][t], n)

LEMMA KindsOfByte == \A b \in Nat : b = 0 \/ b \in 1 .. 191 \/ b >= 192
OBVIOUS

\* One pointer more takes as many steps more as there are bytes, and one.
LEMMA PointerAgrees ==
  ASSUME NEW d \in Bytes, NEW base \in Nat, NEW s \in Nat, NEW g, MeantOn(d, base, s, g),
         NEW names, NEW n \in Nat, NEW w \in Nat, w + Len(d) + 1 <= s,
         AllAgree(names, g, w, s, n)
  PROVE  AllAgree([p \in Nat |-> DnsName(d, p, base, names)], g, w + Len(d) + 1, s, n + 1)
<1> DEFINE m == Len(d)
           name(p) == DnsName(d, p, base, names)
           T == {j \in Nat : \A p \in Nat, k \in 0 .. s :
                   p + j >= m /\ k >= w + 1 + j => Agree(name(p), g[k][p], n + 1)}
<1>1. m \in Nat
  BY Reads
<1>2. Named(names)
  <2>1. s \in 0 .. s /\ s >= w
    BY <1>1
  <2>2. \A t \in Nat : Agree(names[t], g[s][t], n)
    BY <2>1 DEF AllAgree
  <2> QED  BY <2>2 DEF Named, Agree
<1>3. ASSUME NEW p \in Nat, NEW k \in 1 .. s
      PROVE  g[k - 1] \in Meanings(d) /\ g[k][p] = Onward(d, p, base, g[k - 1])
  <2>1. k - 1 \in 0 .. s
    OBVIOUS
  <2> QED  BY <2>1 DEF MeantOn
<1>4. ASSUME NEW p \in Nat, NEW k \in 1 .. s,
             \/ p >= m
             \/ p < m /\ At(d, p) = 0
             \/ p < m /\ At(d, p) >= 192 /\ p + 1 >= m
      PROVE  Agree(name(p), g[k][p], n + 1)
  <2> DEFINE h == g[k - 1]
  <2>1. h \in Meanings(d) /\ g[k][p] = Onward(d, p, base, h)
    BY <1>3
  <2> HIDE DEF h
  <2>2. Agree(name(p), Onward(d, p, base, h), n + 1)
    BY <1>4, <2>1, EndsAgree
  <2> QED  BY <2>1, <2>2
<1>5. ASSUME NEW p \in Nat, NEW k \in 1 .. s, p + 1 < m, At(d, p) >= 192, k - 1 >= w
      PROVE  Agree(name(p), g[k][p], n + 1)
  <2> DEFINE h == g[k - 1]
  <2>1. h \in Meanings(d) /\ g[k][p] = Onward(d, p, base, h)
    BY <1>3
  <2>2. \A t \in Nat : Agree(names[t], h[t], n)
    <3>1. k - 1 \in 0 .. s
      OBVIOUS
    <3> QED  BY <1>5, <3>1 DEF AllAgree
  <2> HIDE DEF h
  <2>3. Agree(name(p), Onward(d, p, base, h), n + 1)
    BY <1>5, <2>1, <2>2, PointedAgree
  <2> QED  BY <2>1, <2>3
<1>6. 0 \in T
  <2> SUFFICES ASSUME NEW p \in Nat, NEW k \in 0 .. s, p + 0 >= m, k >= w + 1 + 0
               PROVE  Agree(name(p), g[k][p], n + 1)
    OBVIOUS
  <2> HIDE DEF m, name
  <2>1. p >= m /\ k \in 1 .. s
    BY <1>1
  <2> QED  BY <1>4, <2>1
<1>7. ASSUME NEW j \in Nat, j \in T PROVE j + 1 \in T
  <2> SUFFICES ASSUME NEW p \in Nat, NEW k \in 0 .. s, p + (j + 1) >= m, k >= w + 1 + (j + 1)
               PROVE  Agree(name(p), g[k][p], n + 1)
    OBVIOUS
  <2> DEFINE b == At(d, p)
  <2>1. k \in 1 .. s /\ k - 1 \in 0 .. s /\ k - 1 >= w /\ k - 1 >= w + 1 + j
    OBVIOUS
  <2>2. p < m => b \in Nat /\ b < 256
    <3>1. p < m => p \in 0 .. m - 1
      BY <1>1
    <3> QED  BY <3>1, Reads
  <2>3. ASSUME p < m, b \in 1 .. 191
        PROVE  Agree(name(p), g[k][p], n + 1)
    <3> DEFINE q == p + 1 + b
               h == g[k - 1]
    <3>1. h \in Meanings(d) /\ g[k][p] = Onward(d, p, base, h)
      BY <1>3, <2>1
    <3>2. q \in Nat /\ q + j >= m
      <4> HIDE DEF b, m
      <4> QED  BY <1>1, <2>3
    <3>3. Agree(name(q), h[q], n + 1)
      <4> HIDE DEF q, name
      <4> QED  BY <1>7, <2>1, <3>2
    <3> HIDE DEF h, b
    <3>4. Agree(name(p), Onward(d, p, base, h), n + 1)
      <4> DEFINE n1 == n + 1
      <4>1. Agree(DnsName(d, p + 1 + b, base, names), h[p + 1 + b], n1)
        BY <3>3
      <4> HIDE DEF n1
      <4>2. At(d, p) = b
        BY DEF b
      <4>3. Agree(name(p), Onward(d, p, base, h), n1)
        BY <1>2, <2>3, <3>1, <4>1, <4>2, LabelAgrees
      <4> QED  BY <4>3 DEF n1
    <3> QED  BY <3>1, <3>4
  <2>4. \/ p >= m \/ (p < m /\ b = 0) \/ (p < m /\ b >= 192 /\ p + 1 >= m)
        \/ (p + 1 < m /\ b >= 192) \/ (p < m /\ b \in 1 .. 191)
    <3> HIDE DEF b, m
    <3>1. p >= m \/ p < m
      BY <1>1
    <3>2. p < m => b = 0 \/ b \in 1 .. 191 \/ b >= 192
      BY <2>2, KindsOfByte, Zenon
    <3>3. p + 1 >= m \/ p + 1 < m
      BY <1>1
    <3> QED  BY <3>1, <3>2, <3>3
  <2> QED  BY <1>4, <1>5, <2>1, <2>3, <2>4
<1> HIDE DEF T
<1>8. Nat \subseteq T
  BY <1>6, <1>7, SetInduction
<1> DEFINE all == [p \in Nat |-> name(p)]
<1>9. ASSUME NEW k \in 0 .. s, k >= w + m + 1, NEW t \in Nat
      PROVE  Agree(all[t], g[k][t], n + 1)
  <2>1. t + m >= m /\ k >= w + 1 + m
    BY <1>1, <1>9
  <2>2. m \in T
    BY <1>1, <1>8
  <2>3. Agree(name(t), g[k][t], n + 1)
    <3> HIDE DEF name, m
    <3> QED  BY <2>1, <2>2 DEF T
  <2>4. all[t] = name(t)
    OBVIOUS
  <2> HIDE DEF all, name
  <2> QED  BY <2>3, <2>4
<1>10. AllAgree(all, g, w + m + 1, s, n + 1)
  <2> HIDE DEF all, m
  <2> QED  BY <1>9 DEF AllAgree
<1> QED  BY <1>10, Zenon

LEMMA Products ==
  ASSUME NEW a \in Nat, NEW b \in Nat, NEW c \in Nat, a <= b
  PROVE  a * c \in Nat /\ a * c <= b * c /\ (a + 1) * c = a * c + c
<1> DEFINE e == b - a
<1>1. e \in Nat /\ b = a + e
  OBVIOUS
<1> HIDE DEF e
<1>2. (a + e) * c = a * c + e * c
  BY <1>1
<1>3. a * c \in Nat /\ e * c \in Nat
  BY <1>1
<1>4. (a + 1) * c = a * c + c
  OBVIOUS
<1> DEFINE x == a * c
           y == e * c
<1>5. b * c = x + y
  BY <1>1, <1>2
<1> HIDE DEF x, y
<1>6. x <= b * c
  BY <1>3, <1>5 DEF x, y
<1> QED  BY <1>3, <1>4, <1>6 DEF x

LEMMA NamesAgree ==
  ASSUME NEW d \in Bytes, NEW base \in Nat, NEW start \in Nat
  PROVE  Agree(Name(d, start, base), Meant(d, start, base), MaxJumps + 1)
<1> DEFINE c == Len(d) + 1
           most == MaxJumps + 1
           s == most * c
<1>1. c \in Nat /\ most \in Nat /\ s \in Nat /\ s = Steps(d)
  <2>1. c \in Nat /\ most \in Nat
    BY Reads, ParsersAssumption
  <2>2. s \in Nat
    <3> HIDE DEF c, most
    <3> QED  BY <2>1
  <2> QED  BY <2>1, <2>2 DEF Steps
<1>2. PICK f : NamesSteps(d, base, f)
  BY NamesByIs
<1>3. PICK g : MeantSteps(d, start, base, g)
  BY MeantByIs
<1>4. /\ Names(d, base) = f[most]
      /\ f[0] = [pos \in Nat |-> Refused]
      /\ \A i \in 1 .. most : f[i] = [pos \in Nat |-> DnsName(d, pos, base, f[i - 1])]
  BY <1>2 DEF NamesSteps
<1> HIDE DEF s
<1>5. /\ Meant(d, start, base) = g[s][start] /\ MeantOn(d, base, s, g)
      /\ \A p \in Nat : ~g[0][p].ok
  BY <1>1, <1>3 DEF MeantSteps, MeantOn
<1> HIDE DEF most
<1> DEFINE Ok(n) == AllAgree(f[n], g, n * c, s, n)
           T == {n \in Nat : n <= most => Ok(n)}
<1>6. 0 \in T
  <2> SUFFICES ASSUME NEW k \in 0 .. s, NEW t \in Nat PROVE Agree(f[0][t], g[k][t], 0)
    BY DEF AllAgree
  <2>1. ~f[0][t].ok
    BY <1>4 DEF Refused
  <2>2. g[k][t].jumps \in Nat
    <3>1. g[k] \in Meanings(d)
      BY <1>5 DEF MeantOn
    <3>2. g[k][t] \in Meaning
      BY <3>1 DEF Meanings
    <3> QED  BY <3>2 DEF Meaning
  <2>3. ~(g[k][t].jumps < 0)
    BY <2>2
  <2> QED  BY <2>1, <2>3 DEF Agree
<1>7. ASSUME NEW n \in Nat, n \in T PROVE n + 1 \in T
  <2> SUFFICES ASSUME n + 1 <= most PROVE Ok(n + 1)
    OBVIOUS
  <2>1. n <= most /\ n + 1 \in 1 .. most /\ (n + 1) - 1 = n /\ n + 1 \in Nat
    BY <1>1
  <2> DEFINE w == n * c
             z == (n + 1) * c
  <2>2. w \in Nat /\ z = w + c /\ z <= s
    <3> HIDE DEF c
    <3>1. n * c \in Nat /\ (n + 1) * c = n * c + c
      BY <1>1, <2>1, Products
    <3>2. (n + 1) * c <= most * c
      <4> DEFINE n1 == n + 1
      <4>1. n1 \in Nat /\ n1 <= most
        BY <2>1
      <4> HIDE DEF n1
      <4>2. n1 * c <= most * c
        BY <1>1, <4>1, Products
      <4> QED  BY <4>2 DEF n1
    <3> QED  BY <3>1, <3>2 DEF s
  <2> DEFINE names == f[n]
  <2>3. AllAgree(names, g, w, s, n)
    BY <1>7, <2>1
  <2>4. f[n + 1] = [p \in Nat |-> DnsName(d, p, base, names)]
    BY <1>4, <2>1
  <2> HIDE DEF w, z, names, Ok
  <2>5. z = w + Len(d) + 1
    BY <2>2, Reads
  <2>6. AllAgree([p \in Nat |-> DnsName(d, p, base, names)], g, w + Len(d) + 1, s, n + 1)
    BY <1>1, <1>5, <2>2, <2>3, <2>5, PointerAgrees
  <2>7. AllAgree(f[n + 1], g, z, s, n + 1)
    BY <2>4, <2>5, <2>6
  <2> QED  BY <2>7, Zenon DEF Ok, z
<1> HIDE DEF T, c
<1>8. Nat \subseteq T
  BY <1>6, <1>7, SetInduction
<1>9. Ok(most)
  <2> HIDE DEF Ok
  <2>1. most \in T /\ most <= most
    BY <1>1, <1>8
  <2> QED  BY <2>1 DEF T
<1>10. Agree(f[most][start], g[s][start], most)
  <2>1. s \in 0 .. s /\ s >= most * c
    BY <1>1 DEF s
  <2> QED  BY <1>9, <2>1 DEF AllAgree
<1> QED  BY <1>4, <1>5, <1>10 DEF Name, most

LEMMA NamesMean ==
  ASSUME Readable
  PROVE  NamesResolve
<1> SUFFICES ASSUME kind = "name"
             PROVE  LET got   == Name(data, 1, 1)
                        meant == Meant(data, 1, 1)
                    IN  /\ got.ok <=> meant.ok /\ meant.jumps <= MaxJumps
                        /\ got.ok => Unrooted(got.name) = meant.labels /\ got.end = meant.end
  BY Zenon DEF NamesResolve
<1>1. data \in Bytes
  <2>1. Alphabet(kind) = Byte
    BY Zenon DEF Alphabet
  <2> QED  BY <2>1 DEF Readable, Bytes
<1> DEFINE one == 1
           got == Name(data, one, one)
           meant == Meant(data, one, one)
           most == MaxJumps + 1
<1>2. Agree(got, meant, most)
  <2>1. one \in Nat
    OBVIOUS
  <2> HIDE DEF one
  <2> QED  BY <1>1, <2>1, NamesAgree
<1>3. meant.jumps \in Nat
  <2>1. one \in Nat
    OBVIOUS
  <2> HIDE DEF one
  <2>2. PICK g : MeantSteps(data, one, one, g)
    BY <1>1, <2>1, MeantByIs
  <2>3. Steps(data) \in Nat
    <3> DEFINE a == MaxJumps + 1
               b == Len(data) + 1
    <3>1. a \in Nat /\ b \in Nat
      BY <1>1, Reads, ParsersAssumption
    <3> HIDE DEF a, b
    <3>2. a * b \in Nat
      BY <3>1
    <3> QED  BY <3>2 DEF Steps, a, b
  <2>4. g[Steps(data)] \in Meanings(data) /\ meant = g[Steps(data)][one]
    BY <2>2, <2>3 DEF MeantSteps
  <2>5. meant \in Meaning
    BY <2>1, <2>4 DEF Meanings
  <2> QED  BY <2>5 DEF Meaning
<1>4. meant.jumps < most <=> meant.jumps <= MaxJumps
  <2> DEFINE j == meant.jumps
  <2>1. j \in Nat
    BY <1>3
  <2> HIDE DEF j
  <2>2. j < MaxJumps + 1 <=> j <= MaxJumps
    BY <2>1, ParsersAssumption
  <2> QED  BY <2>2 DEF j
<1> HIDE DEF got, meant, most
<1>5. /\ got.ok <=> (meant.ok /\ meant.jumps <= MaxJumps)
      /\ got.ok => Unrooted(got.name) = meant.labels /\ got.end = meant.end
  BY <1>2, <1>4 DEF Agree
<1> QED  BY <1>5 DEF got, meant

(***************************************************************************)
(* ReadRight, for inputs of every length and every content: a name is what *)
(* its labels and pointers lead to, whatever is read of lists, ids and     *)
(* integers is what was written, and both ends of a connection have the    *)
(* same table of headers (decode/dns.rs, tls.rs, quic.rs, http2.rs).       *)
(***************************************************************************)
THEOREM WhatWasWrittenIsRead == ParsersSpec => []ReadRight
<1>1. Readable /\ TablesAgree => ReadRight
  BY NamesMean, WrittenAgain DEF ReadRight
<1> QED  BY <1>1, ReadableAlways, TheTableIsThePeers, PTL
=============================================================================
