------------------------ MODULE SessionGatewayProofs ------------------------
(***************************************************************************)
(* Theorems about the session gateway, for any sessions, endpoints,        *)
(* operations and faults, and any bounds.                                  *)
(***************************************************************************)
EXTENDS SessionGateway, SequenceTheorems, FiniteSetTheorems,
        WellFoundedInduction, TLAPS

-----------------------------------------------------------------------------
(* Inputs in sequences: the wire of a session, and the game of a process.  *)

\* A set of sequence numbers has a least one.
LEMMA LeastSequence ==
    ASSUME NEW T \in SUBSET Sequence, T # {}
    PROVE  \E x \in T : \A y \in T : x <= y
<1> DEFINE U == {1..k : k \in T}
<1>1. MaxInput \in Nat /\ T \subseteq Nat /\ \A k \in T : k <= MaxInput
  BY BoundAssumption DEF Sequence
<1>2. IsWellFoundedOn(StrictSubsetOrdering(Input), SUBSET Input)
  <2>1. IsFiniteSet(Input)
    BY <1>1, FS_Interval DEF Input
  <2>2. FiniteSubsetsOf(Input) = SUBSET Input
    BY <2>1, FS_FiniteSubsetsOfFinite
  <2>3. IsWellFoundedOn(StrictSubsetOrdering(Input), FiniteSubsetsOf(Input))
    BY FS_StrictSubsetOrderingWellFounded
  <2> QED BY <2>2, <2>3
<1>3. U \subseteq SUBSET Input /\ U # {}
  <2>1. ASSUME NEW k \in T PROVE 1..k \subseteq 1..MaxInput
    <3>1. k \in Nat /\ k <= MaxInput
      BY <1>1
    <3> QED BY <1>1, <3>1
  <2> QED BY <2>1 DEF Input
<1>4. PICK u \in U : \A v \in U : ~(<<v, u>> \in StrictSubsetOrdering(Input))
  <2> HIDE DEF U
  <2> QED BY <1>2, <1>3, WFMin
<1>5. PICK x \in T : u = 1..x
  BY <1>4
<1>6. ASSUME NEW y \in T, ~(x <= y) PROVE FALSE
  <2>1. y \in Nat /\ x \in Nat /\ y < x
    BY <1>1, <1>6
  <2>2. 1..y \subseteq u /\ x \in u /\ x \notin 1..y
    BY <1>5, <2>1
  <2>3. 1..y \in U
    OBVIOUS
  <2>4. 1..y \in SUBSET Input /\ u \in SUBSET Input /\ 1..y # u
    BY <1>3, <1>4, <2>2, <2>3
  <2>5. <<1..y, u>> \in StrictSubsetOrdering(Input)
    BY <2>2, <2>4 DEF StrictSubsetOrdering
  <2> QED BY <1>4, <2>3, <2>5
<1> QED BY <1>6

LEMMA AppendElements ==
    ASSUME NEW S, NEW q \in Seq(S), NEW n \in S
    PROVE  /\ Append(q, n) \in Seq(S)
           /\ ToSet(Append(q, n)) = ToSet(q) \cup {n}
<1>1. /\ Append(q, n) \in Seq(S)
      /\ Len(Append(q, n)) = Len(q) + 1
      /\ \A i \in 1..Len(q) : Append(q, n)[i] = q[i]
      /\ Append(q, n)[Len(q) + 1] = n
  BY AppendProperties
<1>2. /\ DOMAIN q = 1..Len(q)
      /\ DOMAIN Append(q, n) = 1..(Len(q) + 1)
      /\ Len(q) \in Nat
  BY <1>1, LenProperties
<1>3. ASSUME NEW m \in ToSet(Append(q, n)) PROVE m \in ToSet(q) \cup {n}
  <2>1. PICK i \in 1..(Len(q) + 1) : m = Append(q, n)[i]
    BY <1>2 DEF ToSet
  <2>2. CASE i = Len(q) + 1
    BY <1>1, <2>1, <2>2
  <2>3. CASE i # Len(q) + 1
    <3>1. i \in 1..Len(q)
      BY <1>2, <2>3
    <3> QED BY <1>1, <1>2, <2>1, <3>1 DEF ToSet
  <2> QED BY <2>2, <2>3
<1>4. ASSUME NEW m \in ToSet(q) \cup {n} PROVE m \in ToSet(Append(q, n))
  <2>1. CASE m = n
    <3>1. Len(q) + 1 \in 1..(Len(q) + 1)
      BY <1>2
    <3> QED BY <1>1, <1>2, <2>1, <3>1 DEF ToSet
  <2>2. CASE m \in ToSet(q)
    <3>1. PICK i \in 1..Len(q) : m = q[i]
      BY <1>2, <2>2 DEF ToSet
    <3>2. i \in 1..(Len(q) + 1)
      BY <1>2
    <3> QED BY <1>1, <1>2, <3>1, <3>2 DEF ToSet
  <2> QED BY <2>1, <2>2
<1> QED BY <1>1, <1>3, <1>4

LEMMA ConcatElements ==
    ASSUME NEW S, NEW q \in Seq(S), NEW r \in Seq(S)
    PROVE  /\ q \o r \in Seq(S)
           /\ ToSet(q \o r) = ToSet(q) \cup ToSet(r)
<1>1. /\ q \o r \in Seq(S)
      /\ Len(q \o r) = Len(q) + Len(r)
      /\ \A i \in 1..(Len(q) + Len(r)) :
            (q \o r)[i] = IF i <= Len(q) THEN q[i] ELSE r[i - Len(q)]
  BY ConcatProperties
<1>2. /\ DOMAIN q = 1..Len(q) /\ DOMAIN r = 1..Len(r)
      /\ DOMAIN (q \o r) = 1..(Len(q) + Len(r))
      /\ Len(q) \in Nat /\ Len(r) \in Nat
  BY <1>1, LenProperties
<1>3. ASSUME NEW m \in ToSet(q \o r) PROVE m \in ToSet(q) \cup ToSet(r)
  <2>1. PICK i \in 1..(Len(q) + Len(r)) : m = (q \o r)[i]
    BY <1>2 DEF ToSet
  <2>2. CASE i <= Len(q)
    <3>1. i \in 1..Len(q) /\ m = q[i]
      BY <1>1, <1>2, <2>1, <2>2
    <3> QED BY <1>2, <3>1 DEF ToSet
  <2>3. CASE ~(i <= Len(q))
    <3>1. i - Len(q) \in 1..Len(r) /\ m = r[i - Len(q)]
      BY <1>1, <1>2, <2>1, <2>3
    <3> QED BY <1>2, <3>1 DEF ToSet
  <2> QED BY <2>2, <2>3
<1>4. ASSUME NEW m \in ToSet(q) PROVE m \in ToSet(q \o r)
  <2>1. PICK i \in 1..Len(q) : m = q[i]
    BY <1>2 DEF ToSet
  <2>2. i \in 1..(Len(q) + Len(r)) /\ (q \o r)[i] = m
    BY <1>1, <1>2, <2>1
  <2> QED BY <1>2, <2>2 DEF ToSet
<1>5. ASSUME NEW m \in ToSet(r) PROVE m \in ToSet(q \o r)
  <2>1. PICK i \in 1..Len(r) : m = r[i]
    BY <1>2 DEF ToSet
  <2>2. /\ Len(q) + i \in 1..(Len(q) + Len(r))
        /\ (q \o r)[Len(q) + i] = m
    BY <1>1, <1>2, <2>1
  <2> QED BY <1>2, <2>2 DEF ToSet
<1> QED BY <1>1, <1>3, <1>4, <1>5

LEMMA TailElements ==
    ASSUME NEW S, NEW q \in Seq(S), q # <<>>
    PROVE  /\ Head(q) \in S
           /\ Tail(q) \in Seq(S)
           /\ Head(q) = q[1]
           /\ 1 \in DOMAIN q
           /\ \A i \in DOMAIN Tail(q) : i + 1 \in DOMAIN q /\ Tail(q)[i] = q[i + 1]
           /\ \A i \in DOMAIN q : i = 1 \/ i - 1 \in DOMAIN Tail(q)
           /\ ToSet(q) = ToSet(Tail(q)) \cup {Head(q)}
<1>1. /\ Head(q) \in S
      /\ Tail(q) \in Seq(S)
      /\ Len(Tail(q)) = Len(q) - 1
      /\ \A i \in 1..Len(Tail(q)) : Tail(q)[i] = q[i + 1]
  BY HeadTailProperties
<1>2. /\ Len(q) \in Nat \ {0}
      /\ DOMAIN q = 1..Len(q)
      /\ DOMAIN Tail(q) = 1..(Len(q) - 1)
      /\ Head(q) = q[1]
  BY <1>1, LenProperties, EmptySeq
<1>3. \A i \in DOMAIN Tail(q) : i + 1 \in DOMAIN q /\ Tail(q)[i] = q[i + 1]
  BY <1>1, <1>2
<1>4. \A i \in DOMAIN q : i = 1 \/ i - 1 \in DOMAIN Tail(q)
  BY <1>2
<1>5. \A i \in DOMAIN q : i # 1 => Tail(q)[i - 1] = q[i]
  BY <1>1, <1>2
<1>6. 1 \in DOMAIN q
  BY <1>2
<1>7. ToSet(q) = ToSet(Tail(q)) \cup {Head(q)}
  BY <1>2, <1>3, <1>4, <1>5, <1>6 DEF ToSet
<1> QED BY <1>1, <1>2, <1>3, <1>4, <1>6, <1>7

LEMMA InputElements ==
    ASSUME NEW q \in Seq(Input), NEW i \in 1..Len(q)
    PROVE  q[i] \in Input /\ q[i] \in Nat
<1>1. q[i] \in Input
  BY ElementOfSeq
<1>2. Input \subseteq Nat
  BY BoundAssumption DEF Input
<1> QED BY <1>1, <1>2

\* A set of inputs is sorted: the sequence has its elements, in their order.
LEMMA SortedInputs ==
    ASSUME NEW T \in SUBSET Input
    PROVE  /\ Sorted(T) \in Seq(Input)
           /\ ToSet(Sorted(T)) = T
           /\ Increasing(Sorted(T))
<1> DEFINE Upto(k) == {n \in T : n <= k}
           Sorts(q, R) == /\ q \in Seq(Input)
                             /\ ToSet(q) = R
                             /\ Increasing(q)
                             /\ Len(q) = Cardinality(R)
           Bad == {k \in Sequence : \A q \in Seq(Input) : ~Sorts(q, Upto(k))}
<1>0. /\ MaxInput \in Nat
      /\ \A n \in T : n \in Nat /\ 1 <= n /\ n <= MaxInput
      /\ IsFiniteSet(T)
      /\ \A k \in Sequence : k \in Nat /\ IsFiniteSet(Upto(k))
  <2>1. MaxInput \in Nat /\ IsFiniteSet(Input)
    BY BoundAssumption, FS_Interval DEF Input
  <2>2. IsFiniteSet(T)
    BY <2>1, FS_Subset
  <2>3. \A k \in Sequence : IsFiniteSet(Upto(k))
    BY <2>2, FS_Subset
  <2> QED BY <2>1, <2>2, <2>3 DEF Input, Sequence
<1>1. ASSUME Bad # {} PROVE FALSE
  <2>1. PICK k \in Bad : \A j \in Bad : k <= j
    <3>1. Bad \in SUBSET Sequence
      OBVIOUS
    <3> HIDE DEF Bad
    <3> QED BY <1>1, <3>1, LeastSequence
  <2>2. k \in Sequence /\ k \in Nat
    BY <1>0, <2>1
  <2>3. CASE k = 0
    <3>1. Upto(0) = {}
      BY <1>0
    <3>2. /\ <<>> \in Seq(Input) /\ ToSet(<<>>) = {} /\ Increasing(<<>>)
          /\ Len(<<>>) = Cardinality({})
      BY FS_EmptySet, EmptySeq DEF ToSet, Increasing
    <3> QED BY <2>1, <2>3, <3>1, <3>2
  <2>4. CASE k # 0
    <3>1. k - 1 \in Nat /\ k - 1 \in Sequence /\ ~(k <= k - 1)
      BY <1>0, <2>2, <2>4 DEF Sequence
    <3>2. k - 1 \notin Bad
      BY <2>1, <3>1
    <3>3. PICK q \in Seq(Input) : Sorts(q, Upto(k - 1))
      BY <3>1, <3>2
    <3>4. Upto(k) = Upto(k - 1) \cup (T \cap {k})
      <4>1. \A n \in T : n <= k <=> n <= k - 1 \/ n = k
        BY <1>0, <2>2
      <4> QED BY <4>1
    <3>5. k \notin Upto(k - 1)
      BY <3>1
    <3>6. IsFiniteSet(Upto(k - 1))
      BY <1>0, <3>1
    <3>7. CASE k \notin T
      <4>1. Upto(k) = Upto(k - 1)
        BY <3>4, <3>7
      <4> QED BY <2>1, <3>3, <4>1
    <3>8. CASE k \in T
      <4> HIDE DEF Upto
      <4>1. Upto(k) = Upto(k - 1) \cup {k}
        BY <3>4, <3>8
      <4>2. Cardinality(Upto(k)) = Len(q) + 1
        BY <3>3, <3>5, <3>6, <4>1, FS_AddElement
      <4>3. /\ Append(q, k) \in Seq(Input)
            /\ ToSet(Append(q, k)) = Upto(k)
        BY <3>3, <3>8, <4>1, AppendElements
      <4>4. Increasing(Append(q, k))
        <5>0. k \in Input
          BY <3>8
        <5>1. /\ Len(q) \in Nat
              /\ DOMAIN q = 1..Len(q)
          BY <3>3, LenProperties
        <5>2. /\ DOMAIN Append(q, k) = 1..(Len(q) + 1)
              /\ \A i \in 1..Len(q) : Append(q, k)[i] = q[i]
              /\ Append(q, k)[Len(q) + 1] = k
          BY <5>0, <3>3, LenProperties, AppendProperties
        <5>3. \A i \in 1..Len(q) : q[i] < k
          <6>1. \A n \in Upto(k - 1) : n < k
            BY <1>0, <2>2 DEF Upto
          <6>2. \A i \in 1..Len(q) : q[i] \in Upto(k - 1)
            BY <3>3, <5>1 DEF ToSet
          <6> QED BY <6>1, <6>2
        <5>4. Increasing(q)
          BY <3>3
        <5>5. ASSUME NEW i \in DOMAIN Append(q, k), NEW j \in DOMAIN Append(q, k),
                     i < j
              PROVE  Append(q, k)[i] < Append(q, k)[j]
          <6>1. CASE j = Len(q) + 1
            <7>1. i \in 1..Len(q)
              BY <5>1, <5>2, <5>5, <6>1
            <7> QED BY <5>2, <5>3, <6>1, <7>1
          <6>2. CASE j # Len(q) + 1
            <7>1. i \in 1..Len(q) /\ j \in 1..Len(q)
              BY <5>1, <5>2, <5>5, <6>2
            <7> QED BY <5>1, <5>2, <5>4, <5>5, <7>1 DEF Increasing
          <6> QED BY <6>1, <6>2
        <5> QED BY <5>5 DEF Increasing
      <4>5. Len(Append(q, k)) = Len(q) + 1
        <5>0. k \in Input
          BY <3>8
        <5> QED BY <3>3, <5>0, AppendProperties
      <4> QED BY <2>1, <4>2, <4>3, <4>4, <4>5
    <3> QED BY <3>7, <3>8
  <2> QED BY <2>3, <2>4
<1>2. PICK q \in Seq(Input) : Sorts(q, T)
  <2>1. MaxInput \notin Bad
    BY <1>1
  <2>2. Upto(MaxInput) = T
    BY <1>0
  <2>3. MaxInput \in Sequence
    BY <1>0 DEF Sequence
  <2> QED BY <2>1, <2>2, <2>3
<1>3. q \in [1..Cardinality(T) -> T]
  <2>1. Len(q) \in Nat /\ q \in [1..Len(q) -> Input]
    BY <1>2, LenProperties
  <2>2. \A i \in 1..Len(q) : q[i] \in T
    BY <1>2, <2>1 DEF ToSet
  <2> QED BY <1>2, <2>1, <2>2
<1>4. /\ Sorted(T) \in [1..Cardinality(T) -> T]
      /\ Increasing(Sorted(T))
  BY <1>2, <1>3 DEF Sorted
<1>5. Cardinality(T) \in Nat
  BY <1>0, FS_CardinalityType
<1>6. Sorted(T) \in Seq(Input)
  BY <1>4, <1>5
<1>7. ToSet(Sorted(T)) = T
  <2>1. ToSet(Sorted(T)) \subseteq T
    BY <1>4 DEF ToSet
  <2>0. PICK f : f = Sorted(T)
    OBVIOUS
  <2>2. f \in Injection(1..Cardinality(T), T)
    <3>1. ASSUME NEW i \in 1..Cardinality(T), NEW j \in 1..Cardinality(T), i # j
          PROVE  f[i] # f[j]
      <4>1. i < j \/ j < i
        BY <1>5, <3>1
      <4>2. f[i] < f[j] \/ f[j] < f[i]
        BY <1>4, <2>0, <4>1 DEF Increasing
      <4>3. f[i] \in Nat /\ f[j] \in Nat
        BY <1>0, <1>4, <2>0
      <4> QED BY <4>2, <4>3
    <3> QED BY <1>4, <2>0, <3>1 DEF Injection, IsInjective
  <2>3. Cardinality(1..Cardinality(T)) = Cardinality(T)
    BY <1>5, FS_Interval
  <2>4. f \in Surjection(1..Cardinality(T), T)
    BY <1>0, <2>2, <2>3, FS_Injection
  <2>5. \A n \in T : \E i \in 1..Cardinality(T) : f[i] = n
    BY <2>4 DEF Surjection
  <2>6. DOMAIN f = 1..Cardinality(T)
    BY <1>4, <2>0
  <2>7. T \subseteq ToSet(f)
    BY <2>5, <2>6 DEF ToSet
  <2> QED BY <2>0, <2>1, <2>7
<1> QED BY <1>4, <1>6, <1>7

\* The elements of an increasing sequence are at most its last one.
LEMMA LastIsGreatest ==
    ASSUME NEW q \in Seq(Input), Increasing(q)
    PROVE  /\ LastProcessed(q) \in Sequence
           /\ \A n \in ToSet(q) : n <= LastProcessed(q)
           /\ q # <<>> => LastProcessed(q) \in ToSet(q)
<1>1. /\ Len(q) \in Nat
      /\ DOMAIN q = 1..Len(q)
      /\ \A i \in 1..Len(q) : q[i] \in Input
      /\ q # <<>> => Len(q) \in 1..Len(q)
  BY LenProperties, EmptySeq
<1>2. MaxInput \in Nat /\ \A n \in Input : n \in Nat /\ n \in Sequence
  BY BoundAssumption DEF Input, Sequence
<1>3. CASE q = <<>>
  BY <1>2, <1>3 DEF LastProcessed, ToSet, Sequence
<1>4. CASE q # <<>>
  <2>1. LastProcessed(q) = q[Len(q)]
    BY <1>4 DEF LastProcessed, Last
  <2>2. \A i \in 1..Len(q) : q[i] <= q[Len(q)]
    <3>1. ASSUME NEW i \in 1..Len(q) PROVE q[i] <= q[Len(q)]
      <4>0. Len(q) \in 1..Len(q) /\ i \in Nat /\ Len(q) \in Nat /\ i <= Len(q)
        BY <1>1, <1>4
      <4>1. i = Len(q) \/ i < Len(q)
        BY <4>0
      <4>2. i < Len(q) => q[i] < q[Len(q)]
        BY <1>1, <4>0 DEF Increasing
      <4>3. q[i] \in Nat /\ q[Len(q)] \in Nat
        BY <1>1, <1>2, <4>0
      <4>4. CASE i = Len(q)
        BY <4>3, <4>4
      <4>5. CASE i < Len(q)
        BY <4>2, <4>3, <4>5
      <4> QED BY <4>1, <4>4, <4>5
    <3> QED BY <3>1
  <2> QED BY <1>1, <1>2, <1>4, <2>1, <2>2 DEF ToSet
<1> QED BY <1>3, <1>4

LEMMA IncreasingAppend ==
    ASSUME NEW q \in Seq(Input), Increasing(q), NEW n \in Input, IsNew(n, q)
    PROVE  Increasing(Append(q, n))
<1>1. /\ Len(q) \in Nat
      /\ DOMAIN q = 1..Len(q)
      /\ DOMAIN Append(q, n) = 1..(Len(q) + 1)
      /\ \A i \in 1..Len(q) : Append(q, n)[i] = q[i]
      /\ Append(q, n)[Len(q) + 1] = n
  BY LenProperties, AppendProperties
<1>2. \A i \in 1..Len(q) : q[i] < n
  <2>1. n > LastProcessed(q) /\ LastProcessed(q) \in Nat /\ n \in Nat
    BY LastIsGreatest, BoundAssumption DEF IsNew, Sequence, Input
  <2>2. \A m \in ToSet(q) : m <= LastProcessed(q)
    BY LastIsGreatest
  <2>4. \A i \in 1..Len(q) : q[i] \in Nat
    BY InputElements
  <2>3. \A i \in 1..Len(q) : q[i] \in ToSet(q)
    BY <1>1 DEF ToSet
  <2> QED BY <2>1, <2>2, <2>3, <2>4
<1>3. ASSUME NEW i \in DOMAIN Append(q, n), NEW j \in DOMAIN Append(q, n), i < j
      PROVE  Append(q, n)[i] < Append(q, n)[j]
  <2>1. CASE j = Len(q) + 1
    <3>1. i \in 1..Len(q)
      BY <1>1, <1>3, <2>1
    <3> QED BY <1>1, <1>2, <2>1, <3>1
  <2>2. CASE j # Len(q) + 1
    <3>1. i \in 1..Len(q) /\ j \in 1..Len(q)
      BY <1>1, <1>3, <2>2
    <3> QED BY <1>1, <1>3, <3>1 DEF Increasing
  <2> QED BY <2>1, <2>2
<1> QED BY <1>3 DEF Increasing

\* The inputs of w can be processed in their order without a gap, by somebody
\* who knows the inputs in D.
Covered(w, D) == \A i \in DOMAIN w : 1..w[i] \subseteq D \cup {w[j] : j \in 1..i}

\* The inputs in q have no gap but for those in D.
Gapless(q, D) == \A n \in ToSet(q) : 1..n \subseteq ToSet(q) \cup D

LEMMA CoveredAppend ==
    ASSUME NEW w \in Seq(Input), NEW D, NEW n \in Input, Covered(w, D),
           1..(n - 1) \subseteq D \cup ToSet(w)
    PROVE  Covered(Append(w, n), D)
<1>1. /\ Len(w) \in Nat
      /\ DOMAIN w = 1..Len(w)
      /\ DOMAIN Append(w, n) = 1..(Len(w) + 1)
      /\ \A i \in 1..Len(w) : Append(w, n)[i] = w[i]
      /\ Append(w, n)[Len(w) + 1] = n
  BY LenProperties, AppendProperties
<1>2. ASSUME NEW i \in 1..Len(w)
      PROVE  1..w[i] \subseteq D \cup {Append(w, n)[j] : j \in 1..i}
  <2>1. \A j \in 1..i : Append(w, n)[j] = w[j]
    BY <1>1
  <2>2. 1..w[i] \subseteq D \cup {w[j] : j \in 1..i}
    BY <1>1 DEF Covered
  <2> QED BY <2>1, <2>2
<1>3. 1..n \subseteq D \cup {Append(w, n)[j] : j \in 1..(Len(w) + 1)}
  <2>1. \A m \in 1..n : m = n \/ m \in 1..(n - 1)
    BY DEF Input
  <2>2. \A m \in ToSet(w) : \E j \in 1..(Len(w) + 1) : Append(w, n)[j] = m
    BY <1>1 DEF ToSet
  <2>3. Len(w) + 1 \in 1..(Len(w) + 1)
    BY <1>1
  <2> QED BY <1>1, <2>1, <2>2, <2>3
<1>4. ASSUME NEW i \in 1..(Len(w) + 1)
      PROVE  1..(Append(w, n)[i]) \subseteq D \cup {Append(w, n)[j] : j \in 1..i}
  <2>1. CASE i = Len(w) + 1
    BY <1>1, <1>3, <2>1
  <2>2. CASE i # Len(w) + 1
    <3>1. i \in 1..Len(w)
      BY <1>1, <2>2
    <3> QED BY <1>1, <1>2, <3>1
  <2> QED BY <2>1, <2>2
<1> QED BY <1>1, <1>4 DEF Covered

LEMMA CoveredConcat ==
    ASSUME NEW w \in Seq(Input), NEW D, NEW v \in Seq(Input), Covered(w, D),
           Increasing(v),
           \A n \in ToSet(v) : 1..n \subseteq D \cup ToSet(w) \cup ToSet(v)
    PROVE  Covered(w \o v, D)
<1>1. /\ Len(w) \in Nat /\ Len(v) \in Nat
      /\ DOMAIN w = 1..Len(w) /\ DOMAIN v = 1..Len(v)
      /\ DOMAIN (w \o v) = 1..(Len(w) + Len(v))
      /\ \A i \in 1..Len(w) : (w \o v)[i] = w[i]
      /\ \A i \in 1..Len(v) : (w \o v)[Len(w) + i] = v[i]
  <2>1. /\ w \o v \in Seq(Input)
        /\ Len(w \o v) = Len(w) + Len(v)
        /\ \A i \in 1..(Len(w) + Len(v)) :
              (w \o v)[i] = IF i <= Len(w) THEN w[i] ELSE v[i - Len(w)]
    BY ConcatProperties
  <2>2. /\ Len(w) \in Nat /\ Len(v) \in Nat
        /\ DOMAIN w = 1..Len(w) /\ DOMAIN v = 1..Len(v)
        /\ DOMAIN (w \o v) = 1..(Len(w) + Len(v))
    BY <2>1, LenProperties
  <2>3. \A i \in 1..Len(w) : i \in 1..(Len(w) + Len(v)) /\ i <= Len(w)
    BY <2>2
  <2>4. \A i \in 1..Len(v) : /\ Len(w) + i \in 1..(Len(w) + Len(v))
                             /\ ~(Len(w) + i <= Len(w))
                             /\ (Len(w) + i) - Len(w) = i
    BY <2>2
  <2> QED BY <2>1, <2>2, <2>3, <2>4
<1>2. ASSUME NEW i \in 1..Len(w)
      PROVE  1..w[i] \subseteq D \cup {(w \o v)[j] : j \in 1..i}
  <2>1. \A j \in 1..i : (w \o v)[j] = w[j]
    BY <1>1
  <2>2. 1..w[i] \subseteq D \cup {w[j] : j \in 1..i}
    BY <1>1 DEF Covered
  <2> QED BY <2>1, <2>2
<1>3. ASSUME NEW i \in 1..Len(v)
      PROVE  1..v[i] \subseteq D \cup {(w \o v)[j] : j \in 1..(Len(w) + i)}
  <2>1. \A j \in 1..Len(v) : v[j] \in Nat /\ v[j] \in ToSet(v)
    <3>1. \A j \in 1..Len(v) : v[j] \in Nat
      BY InputElements
    <3>2. \A j \in 1..Len(v) : v[j] \in ToSet(v)
      BY <1>1 DEF ToSet
    <3> QED BY <3>1, <3>2
  <2>2. ASSUME NEW m \in 1..v[i]
        PROVE  m \in D \/ \E j \in 1..(Len(w) + i) : (w \o v)[j] = m
    <3>1. m \in D \/ m \in ToSet(w) \/ m \in ToSet(v)
      BY <2>1, <2>2
    <3>2. CASE m \in ToSet(w)
      <4>1. PICK j \in 1..Len(w) : w[j] = m
        BY <1>1, <3>2 DEF ToSet
      <4>2. j \in 1..(Len(w) + i) /\ (w \o v)[j] = m
        BY <1>1, <4>1
      <4> QED BY <4>2
    <3>3. CASE m \in ToSet(v)
      <4>1. PICK j \in 1..Len(v) : v[j] = m
        BY <1>1, <3>3 DEF ToSet
      <4>2. ~(i < j)
        <5>1. i < j => v[i] < v[j]
          BY <1>1 DEF Increasing
        <5> QED BY <2>1, <4>1, <5>1
      <4>3. Len(w) + j \in 1..(Len(w) + i) /\ (w \o v)[Len(w) + j] = m
        BY <1>1, <4>1, <4>2
      <4> QED BY <4>3
    <3> QED BY <3>1, <3>2, <3>3
  <2> QED BY <2>2
<1>4. ASSUME NEW i \in 1..(Len(w) + Len(v))
      PROVE  1..((w \o v)[i]) \subseteq D \cup {(w \o v)[j] : j \in 1..i}
  <2>1. CASE i <= Len(w)
    <3>1. i \in 1..Len(w)
      BY <1>1, <2>1
    <3> QED BY <1>1, <1>2, <3>1
  <2>2. CASE ~(i <= Len(w))
    <3>1. i - Len(w) \in 1..Len(v) /\ Len(w) + (i - Len(w)) = i
      BY <1>1, <2>2
    <3>2. (w \o v)[i] = v[i - Len(w)]
      BY <1>1, <3>1
    <3> QED BY <1>3, <3>1, <3>2
  <2> QED BY <2>1, <2>2
<1> QED BY <1>1, <1>4 DEF Covered

LEMMA CoveredTail ==
    ASSUME NEW w \in Seq(Input), w # <<>>, NEW D, NEW E, Covered(w, D),
           D \subseteq E, Head(w) \in E
    PROVE  /\ Covered(Tail(w), E)
           /\ 1..Head(w) \subseteq D \cup {Head(w)}
<1>1. /\ Head(w) = w[1]
      /\ 1 \in DOMAIN w
      /\ \A i \in DOMAIN Tail(w) : i + 1 \in DOMAIN w /\ Tail(w)[i] = w[i + 1]
      /\ Tail(w) \in Seq(Input)
      /\ \A i \in DOMAIN w : i = 1 \/ i - 1 \in DOMAIN Tail(w)
  BY TailElements
<1>2. /\ Len(w) \in Nat /\ DOMAIN w = 1..Len(w)
      /\ Len(Tail(w)) \in Nat /\ DOMAIN Tail(w) = 1..Len(Tail(w))
  BY <1>1, LenProperties
<1>3. ASSUME NEW i \in DOMAIN Tail(w)
      PROVE  1..(Tail(w)[i]) \subseteq E \cup {Tail(w)[j] : j \in 1..i}
  <2>1. 1..w[i + 1] \subseteq D \cup {w[j] : j \in 1..(i + 1)}
    BY <1>1 DEF Covered
  <2>2. ASSUME NEW j \in 1..(i + 1)
        PROVE  w[j] \in E \cup {Tail(w)[l] : l \in 1..i}
    <3>1. CASE j = 1
      BY <1>1, <3>1
    <3>2. CASE j # 1
      <4>1. j - 1 \in 1..i /\ j - 1 \in DOMAIN Tail(w) /\ (j - 1) + 1 = j
        BY <1>2, <3>2
      <4>2. Tail(w)[j - 1] = w[j]
        BY <1>1, <4>1
      <4> QED BY <4>1, <4>2
    <3> QED BY <3>1, <3>2
  <2> QED BY <1>1, <2>1, <2>2
<1>4. 1..Head(w) \subseteq D \cup {Head(w)}
  <2>1. 1..w[1] \subseteq D \cup {w[j] : j \in 1..1}
    BY <1>1 DEF Covered
  <2>2. \A j \in 1..1 : j = 1
    OBVIOUS
  <2> QED BY <1>1, <2>1, <2>2
<1> QED BY <1>3, <1>4 DEF Covered

-----------------------------------------------------------------------------
(* What every session is like, whatever the room's route is.               *)

\* What is retained while a cutover is verified holds what is not acknowledged,
\* and fits in the buffer.
Buffered(x) ==
    /\ ~x.verifying => x.shadow = {}
    /\ x.verifying => Unacked(x) \subseteq x.shadow
    /\ Cardinality(Replayed(x)) <= MaxBuffer

\* A session has a connection from its opening to its end.  Nothing has been
\* sent on one that start() waits for, nothing is in transit on one that is not
\* open, and an adopted one that is not open is being verified.
Connects(x) ==
    /\ x.state \in {"new", "closed"} =>
          /\ x.current = None
          /\ x.wire = <<>> /\ x.ack = 0 /\ x.acked = 0 /\ x.received = 0
          /\ ~x.starting /\ ~x.verifying
    /\ x.state \in {"open", "joined"} => x.current # None
    /\ x.state = "new" => x.prepared = None
    /\ x.current # None =>
          /\ x.current.up = "connecting" /\ ~x.current.adopted
                => x.current.sent = 0 /\ x.received = 0
          /\ x.current.up # "open" => x.wire = <<>>
          /\ x.current.adopted /\ x.current.up # "open" => x.verifying

Sound(x) == x \in GatewaySession /\ Buffered(x) /\ Connects(x)

LEMMA SameBuffers ==
    ASSUME NEW x, NEW y, Buffered(x), y.acked = x.acked, y.received = x.received,
           y.shadow = x.shadow, y.verifying = x.verifying
    PROVE  Buffered(y)
BY DEF Buffered, Unacked, Replayed

\* The sequence numbers of a buffer.
LEMMA BufferInputs ==
    ASSUME NEW x \in GatewaySession
    PROVE  /\ MaxInput \in Nat /\ MaxBuffer \in Nat \ {0}
           /\ x.acked \in Nat /\ x.received \in Nat /\ x.ack \in Nat
           /\ x.received <= MaxInput
           /\ Unacked(x) \subseteq Input
           /\ x.shadow \subseteq Input
           /\ Replayed(x) \subseteq Input
           /\ IsFiniteSet(Unacked(x)) /\ IsFiniteSet(x.shadow)
           /\ IsFiniteSet(Replayed(x))
<1>1. /\ MaxInput \in Nat /\ MaxBuffer \in Nat \ {0}
      /\ x.acked \in Sequence /\ x.received \in Sequence /\ x.ack \in Sequence
      /\ x.shadow \subseteq Input
  BY BoundAssumption DEF GatewaySession
<1>2. /\ x.acked \in Nat /\ x.received \in Nat /\ x.ack \in Nat
      /\ x.received <= MaxInput
  BY <1>1 DEF Sequence
<1>3. Unacked(x) \subseteq Input
  BY <1>1, <1>2 DEF Unacked, Input
<1>4. Replayed(x) \subseteq Input
  BY <1>1, <1>3 DEF Replayed
<1>5. IsFiniteSet(Input)
  BY <1>1, FS_Interval DEF Input
<1>6. IsFiniteSet(Unacked(x)) /\ IsFiniteSet(x.shadow) /\ IsFiniteSet(Replayed(x))
  BY <1>1, <1>3, <1>4, <1>5, FS_Subset
<1> QED BY <1>1, <1>2, <1>3, <1>4, <1>6

LEMMA BlankSound ==
    ASSUME NEW st \in {"new", "closed"}
    PROVE  Sound(Blank(st)) /\ Blank(st).state = st
<1> DEFINE y == Blank(st)
<1>1. MaxInput \in Nat /\ MaxBuffer \in Nat \ {0} /\ 0 \in Sequence
  BY BoundAssumption DEF Sequence
<1>2. <<>> \in Seq(Input)
  BY EmptySeq
<1>3. y \in GatewaySession
  BY <1>1, <1>2 DEF Blank, GatewaySession
<1>4. Replayed(y) = {}
  <2>1. y.shadow = {} /\ y.acked = 0 /\ y.received = 0
    BY DEF Blank
  <2>2. (0 + 1)..0 = {}
    OBVIOUS
  <2>3. Unacked(y) = {}
    BY <2>1, <2>2 DEF Unacked
  <2> QED BY <2>1, <2>3 DEF Replayed
<1>5. Buffered(y)
  <2>1. ~y.verifying /\ y.shadow = {}
    BY DEF Blank
  <2>2. Cardinality(Replayed(y)) = 0
    BY <1>4, FS_EmptySet
  <2> HIDE DEF y
  <2> QED BY <1>1, <2>1, <2>2 DEF Buffered
<1>6. Connects(y) /\ y.state = st
  BY DEF Blank, Connects
<1> QED BY <1>3, <1>5, <1>6 DEF Sound

\* What flushInputs leaves alone, and what it sends.
LEMMA FlushedFields ==
    ASSUME NEW x \in GatewaySession, x.current # None
    PROVE  LET y == Flushed(x)
               due == {n \in Unacked(x) : n > x.current.sent}
           IN  /\ y \in GatewaySession
               /\ \A f \in {"state", "starting", "prepared", "frozen", "received",
                            "acked", "shadow", "verifying", "closing", "ack"} :
                     y[f] = x[f]
               /\ y.current \in Upstream
               /\ y.current.route = x.current.route
               /\ y.current.adopted = x.current.adopted
               /\ y.current.up = x.current.up
               /\ y.current.sent = IF due = {} THEN x.current.sent ELSE x.received
               /\ y.wire = IF x.current.up = "open" THEN x.wire \o Sorted(due)
                                                    ELSE x.wire
<1> DEFINE due == {n \in Unacked(x) : n > x.current.sent}
           w == IF x.current.up = "open" THEN x.wire \o Sorted(due) ELSE x.wire
           c == [x.current EXCEPT !.sent = IF due = {} THEN @ ELSE x.received]
           y == Flushed(x)
<1>1. y = [x EXCEPT !.wire = w, !.current = c]
  BY DEF Flushed, GatewaySession
<1>2. due \in SUBSET Input
  BY BufferInputs
<1>3. w \in Seq(Input)
  BY <1>2, SortedInputs, ConcatElements DEF GatewaySession
<1>4. x.current \in Upstream /\ x.received \in Sequence
  BY DEF GatewaySession
<1>5. /\ c \in Upstream
      /\ c.route = x.current.route /\ c.adopted = x.current.adopted
      /\ c.up = x.current.up
      /\ c.sent = IF due = {} THEN x.current.sent ELSE x.received
  BY <1>4 DEF Upstream
<1> HIDE DEF due, w, c
<1>6. /\ y \in GatewaySession /\ y.wire = w /\ y.current = c
      /\ \A f \in {"state", "starting", "prepared", "frozen", "received",
                   "acked", "shadow", "verifying", "closing", "ack"} : y[f] = x[f]
  BY <1>1, <1>3, <1>5 DEF GatewaySession
<1> QED BY <1>5, <1>6 DEF w, due

LEMMA FlushedSound ==
    ASSUME NEW x, Sound(x)
    PROVE  /\ Sound(Flushed(x))
           /\ Flushed(x).state = x.state
<1>0. x \in GatewaySession
  BY DEF Sound
<1>1. CASE x.current = None
  BY <1>1 DEF Flushed
<1>2. CASE x.current # None
  <2> DEFINE due == {n \in Unacked(x) : n > x.current.sent}
  <2>1. PICK y : y = Flushed(x)
    OBVIOUS
  <2>2. /\ y \in GatewaySession
        /\ y.state = x.state /\ y.starting = x.starting /\ y.prepared = x.prepared
        /\ y.received = x.received /\ y.acked = x.acked /\ y.shadow = x.shadow
        /\ y.verifying = x.verifying /\ y.ack = x.ack
        /\ y.current # None
        /\ y.current.adopted = x.current.adopted /\ y.current.up = x.current.up
        /\ y.current.sent = IF due = {} THEN x.current.sent ELSE x.received
        /\ x.current.up # "open" => y.wire = x.wire
    BY <1>0, <1>2, <2>1, FlushedFields, NoneAssumption
  <2>3. Buffered(y)
    BY <2>2, SameBuffers DEF Sound
  <2> HIDE DEF due
  <2>4. Connects(y)
    BY <1>2, <2>2 DEF Sound, Connects
  <2> QED BY <2>1, <2>2, <2>3, <2>4 DEF Sound
<1> QED BY <1>1, <1>2

LEMMA ResumedSound ==
    ASSUME NEW x, Sound(x)
    PROVE  Sound(Resumed(x)) /\ Resumed(x).state = x.state
<1>1. PICK y : y = [x EXCEPT !.prepared = None, !.frozen = FALSE]
  OBVIOUS
<1>2. /\ y \in GatewaySession
      /\ y.state = x.state /\ y.starting = x.starting /\ y.prepared = None
      /\ y.received = x.received /\ y.acked = x.acked /\ y.shadow = x.shadow
      /\ y.verifying = x.verifying /\ y.ack = x.ack /\ y.wire = x.wire
      /\ y.current = x.current
  BY <1>1 DEF Sound, GatewaySession
<1>3. Buffered(y)
  BY <1>2, SameBuffers DEF Sound
<1>4. Connects(y)
  BY <1>2 DEF Sound, Connects
<1>5. Sound(y) /\ Resumed(x) = Flushed(y)
  BY <1>1, <1>2, <1>3, <1>4 DEF Sound, Resumed
<1> QED BY <1>2, <1>5, FlushedSound

\* A connection is replaced by the prepared one.
LEMMA CommittedSound ==
    ASSUME NEW x, Sound(x), NEW r \in Route, CanCommit(x, r)
    PROVE  Sound(Committed(x, r)) /\ Committed(x, r).state = x.state
<1>1. CASE OnRoute(x, r)
  BY <1>1 DEF Committed
<1>2. CASE ~OnRoute(x, r) /\ x.state = "closed"
  <2>1. PICK y : y = [x EXCEPT !.prepared = None]
    OBVIOUS
  <2>2. /\ y \in GatewaySession
        /\ y.state = x.state /\ y.starting = x.starting /\ y.prepared = None
        /\ y.received = x.received /\ y.acked = x.acked /\ y.shadow = x.shadow
        /\ y.verifying = x.verifying /\ y.ack = x.ack /\ y.wire = x.wire
        /\ y.current = x.current
    BY <2>1 DEF Sound, GatewaySession
  <2>3. Buffered(y)
    BY <2>2, SameBuffers DEF Sound
  <2>4. Connects(y)
    BY <2>2 DEF Sound, Connects
  <2>5. y = Committed(x, r)
    BY <1>2, <2>1 DEF Committed
  <2> QED BY <2>2, <2>3, <2>4, <2>5 DEF Sound
<1>3. CASE ~OnRoute(x, r) /\ x.state # "closed"
  <2> DEFINE w == IF x.prepared.up = "open" THEN Sorted(Replayed(x)) ELSE <<>>
             n == IF Replayed(x) = {} THEN x.acked ELSE x.received
             c == [route |-> r, adopted |-> TRUE, up |-> x.prepared.up, sent |-> n]
             k == \/ x.closing
                  \/ x.current # None /\ x.current.adopted /\ x.current.up = "open"
  <2>1. /\ x.prepared # None /\ x.prepared \in Prepared
        /\ x \in GatewaySession
        /\ x.state \in {"open", "joined"}
    BY <1>3 DEF CanCommit, Sound, GatewaySession, Connects
  <2>2. Replayed(x) \in SUBSET Input
    BY <2>1, BufferInputs
  <2>3. w \in Seq(Input)
    BY <2>2, SortedInputs, EmptySeq
  <2>4. n \in Sequence
    BY <2>1 DEF GatewaySession
  <2>5. c \in Upstream /\ c # None
    <3>1. x.prepared.up \in {"connecting", "open", "closed"}
      BY <2>1 DEF Prepared
    <3> HIDE DEF n
    <3>2. c \in Upstream
      BY <2>4, <3>1 DEF Upstream
    <3> QED BY <3>2, NoneAssumption
  <2>6. Committed(x, r) =
          [x EXCEPT !.current = c, !.prepared = None, !.frozen = FALSE, !.wire = w,
                    !.ack = 0, !.shadow = Replayed(x), !.verifying = TRUE,
                    !.closing = k]
    BY <1>3, <2>1 DEF Committed, GatewaySession
  <2>7. c.up = x.prepared.up /\ c.adopted
    OBVIOUS
  <2>8. x.prepared.up # "open" => w = <<>>
    OBVIOUS
  <2>9. k \in BOOLEAN /\ 0 \in Sequence
    BY <2>1, BoundAssumption DEF GatewaySession, Sequence
  <2> HIDE DEF w, n, c, k
  <2>10. PICK y : y = Committed(x, r)
    OBVIOUS
  <2>11. /\ y \in GatewaySession
         /\ y.state = x.state /\ y.current = c /\ y.wire = w
         /\ y.shadow = Replayed(x) /\ y.verifying
         /\ y.received = x.received /\ y.acked = x.acked
    BY <2>1, <2>2, <2>3, <2>5, <2>6, <2>9, <2>10 DEF GatewaySession
  <2>12. Unacked(y) = Unacked(x) /\ Replayed(y) = Replayed(x)
    BY <2>11 DEF Unacked, Replayed
  <2>13. Buffered(y)
    BY <2>11, <2>12 DEF Sound, Buffered, Replayed
  <2>14. Connects(y)
    BY <2>1, <2>5, <2>7, <2>8, <2>11 DEF Connects
  <2> QED BY <2>10, <2>11, <2>13, <2>14 DEF Sound
<1> QED BY <1>1, <1>2, <1>3

LEMMA DisconnectedSound ==
    ASSUME NEW x, Sound(x), x.current # None
    PROVE  Sound(Disconnected(x)) /\ Disconnected(x).state # "new"
<1>1. CASE x.frozen /\ ~x.current.adopted
  <2>1. PICK y : y = Disconnected(x)
    OBVIOUS
  <2>2. x.current \in Upstream /\ x \in GatewaySession /\ 0 \in Sequence
    BY BoundAssumption DEF Sound, GatewaySession, Sequence
  <2>3. <<>> \in Seq(Input)
    BY EmptySeq
  <2>4. PICK c : c = [x.current EXCEPT !.up = "closed"]
    OBVIOUS
  <2>5. c \in Upstream /\ c.up = "closed" /\ c.adopted = x.current.adopted
    BY <2>2, <2>4 DEF Upstream
  <2>6. y = [x EXCEPT !.wire = <<>>, !.ack = 0, !.current = c]
    BY <1>1, <2>1, <2>2, <2>4 DEF Disconnected, GatewaySession
  <2>7. /\ y \in GatewaySession
        /\ y.state = x.state /\ y.current = c /\ y.wire = <<>>
        /\ y.shadow = x.shadow /\ y.verifying = x.verifying
        /\ y.received = x.received /\ y.acked = x.acked
    BY <2>2, <2>3, <2>5, <2>6 DEF GatewaySession
  <2>8. Buffered(y)
    BY <2>7, SameBuffers DEF Sound
  <2>9. y.state \in {"open", "joined"}
    BY <2>2, <2>7 DEF Sound, Connects, GatewaySession
  <2>10. Connects(y)
    BY <1>1, <2>5, <2>7, <2>9, NoneAssumption DEF Connects
  <2> QED BY <2>1, <2>7, <2>8, <2>9, <2>10 DEF Sound
<1>2. CASE ~(x.frozen /\ ~x.current.adopted)
  BY <1>2, BlankSound DEF Disconnected, Stopped
<1> QED BY <1>1, <1>2

LEMMA OpenedSound ==
    ASSUME NEW x, Sound(x), x.state = "new", NEW r \in Route, NEW y,
           y = [x EXCEPT !.state = "open", !.starting = TRUE,
                         !.current = [route |-> r, adopted |-> FALSE,
                                      up |-> "connecting", sent |-> 0]]
    PROVE  Sound(y) /\ y.state # "new"
<1>1. PICK c : c = [route |-> r, adopted |-> FALSE, up |-> "connecting", sent |-> 0]
  OBVIOUS
<1>2. c \in Upstream /\ c # None /\ c.sent = 0 /\ c.up = "connecting" /\ ~c.adopted
  <2>1. 0 \in Sequence
    BY BoundAssumption DEF Sequence
  <2>2. c \in Upstream
    BY <1>1, <2>1 DEF Upstream
  <2> QED BY <1>1, <2>2, NoneAssumption
<1>3. x \in GatewaySession /\ x.received = 0 /\ x.wire = <<>>
  BY DEF Sound, Connects
<1>4. /\ y \in GatewaySession
      /\ y.state = "open" /\ y.current = c /\ y.wire = x.wire
      /\ y.shadow = x.shadow /\ y.verifying = x.verifying
      /\ y.received = x.received /\ y.acked = x.acked
  BY <1>1, <1>2, <1>3 DEF GatewaySession
<1>5. Buffered(y)
  BY <1>4, SameBuffers DEF Sound
<1>6. Connects(y)
  BY <1>2, <1>3, <1>4 DEF Connects
<1> QED BY <1>4, <1>5, <1>6 DEF Sound

LEMMA ConnectedSound ==
    ASSUME NEW x, Sound(x), x.starting, NEW y,
           y = Flushed([x EXCEPT !.starting = FALSE, !.current.up = "open"])
    PROVE  Sound(y) /\ y.state # "new"
<1>1. PICK c : c = [x.current EXCEPT !.up = "open"]
  OBVIOUS
<1>2. PICK z : z = [x EXCEPT !.starting = FALSE, !.current = c]
  OBVIOUS
<1>3. /\ x \in GatewaySession
      /\ x.state \in {"open", "joined"}
      /\ x.current \in Upstream
  BY DEF Sound, Connects, GatewaySession
<1>4. c \in Upstream /\ c # None /\ c.up = "open"
  BY <1>1, <1>3, NoneAssumption DEF Upstream
<1>5. y = Flushed(z)
  BY <1>1, <1>2, <1>3 DEF GatewaySession
<1>6. /\ z \in GatewaySession
      /\ z.state = x.state /\ z.current = c
      /\ z.shadow = x.shadow /\ z.verifying = x.verifying
      /\ z.received = x.received /\ z.acked = x.acked
  BY <1>2, <1>3, <1>4 DEF GatewaySession
<1>7. Buffered(z)
  BY <1>6, SameBuffers DEF Sound
<1>8. Connects(z)
  BY <1>3, <1>4, <1>6 DEF Connects
<1>9. Sound(z)
  BY <1>6, <1>7, <1>8 DEF Sound
<1> QED BY <1>3, <1>5, <1>6, <1>9, FlushedSound

LEMMA FrozenSound ==
    ASSUME NEW x, Sound(x), NEW y, y = [x EXCEPT !.frozen = TRUE]
    PROVE  Sound(y) /\ y.state = x.state
<1>1. /\ y \in GatewaySession
      /\ y.state = x.state /\ y.starting = x.starting /\ y.prepared = x.prepared
      /\ y.received = x.received /\ y.acked = x.acked /\ y.shadow = x.shadow
      /\ y.verifying = x.verifying /\ y.ack = x.ack /\ y.wire = x.wire
      /\ y.current = x.current
  BY DEF Sound, GatewaySession
<1>2. Buffered(y)
  BY <1>1, SameBuffers DEF Sound
<1>3. Connects(y)
  BY <1>1 DEF Sound, Connects
<1> QED BY <1>1, <1>2, <1>3 DEF Sound

LEMMA JoinedSound ==
    ASSUME NEW x, Sound(x), x.state = "open", NEW y,
           y = [x EXCEPT !.state = "joined"]
    PROVE  Sound(y) /\ y.state # "new"
<1>1. /\ y \in GatewaySession
      /\ y.state = "joined" /\ y.starting = x.starting
      /\ y.received = x.received /\ y.acked = x.acked /\ y.shadow = x.shadow
      /\ y.verifying = x.verifying /\ y.ack = x.ack /\ y.wire = x.wire
      /\ y.current = x.current
  BY DEF Sound, GatewaySession
<1>2. Buffered(y)
  BY <1>1, SameBuffers DEF Sound
<1>3. Connects(y)
  BY <1>1 DEF Sound, Connects
<1> QED BY <1>1, <1>2, <1>3 DEF Sound

\* A session's prepared connection is replaced, or its state changes.
LEMMA PreparedSound ==
    ASSUME NEW x, Sound(x), x.state # "new", NEW p \in Prepared, NEW y,
           y = [x EXCEPT !.prepared = p]
    PROVE  Sound(y) /\ y.state = x.state
<1>1. /\ y \in GatewaySession
      /\ y.state = x.state /\ y.starting = x.starting
      /\ y.received = x.received /\ y.acked = x.acked /\ y.shadow = x.shadow
      /\ y.verifying = x.verifying /\ y.ack = x.ack /\ y.wire = x.wire
      /\ y.current = x.current
  BY DEF Sound, GatewaySession
<1>2. Buffered(y)
  BY <1>1, SameBuffers DEF Sound
<1>3. Connects(y)
  BY <1>1 DEF Sound, Connects
<1> QED BY <1>1, <1>2, <1>3 DEF Sound

LEMMA PreparedUpSound ==
    ASSUME NEW x, Sound(x), x.prepared # None, NEW u \in {"open", "closed"},
           NEW y, y = [x EXCEPT !.prepared.up = u]
    PROVE  Sound(y) /\ y.state = x.state
<1>1. x \in GatewaySession /\ x.state # "new" /\ x.prepared \in Prepared
  BY DEF Sound, Connects, GatewaySession
<1>2. PICK p : p = [x.prepared EXCEPT !.up = u]
  OBVIOUS
<1>3. p \in Prepared
  BY <1>1, <1>2 DEF Prepared
<1>4. y = [x EXCEPT !.prepared = p]
  BY <1>1, <1>2 DEF GatewaySession
<1> QED BY <1>1, <1>3, <1>4, PreparedSound

\* An input is on its way no more, and acknowledged.
LEMMA ProcessedSound ==
    ASSUME NEW x, Sound(x), x.wire # <<>>, NEW n \in Sequence, NEW y,
           y = [x EXCEPT !.wire = Tail(@), !.ack = n]
    PROVE  Sound(y) /\ y.state = x.state
<1>1. Tail(x.wire) \in Seq(Input)
  BY TailElements DEF Sound, GatewaySession
<1>2. /\ y \in GatewaySession
      /\ y.state = x.state /\ y.starting = x.starting /\ y.prepared = x.prepared
      /\ y.received = x.received /\ y.acked = x.acked /\ y.shadow = x.shadow
      /\ y.verifying = x.verifying
      /\ y.current = x.current
  BY <1>1 DEF Sound, GatewaySession
<1>3. Buffered(y)
  BY <1>2, SameBuffers DEF Sound
<1>4. x.state \notin {"new", "closed"}
  BY DEF Sound, Connects
<1>5. Connects(y)
  BY <1>2, <1>4 DEF Sound, Connects
<1> QED BY <1>2, <1>3, <1>5 DEF Sound

LEMMA AckedSound ==
    ASSUME NEW x, Sound(x), x.ack # 0, NEW y,
           y = [x EXCEPT !.acked = IF @ < x.ack THEN x.ack ELSE @, !.ack = 0]
    PROVE  Sound(y) /\ y.state = x.state
<1>1. PICK n : n = IF x.acked < x.ack THEN x.ack ELSE x.acked
  OBVIOUS
<1>2. x \in GatewaySession /\ x.state \notin {"new", "closed"}
  BY DEF Sound, Connects
<1>3. n \in Sequence /\ 0 \in Sequence /\ n \in Nat /\ x.acked <= n
  <2>1. x.acked \in Sequence /\ x.ack \in Sequence
    BY <1>2 DEF GatewaySession
  <2> QED BY <1>1, <2>1, BoundAssumption DEF Sequence
<1>4. /\ y \in GatewaySession
      /\ y.state = x.state /\ y.starting = x.starting /\ y.prepared = x.prepared
      /\ y.received = x.received /\ y.acked = n /\ y.shadow = x.shadow
      /\ y.verifying = x.verifying /\ y.wire = x.wire
      /\ y.current = x.current
  BY <1>1, <1>2, <1>3 DEF GatewaySession
<1>5. Unacked(y) \subseteq Unacked(x)
  BY <1>2, <1>3, <1>4, BufferInputs DEF Unacked
<1>6. Replayed(y) \subseteq Replayed(x)
  BY <1>4, <1>5 DEF Replayed
<1>7. Cardinality(Replayed(y)) <= MaxBuffer
  <2>1. /\ Cardinality(Replayed(y)) <= Cardinality(Replayed(x))
        /\ Cardinality(Replayed(y)) \in Nat /\ Cardinality(Replayed(x)) \in Nat
    BY <1>2, <1>4, <1>6, BufferInputs, FS_Subset, FS_CardinalityType
  <2> QED BY <2>1, BoundAssumption DEF Sound, Buffered
<1>8. Buffered(y)
  BY <1>4, <1>5, <1>7 DEF Sound, Buffered
<1>9. Connects(y)
  BY <1>2, <1>4 DEF Sound, Connects
<1> QED BY <1>4, <1>8, <1>9 DEF Sound

LEMMA FinalizedSound ==
    ASSUME NEW x, Sound(x), x.current # None, x.current.up = "open", NEW y,
           y = [x EXCEPT !.verifying = FALSE, !.shadow = {}]
    PROVE  Sound(y) /\ y.state = x.state
<1>1. x \in GatewaySession
  BY DEF Sound
<1>2. /\ y \in GatewaySession
      /\ y.state = x.state /\ y.starting = x.starting /\ y.prepared = x.prepared
      /\ y.received = x.received /\ y.acked = x.acked /\ y.shadow = {}
      /\ ~y.verifying /\ y.wire = x.wire /\ y.ack = x.ack
      /\ y.current = x.current
  BY <1>1 DEF GatewaySession
<1>3. Replayed(y) \subseteq Replayed(x)
  BY <1>2 DEF Replayed, Unacked
<1>4. Cardinality(Replayed(y)) <= MaxBuffer
  <2>1. /\ Cardinality(Replayed(y)) <= Cardinality(Replayed(x))
        /\ Cardinality(Replayed(y)) \in Nat /\ Cardinality(Replayed(x)) \in Nat
    BY <1>1, <1>2, <1>3, BufferInputs, FS_Subset, FS_CardinalityType
  <2> QED BY <2>1, BoundAssumption DEF Sound, Buffered
<1>5. Buffered(y)
  BY <1>2, <1>4 DEF Buffered
<1>6. Connects(y)
  BY <1>2 DEF Sound, Connects
<1> QED BY <1>2, <1>5, <1>6 DEF Sound

\* The session after receive() has accepted an input.
WithInput(x) ==
    LET n == x.received + 1
        sends == ~x.frozen /\ x.current.up = "open"
    IN  [x EXCEPT !.received = n,
                  !.shadow = IF x.verifying THEN @ \cup {n} ELSE @,
                  !.wire = IF sends THEN Append(@, n) ELSE @,
                  !.current.sent = IF sends THEN n ELSE @]

\* An input is buffered, and retained while a cutover is verified.
LEMMA ReceivedSound ==
    ASSUME NEW x, Sound(x), x.state = "joined", x.current.up # "connecting",
           x.received + 1 <= MaxInput, HasRoom(x), NEW y, y = WithInput(x)
    PROVE  Sound(y) /\ y.state = x.state
<1> DEFINE n == x.received + 1
           sends == ~x.frozen /\ x.current.up = "open"
<1>1. x \in GatewaySession /\ x.current # None /\ x.current \in Upstream
  BY DEF Sound, Connects, GatewaySession
<1>2. n \in Input /\ n \in Sequence /\ n \in Nat
  BY <1>1, BufferInputs DEF Input, Sequence
<1>3. PICK c : c = [x.current EXCEPT !.sent = IF sends THEN n ELSE @]
  OBVIOUS
<1>4. PICK w : w = IF sends THEN Append(x.wire, n) ELSE x.wire
  OBVIOUS
<1>5. PICK h : h = IF x.verifying THEN x.shadow \cup {n} ELSE x.shadow
  OBVIOUS
<1>6. c \in Upstream /\ c # None /\ c.up = x.current.up /\ c.adopted = x.current.adopted
  BY <1>1, <1>2, <1>3, NoneAssumption DEF Upstream
<1>7. w \in Seq(Input)
  BY <1>1, <1>2, <1>4, AppendElements DEF GatewaySession
<1>8. h \subseteq Input
  BY <1>1, <1>2, <1>5 DEF GatewaySession
<1>9. y = [x EXCEPT !.received = n, !.shadow = h, !.wire = w, !.current = c]
  BY <1>1, <1>3, <1>4, <1>5 DEF GatewaySession, WithInput
<1> HIDE DEF n
<1>10. /\ y \in GatewaySession
       /\ y.state = x.state /\ y.starting = x.starting /\ y.prepared = x.prepared
       /\ y.received = n /\ y.acked = x.acked /\ y.shadow = h
       /\ y.verifying = x.verifying /\ y.wire = w
       /\ y.current = c
  BY <1>1, <1>2, <1>6, <1>7, <1>8, <1>9 DEF GatewaySession
<1>11. Unacked(y) \subseteq Unacked(x) \cup {n}
  BY <1>1, <1>2, <1>10, BufferInputs DEF Unacked, n
<1>12. PICK B : /\ B = (IF x.verifying THEN x.shadow ELSE Unacked(x)) 
                /\ IsFiniteSet(B) /\ Cardinality(B) < MaxBuffer
                /\ Replayed(y) \subseteq B \cup {n}
  <2>1. IsFiniteSet(Unacked(x)) /\ IsFiniteSet(x.shadow)
    BY <1>1, BufferInputs
  <2>2. x.verifying => Unacked(x) \subseteq x.shadow
    BY DEF Sound, Buffered
  <2>3. ~x.verifying => x.shadow = {}
    BY DEF Sound, Buffered
  <2>4. Replayed(y) \subseteq h \cup Unacked(x) \cup {n}
    BY <1>10, <1>11 DEF Replayed
  <2> QED BY <1>5, <2>1, <2>2, <2>3, <2>4 DEF HasRoom
<1>13. Cardinality(Replayed(y)) <= MaxBuffer
  <2>1. IsFiniteSet(B \cup {n}) /\ Cardinality(B \cup {n}) <= Cardinality(B) + 1
        /\ Cardinality(B) \in Nat
    <3>1. Cardinality(B) \in Nat
      BY <1>12, FS_CardinalityType
    <3>2. /\ IsFiniteSet(B \cup {n})
          /\ Cardinality(B \cup {n}) = IF n \in B THEN Cardinality(B)
                                      ELSE Cardinality(B) + 1
      BY <1>12, FS_AddElement
    <3> QED BY <3>1, <3>2
  <2>2. /\ Cardinality(Replayed(y)) <= Cardinality(B \cup {n})
        /\ Cardinality(Replayed(y)) \in Nat /\ Cardinality(B \cup {n}) \in Nat
    BY <1>12, <2>1, FS_Subset, FS_CardinalityType
  <2> QED BY <1>12, <2>1, <2>2, BoundAssumption
<1>14. Buffered(y)
  BY <1>5, <1>10, <1>11, <1>13 DEF Sound, Buffered
<1>15. Connects(y)
  BY <1>4, <1>6, <1>10 DEF Sound, Connects
<1> QED BY <1>10, <1>14, <1>15 DEF Sound

-----------------------------------------------------------------------------
(* The authority, and the cutovers that follow it.                         *)

\* The process on the route is Active.
Rest == serving[route.endpoint] = route.epoch

\* At most one process is Active: that on the route, or the one that the route
\* is to be swapped to, which the last mover has activated.
Authority ==
    /\ \A e \in Endpoint :
          serving[e] # 0 =>
              \/ e = route.endpoint /\ serving[e] = route.epoch
              \/ e # route.endpoint /\ serving[e] = route.epoch + 1
    /\ \A e, f \in Endpoint : serving[e] # 0 /\ serving[f] # 0 => e = f
    /\ transfer # None => Rest /\ route.epoch < MaxEpoch
    /\ mover # None /\ Rest => operation[mover] # None

\* What a cutover that has not swapped the route yet, or stopped half-way, knows.
Cuts(o) ==
    /\ frozenAt[o] <= route.epoch
    /\ call[o] # None =>
          /\ operation[o] # None
          /\ operation[o].status \in {"preparing", "registry_committed"}
    /\ operation[o] # None
          /\ operation[o].status \in {"preparing", "registry_committed"} =>
          /\ frozenAt[o] > 0
          /\ operation[o].route.epoch = frozenAt[o] + 1
    /\ operation[o] # None /\ operation[o].status = "preparing" =>
          /\ call[o] # None
          /\ route.epoch = frozenAt[o]
          /\ mover = o
          /\ serving[operation[o].route.endpoint] = frozenAt[o] + 1
    /\ operation[o] # None /\ operation[o].status = "registry_committed" =>
          route.epoch > frozenAt[o]

\* A prepare() is of a known operation, and a session that has been opened.
Tasks == \A t \in tasks : /\ operation[t.op] # None
                          /\ session[t.session].state # "new"

Base == /\ TypeOK
        /\ \A s \in Session : Sound(session[s])
        /\ Authority
        /\ \A o \in Operation : Cuts(o)
        /\ Tasks

LEMMA BaseInit == Init => Base
<1> SUFFICES ASSUME Init PROVE Base
  OBVIOUS
<1> USE DEF Init
<1>1. /\ MaxInput \in Nat /\ MaxEpoch \in Nat \ {0} /\ Home \in Endpoint
      /\ 1 \in Epoch /\ 0 \in 0..MaxEpoch /\ 1 \in 0..MaxEpoch
  BY BoundAssumption, HomeAssumption DEF Epoch
<1>2. route \in Route /\ route.endpoint = Home /\ route.epoch = 1
  BY <1>1 DEF Route
<1>3. \A s \in Session : Sound(session[s])
  BY BlankSound
<1>4. session \in [Session -> GatewaySession]
  <2>1. Blank("new") \in GatewaySession
    BY BlankSound DEF Sound
  <2> QED BY <2>1
<1>5. game \in [Endpoint -> Game]
  <2>1. <<>> \in Seq(Input)
    BY EmptySeq
  <2> QED BY <2>1 DEF Game
<1>6. TypeOK
  <2>1. serving \in [Endpoint -> 0..MaxEpoch]
    BY <1>1
  <2>2. frozenAt \in [Operation -> 0..MaxEpoch]
    BY <1>1
  <2>3. /\ preparation \in Preparation \cup {None}
        /\ verification \in Verification \cup {None}
        /\ operation \in [Operation -> CutoverOperation \cup {None}]
        /\ call \in [Operation -> (SUBSET Session) \cup {None}]
        /\ tasks \subseteq Task
    OBVIOUS
  <2>4. /\ transfer \in Transfer \cup {None}
        /\ mover \in Operation \cup {None}
        /\ left \in [Session -> SUBSET Input]
        /\ faults \subseteq Fault
    OBVIOUS
  <2> QED BY <1>2, <1>4, <1>5, <2>1, <2>2, <2>3, <2>4 DEF TypeOK
<1>7. Authority
  BY <1>1, <1>2 DEF Authority, Rest
<1>8. \A o \in Operation : Cuts(o)
  BY <1>1, <1>2 DEF Cuts
<1>9. Tasks
  BY DEF Tasks
<1> QED BY <1>3, <1>6, <1>7, <1>8, <1>9 DEF Base

\* A step that changes only sessions, and what the authority does not depend on.
LEMMA SessionsBase ==
    ASSUME Base, session' \in [Session -> GatewaySession],
           \A u \in Session : /\ Sound(session'[u])
                              /\ session[u].state # "new"
                                    => session'[u].state # "new",
           preparation' \in Preparation \cup {None},
           verification' \in Verification \cup {None},
           UNCHANGED <<route, operation, frozenAt, call, transfer, mover, serving,
                       left>>,
           tasks' \subseteq Task,
           \A t \in tasks' : /\ operation[t.op] # None
                             /\ session[t.session].state # "new",
           game' \in [Endpoint -> Game], faults' \subseteq Fault
    PROVE  Base'
<1> USE DEF Base
<1>1. \A u \in Session : Sound(session[u])'
  BY DEF Sound, Buffered, Connects
<1>2. TypeOK'
  BY DEF TypeOK
<1>3. Authority'
  BY DEF Authority, Rest
<1>4. \A o \in Operation : Cuts(o)'
  BY DEF Cuts
<1>5. Tasks'
  <2>1. \A t \in tasks' : t.session \in Session
    BY DEF Task
  <2> QED BY <2>1 DEF Tasks
<1> QED BY <1>1, <1>2, <1>3, <1>4, <1>5

\* A step that changes one session.
LEMMA OneSessionBase ==
    ASSUME Base, NEW s \in Session, NEW y, session' = [session EXCEPT ![s] = y],
           Sound(y), session[s].state # "new" => y.state # "new",
           faults' \subseteq Fault,
           UNCHANGED <<route, roomVars, transfer, mover, serving, left>>,
           game' \in [Endpoint -> Game]
    PROVE  Base'
<1>1. /\ session \in [Session -> GatewaySession]
      /\ \A u \in Session : Sound(session[u])
      /\ y \in GatewaySession
  BY DEF Base, TypeOK, Sound
<1>2. \A u \in Session : session'[u] = IF u = s THEN y ELSE session[u]
  BY <1>1
<1>3. session' \in [Session -> GatewaySession]
  BY <1>1
<1>4. \A u \in Session : /\ Sound(session'[u])
                         /\ session[u].state # "new" => session'[u].state # "new"
  BY <1>1, <1>2
<1>5. /\ preparation' \in Preparation \cup {None}
      /\ verification' \in Verification \cup {None}
      /\ tasks' \subseteq Task
      /\ \A t \in tasks' : /\ operation[t.op] # None
                           /\ session[t.session].state # "new"
  BY DEF Base, TypeOK, Tasks, roomVars
<1> QED BY <1>3, <1>4, <1>5, SessionsBase DEF roomVars

LEMMA ClosesBase ==
    ASSUME Base, NEW s \in Session, session' = [session EXCEPT ![s] = Stopped],
           faults' \subseteq Fault, UNCHANGED <<route, roomVars, processVars>>
    PROVE  Base'
<1>1. Sound(Stopped) /\ Stopped.state # "new"
  BY BlankSound DEF Stopped
<1>2. game' \in [Endpoint -> Game]
  BY DEF Base, TypeOK, processVars
<1> QED BY <1>1, <1>2, OneSessionBase DEF processVars

LEMMA BrowserBase ==
    ASSUME Base, NEW s \in Session, Browser(s)
    PROVE  Base'
<1>0. PICK x : x = session[s]
  OBVIOUS
<1>1. /\ Sound(x) /\ faults \subseteq Fault /\ route \in Route
      /\ session \in [Session -> GatewaySession]
      /\ game \in [Endpoint -> Game]
  BY <1>0 DEF Base, TypeOK
<1>2. CASE Open(s)
  <2>1. PICK y : y = [x EXCEPT !.state = "open", !.starting = TRUE,
                               !.current = [route |-> route, adopted |-> FALSE,
                                            up |-> "connecting", sent |-> 0]]
    OBVIOUS
  <2>2. Sound(y) /\ y.state # "new"
    BY <1>0, <1>1, <1>2, <2>1, OpenedSound DEF Open
  <2>3. session' = [session EXCEPT ![s] = y]
    BY <1>0, <1>2, <2>1 DEF Open
  <2> QED BY <1>0, <1>1, <1>2, <2>2, <2>3, OneSessionBase DEF Open, processVars
<1>3. CASE Join(s)
  <2>1. PICK y : y = [x EXCEPT !.state = "joined"]
    OBVIOUS
  <2>2. Sound(y) /\ y.state # "new"
    BY <1>0, <1>1, <1>3, <2>1, JoinedSound DEF Join
  <2>3. session' = [session EXCEPT ![s] = y]
    BY <1>0, <1>3, <2>1 DEF Join
  <2> QED BY <1>0, <1>1, <1>3, <2>2, <2>3, OneSessionBase DEF Join, processVars
<1>4. CASE Receive(s)
  <2>1. PICK y : y = WithInput(x)
    OBVIOUS
  <2>4. /\ x.state = "joined" /\ x.current.up # "connecting"
        /\ x.received + 1 <= MaxInput /\ HasRoom(x)
    BY <1>0, <1>4 DEF Receive
  <2>5. Sound(y) /\ y.state = x.state
    BY <1>1, <2>1, <2>4, ReceivedSound
  <2>6. session' = [session EXCEPT ![s] = y]
    BY <1>0, <1>4, <2>1 DEF Receive, WithInput
  <2> QED BY <1>0, <1>1, <1>4, <2>5, <2>6, OneSessionBase DEF Receive, processVars
<1>5. CASE Overflow(s)
  BY <1>0, <1>1, <1>5, ClosesBase DEF Overflow
<1>6. CASE SessionCloses(s)
  BY <1>1, <1>6, ClosesBase DEF SessionCloses, Happens
<1> QED BY <1>2, <1>3, <1>4, <1>5, <1>6 DEF Browser

LEMMA ConnectionBase ==
    ASSUME Base, NEW s \in Session, Connection(s)
    PROVE  Base'
<1>0. PICK x : x = session[s]
  OBVIOUS
<1>1. /\ Sound(x) /\ faults \subseteq Fault
      /\ game \in [Endpoint -> Game]
  BY <1>0 DEF Base, TypeOK
<1>2. CASE Connected(s)
  <2>1. PICK y : y = Flushed([x EXCEPT !.starting = FALSE, !.current.up = "open"])
    OBVIOUS
  <2>2. Sound(y) /\ y.state # "new"
    BY <1>0, <1>1, <1>2, <2>1, ConnectedSound DEF Connected
  <2>3. session' = [session EXCEPT ![s] = y]
    BY <1>0, <1>2, <2>1 DEF Connected
  <2> QED BY <1>1, <1>2, <2>2, <2>3, OneSessionBase DEF Connected, processVars
<1>3. CASE StartFails(s)
  <2>1. faults' \subseteq Fault
    BY <1>1, <1>3 DEF StartFails, Happens
  <2> QED BY <1>3, <2>1, ClosesBase DEF StartFails
<1>4. CASE AckArrives(s)
  <2>1. PICK y : y = [x EXCEPT !.acked = IF @ < x.ack THEN x.ack ELSE @, !.ack = 0]
    OBVIOUS
  <2>2. Sound(y) /\ y.state = x.state
    BY <1>0, <1>1, <1>4, <2>1, AckedSound DEF AckArrives
  <2>3. session' = [session EXCEPT ![s] = y]
    BY <1>0, <1>4, <2>1 DEF AckArrives
  <2> QED BY <1>0, <1>1, <1>4, <2>2, <2>3, OneSessionBase DEF AckArrives, processVars
<1>5. CASE UpstreamCloses(s)
  <2>1. x.current # None
    BY <1>0, <1>1, <1>5 DEF UpstreamCloses, Live, Sound, Connects
  <2>2. Sound(Disconnected(x)) /\ Disconnected(x).state # "new"
    BY <1>1, <2>1, DisconnectedSound
  <2>3. session' = [session EXCEPT ![s] = Disconnected(x)] /\ faults' \subseteq Fault
    BY <1>0, <1>1, <1>5 DEF UpstreamCloses, Happens
  <2> QED BY <1>1, <1>5, <2>2, <2>3, OneSessionBase DEF UpstreamCloses, processVars
<1>6. CASE PreparedCloses(s)
  <2>1. PICK y : y = [x EXCEPT !.prepared.up = "closed"]
    OBVIOUS
  <2>2. Sound(y) /\ y.state = x.state
    BY <1>0, <1>1, <1>6, <2>1, PreparedUpSound DEF PreparedCloses
  <2>3. session' = [session EXCEPT ![s] = y] /\ faults' \subseteq Fault
    BY <1>0, <1>1, <1>6, <2>1 DEF PreparedCloses, Happens
  <2> QED BY <1>0, <1>1, <1>6, <2>2, <2>3, OneSessionBase DEF PreparedCloses, processVars
<1>7. CASE ReplacedCloses(s)
  BY <1>1, <1>7, ClosesBase DEF ReplacedCloses
<1> QED BY <1>2, <1>3, <1>4, <1>5, <1>6, <1>7 DEF Connection

\* An input is processed, or was: the game of the process has a new sequence.
LEMMA PlayedInputs ==
    ASSUME NEW q \in Seq(Input), Increasing(q), NEW n \in Input, NEW r,
           r = IF IsNew(n, q) THEN Append(q, n) ELSE q
    PROVE  /\ r \in Seq(Input)
           /\ Increasing(r)
           /\ LastProcessed(r) \in Sequence
           /\ n <= LastProcessed(r)
           /\ IsNew(n, q) => ToSet(r) = ToSet(q) \cup {n}
<1>1. n \in Nat /\ LastProcessed(q) \in Nat
  BY LastIsGreatest, BoundAssumption DEF Input, Sequence
<1>2. CASE IsNew(n, q)
  <2>1. r \in Seq(Input) /\ ToSet(r) = ToSet(q) \cup {n}
    BY <1>2, AppendElements
  <2>2. Increasing(r)
    BY <1>2, IncreasingAppend
  <2>3. LastProcessed(r) \in Sequence /\ n <= LastProcessed(r)
    BY <2>1, <2>2, LastIsGreatest
  <2> QED BY <2>1, <2>2, <2>3
<1>3. CASE ~IsNew(n, q)
  <2>1. n <= LastProcessed(q)
    BY <1>1, <1>3 DEF IsNew
  <2> QED BY <1>3, <2>1, LastIsGreatest
<1> QED BY <1>2, <1>3

LEMMA LastType ==
    ASSUME NEW q \in Seq(Input)
    PROVE  LastProcessed(q) \in Sequence
<1>1. Input \subseteq Sequence /\ 0 \in Sequence
  BY BoundAssumption DEF Input, Sequence
<1>2. q # <<>> => Last(q) \in Input
  <2>1. q # <<>> => Len(q) \in 1..Len(q)
    BY LenProperties, EmptySeq
  <2> QED BY <2>1, ElementOfSeq DEF Last
<1> QED BY <1>1, <1>2 DEF LastProcessed

LEMMA ProcessBase ==
    ASSUME Base, NEW s \in Session, Process(s)
    PROVE  Base'
<1>0. PICK x : x = session[s]
  OBVIOUS
<1>1. /\ Sound(x) /\ faults \subseteq Fault
      /\ game \in [Endpoint -> Game]
  BY <1>0 DEF Base, TypeOK
<1>2. x.wire # <<>> /\ x.current # None /\ x.current \in Upstream
      /\ x.wire \in Seq(Input)
  BY <1>0, <1>1 DEF Process, Processes, Rejects, Sound, Connects, GatewaySession
<1>3. CASE Processes(s)
  <2>1. PICK e : e = x.current.route.endpoint
    OBVIOUS
  <2>2. PICK r : r = IF IsNew(Head(x.wire), game[e][s])
                     THEN Append(game[e][s], Head(x.wire)) ELSE game[e][s]
    OBVIOUS
  <2>3. e \in Endpoint /\ game[e] \in Game /\ game[e][s] \in Seq(Input)
    BY <1>1, <1>2, <2>1 DEF Upstream, Route, Game
  <2>4. Head(x.wire) \in Input
    BY <1>2, TailElements
  <2>5. r \in Seq(Input)
    BY <2>2, <2>3, <2>4, AppendElements
  <2>6. game' = [game EXCEPT ![e][s] = r]
    BY <1>0, <1>3, <2>1, <2>2 DEF Processes
  <2>7. game' \in [Endpoint -> Game]
    BY <1>1, <2>3, <2>5, <2>6 DEF Game
  <2>8. PICK y : y = [x EXCEPT !.wire = Tail(@), !.ack = LastProcessed(r)]
    OBVIOUS
  <2>9. Sound(y) /\ y.state = x.state
    BY <1>1, <1>2, <2>5, <2>8, LastType, ProcessedSound
  <2>10. session' = [session EXCEPT ![s] = y]
    BY <1>0, <1>3, <2>1, <2>2, <2>8 DEF Processes
  <2> QED BY <1>0, <1>1, <1>3, <2>7, <2>9, <2>10, OneSessionBase DEF Processes
<1>4. CASE Rejects(s)
  <2>1. Sound(Disconnected(x)) /\ Disconnected(x).state # "new"
    BY <1>1, <1>2, DisconnectedSound
  <2>2. session' = [session EXCEPT ![s] = Disconnected(x)]
    BY <1>0, <1>4 DEF Rejects
  <2> QED BY <1>1, <1>4, <2>1, <2>2, OneSessionBase DEF Rejects, processVars
<1> QED BY <1>3, <1>4 DEF Process

\* What the route is, as numbers.
LEMMA RouteTypes ==
    ASSUME Base
    PROVE  /\ MaxEpoch \in Nat \ {0}
           /\ route \in Route /\ route.endpoint \in Endpoint
           /\ route.epoch \in Nat \ {0} /\ route.epoch <= MaxEpoch
           /\ \A e \in Endpoint : serving[e] \in Nat /\ serving[e] <= MaxEpoch
           /\ \A o \in Operation : frozenAt[o] \in Nat /\ frozenAt[o] <= MaxEpoch
<1>1. MaxEpoch \in Nat \ {0}
  BY BoundAssumption
<1>2. /\ route \in Route
      /\ serving \in [Endpoint -> 0..MaxEpoch]
      /\ frozenAt \in [Operation -> 0..MaxEpoch]
  BY DEF Base, TypeOK
<1>3. route.endpoint \in Endpoint /\ route.epoch \in 1..MaxEpoch
  BY <1>2 DEF Route, Epoch
<1> QED BY <1>1, <1>2, <1>3

\* Sessions and their tasks stay as they are.
LEMMA SameSessions ==
    ASSUME Base, session' = session, tasks' = tasks,
           \A t \in tasks : operation[t.op] # None => operation'[t.op] # None
    PROVE  Tasks' /\ \A s \in Session : Sound(session[s])'
BY DEF Base, Tasks, Sound, Buffered, Connects

LEMMA SaveBase ==
    ASSUME Base, NEW o \in Operation, Save(o)
    PROVE  Base'
<1> USE DEF Save, roomVars
<1>1. TypeOK'
  <2>1. game[route.endpoint] \in Game
    BY RouteTypes DEF Base, TypeOK
  <2>2. transfer' \in Transfer
    BY <2>1 DEF Transfer
  <2> QED BY <2>2 DEF Base, TypeOK
<1>2. Authority'
  BY DEF Base, Authority, Rest
<1>3. \A p \in Operation : Cuts(p)'
  BY DEF Base, Cuts
<1>4. Tasks' /\ \A s \in Session : Sound(session[s])'
  BY SameSessions
<1> QED BY <1>1, <1>2, <1>3, <1>4 DEF Base

\* The authority moves: nobody cuts over, since the route's process is Active.
LEMMA MoveBase ==
    ASSUME Base, NEW o \in Operation, NEW a \in Endpoint, NEW b \in Endpoint,
           Move(o, a, b)
    PROVE  Base'
<1> USE DEF Move, roomVars
<1>1. /\ route.epoch \in Nat \ {0} /\ serving[a] = route.epoch
      /\ route.endpoint = a /\ a # b
      /\ \A e \in Endpoint : serving[e] \in Nat
      /\ route.epoch + 1 \in 0..MaxEpoch /\ 0 \in 0..MaxEpoch
  <2>1. route.epoch < MaxEpoch
    BY DEF Base, Authority
  <2> QED BY <2>1, RouteTypes
<1>2. \A e \in Endpoint : serving'[e] = IF e = b THEN route.epoch + 1 ELSE 0
  <2>1. \A e \in Endpoint : e # a => serving[e] = 0
    BY <1>1 DEF Base, Authority
  <2>2. serving \in [Endpoint -> 0..MaxEpoch]
    BY DEF Base, TypeOK
  <2> QED BY <1>1, <2>1, <2>2
<1>3. left' \in [Session -> SUBSET Input]
  <2>1. ASSUME NEW s \in Session PROVE LeftBehind(s) \subseteq Input
    <3>1. /\ session[s].wire \in Seq(Input)
          /\ game[route.endpoint][s] \in Seq(Input)
      BY RouteTypes DEF Base, TypeOK, GatewaySession, Game
    <3>2. \A q \in Seq(Input) : ToSet(q) \subseteq Input
      <4>1. ASSUME NEW q \in Seq(Input) PROVE ToSet(q) \subseteq Input
        BY LenProperties DEF ToSet
      <4> QED BY <4>1
    <3> QED BY <3>1, <3>2 DEF LeftBehind, Unsaved, Resent
  <2> QED BY <2>1 DEF Base, TypeOK
<1>4. TypeOK'
  <2>1. serving' \in [Endpoint -> 0..MaxEpoch]
    BY <1>1 DEF Base, TypeOK
  <2>2. game' \in [Endpoint -> Game]
    <3>1. transfer.game \in Game
      BY DEF Base, TypeOK, Transfer
    <3> QED BY <3>1 DEF Base, TypeOK
  <2>3. transfer' \in Transfer \cup {None} /\ mover' \in Operation \cup {None}
    OBVIOUS
  <2> QED BY <1>3, <2>1, <2>2, <2>3 DEF Base, TypeOK
<1>5. Authority'
  <2>1. ~Rest'
    BY <1>1, <1>2 DEF Rest
  <2> QED BY <1>1, <1>2, <2>1 DEF Authority
<1>6. ASSUME NEW p \in Operation PROVE Cuts(p)'
  <2>1. ~(operation[p] # None /\ operation[p].status = "preparing")
    <3>1. ASSUME operation[p] # None, operation[p].status = "preparing"
          PROVE  FALSE
      <4>1. /\ route.epoch = frozenAt[p]
            /\ serving[operation[p].route.endpoint] = frozenAt[p] + 1
        BY <3>1 DEF Base, Cuts
      <4>2. operation[p].route.endpoint \in Endpoint
        BY <3>1 DEF Base, TypeOK, CutoverOperation, Route
      <4> QED BY <1>1, <4>1, <4>2 DEF Base, Authority
    <3> QED BY <3>1
  <2> QED BY <2>1 DEF Base, Cuts
<1>7. Tasks' /\ \A s \in Session : Sound(session[s])'
  BY SameSessions
<1> QED BY <1>4, <1>5, <1>6, <1>7 DEF Base

\* The sessions in ss resume.
LEMMA ResumedSessions ==
    ASSUME Base, NEW ss, session' = After(Resumed, ss)
    PROVE  /\ session' \in [Session -> GatewaySession]
           /\ \A u \in Session : /\ Sound(session'[u])
                                 /\ session'[u].state = session[u].state
<1>1. ASSUME NEW u \in Session
      PROVE  /\ Sound(session'[u])
             /\ session'[u].state = session[u].state
             /\ session'[u] \in GatewaySession
  <2>1. Sound(session[u])
    BY DEF Base
  <2>2. session'[u] = IF u \in ss THEN Resumed(session[u]) ELSE session[u]
    BY DEF After
  <2>3. Sound(session'[u]) /\ session'[u].state = session[u].state
    BY <2>1, <2>2, ResumedSound
  <2> QED BY <2>3 DEF Sound
<1>2. session' \in [Session -> GatewaySession]
  <2>1. PICK f : f = session'
    OBVIOUS
  <2>2. f = [u \in Session |-> f[u]]
    BY <2>1 DEF After
  <2> QED BY <1>1, <2>1, <2>2
<1> QED BY <1>1, <1>2

LEMMA PreparationEndsBase ==
    ASSUME Base, PreparationEnds
    PROVE  Base'
<1> USE DEF PreparationEnds, AbortPreparation, processVars
<1>1. /\ session' \in [Session -> GatewaySession]
      /\ \A u \in Session : /\ Sound(session'[u])
                            /\ session'[u].state = session[u].state
  BY ResumedSessions
<1>2. faults' \subseteq Fault
  BY DEF Base, TypeOK, Interrupts, Happens
<1>3. /\ preparation' \in Preparation \cup {None}
      /\ verification' \in Verification \cup {None}
      /\ tasks' \subseteq Task
      /\ game' \in [Endpoint -> Game]
      /\ \A t \in tasks' : /\ operation[t.op] # None
                           /\ session[t.session].state # "new"
  BY DEF Base, TypeOK, Tasks
<1> QED BY <1>1, <1>2, <1>3, SessionsBase

LEMMA VerificationAgesBase ==
    ASSUME Base, VerificationAges
    PROVE  Base'
<1> USE DEF VerificationAges, processVars
<1>1. verification' \in Verification
  BY DEF Base, TypeOK, Verification
<1>2. /\ preparation' \in Preparation \cup {None}
      /\ session' \in [Session -> GatewaySession]
      /\ \A u \in Session : /\ Sound(session'[u])
                            /\ session'[u].state = session[u].state
      /\ tasks' \subseteq Task
      /\ game' \in [Endpoint -> Game]
      /\ \A t \in tasks' : /\ operation[t.op] # None
                           /\ session[t.session].state # "new"
      /\ faults' \subseteq Fault
  BY DEF Base, TypeOK, Tasks
<1> QED BY <1>1, <1>2, SessionsBase

LEMMA FinalizeBase ==
    ASSUME Base, Finalize
    PROVE  Base'
<1> USE DEF Finalize, processVars
<1>1. ASSUME NEW u \in Session
      PROVE  /\ Sound(session'[u])
             /\ session'[u].state = session[u].state
             /\ session'[u] \in GatewaySession
  <2>1. Sound(session[u])
    BY DEF Base
  <2>2. CASE u \in verification.sessions
    <3>1. PICK y : y = [session[u] EXCEPT !.verifying = FALSE, !.shadow = {}]
      OBVIOUS
    <3>2. session'[u] = y
      BY <2>2, <3>1 DEF After
    <3>3. session[u].current # None /\ session[u].current.up = "open"
      BY <2>2 DEF Continuous, OnRoute
    <3>4. Sound(y) /\ y.state = session[u].state
      BY <2>1, <3>1, <3>3, FinalizedSound
    <3> QED BY <3>2, <3>4 DEF Sound
  <2>3. CASE u \notin verification.sessions
    <3>1. session'[u] = session[u]
      BY <2>3 DEF After
    <3> QED BY <2>1, <3>1 DEF Sound
  <2> QED BY <2>2, <2>3
<1>2. session' \in [Session -> GatewaySession]
  <2>1. PICK f : f = session'
    OBVIOUS
  <2>2. f = [u \in Session |-> f[u]]
    BY <2>1 DEF After
  <2> QED BY <1>1, <2>1, <2>2
<1>3. /\ preparation' \in Preparation \cup {None}
      /\ verification' \in Verification \cup {None}
      /\ tasks' \subseteq Task
      /\ game' \in [Endpoint -> Game]
      /\ \A t \in tasks' : /\ operation[t.op] # None
                           /\ session[t.session].state # "new"
      /\ faults' \subseteq Fault
  BY DEF Base, TypeOK, Tasks
<1> QED BY <1>1, <1>2, <1>3, SessionsBase

LEMMA FreezeBase ==
    ASSUME Base, NEW o \in Operation, NEW p \in Operation, Freeze(o, p)
    PROVE  Base'
<1> USE DEF Freeze, processVars
<1>1. ASSUME NEW u \in Session
      PROVE  /\ Sound(session'[u])
             /\ session'[u].state = session[u].state
             /\ session'[u] \in GatewaySession
  <2>1. Sound(session[u])
    BY DEF Base
  <2>2. CASE u \in Live
    <3>1. PICK y : y = [session[u] EXCEPT !.frozen = TRUE]
      OBVIOUS
    <3>2. session'[u] = y
      BY <2>2, <3>1 DEF After
    <3> QED BY <2>1, <3>1, <3>2, FrozenSound DEF Sound
  <2>3. CASE u \notin Live
    <3>1. session'[u] = session[u]
      BY <2>3 DEF After
    <3> QED BY <2>1, <3>1 DEF Sound
  <2> QED BY <2>2, <2>3
<1>2. session' \in [Session -> GatewaySession]
  <2>1. PICK f : f = session'
    OBVIOUS
  <2>2. f = [u \in Session |-> f[u]]
    BY <2>1 DEF After
  <2> QED BY <1>1, <2>1, <2>2
<1>3. \A u \in Session : Sound(session[u])'
  BY <1>1 DEF Sound, Buffered, Connects
<1>4. TypeOK'
  <2>1. preparation' \in Preparation
    BY DEF Preparation, Live
  <2>2. route.epoch \in 0..MaxEpoch
    BY RouteTypes
  <2>3. frozenAt' \in [Operation -> 0..MaxEpoch]
    BY <2>2 DEF Base, TypeOK
  <2> QED BY <1>2, <2>1, <2>3 DEF Base, TypeOK
<1>5. Authority'
  BY DEF Base, Authority, Rest
<1>6. ASSUME NEW q \in Operation PROVE Cuts(q)'
  <2>1. Cuts(q) /\ frozenAt \in [Operation -> 0..MaxEpoch]
    BY DEF Base, TypeOK
  <2>2. CASE q # o
    BY <2>1, <2>2 DEF Cuts
  <2>3. CASE q = o
    <3>1. frozenAt'[o] = route.epoch /\ frozenAt[o] = 0 /\ route.epoch \in Nat
      BY <2>1, RouteTypes
    <3> QED BY <2>1, <2>3, <3>1 DEF Cuts
  <2> QED BY <2>2, <2>3
<1>7. Tasks'
  <2>1. \A t \in tasks : t.session \in Session
    BY DEF Base, TypeOK, Task
  <2> QED BY <1>1, <2>1 DEF Base, Tasks
<1> QED BY <1>3, <1>4, <1>5, <1>6, <1>7 DEF Base

\* The tasks that a cutover starts.
LEMMA StartedTasks ==
    ASSUME NEW o \in Operation, NEW ss \in SUBSET Session, NEW r
    PROVE  /\ Started(o, ss, r) \subseteq Task
           /\ \A t \in Started(o, ss, r) : /\ t.op = o
                                           /\ session[t.session].state # "new"
BY DEF Started, Task

\* A cutover fails before the registry has changed.
LEMMA CutoverFailsBase ==
    ASSUME Base, NEW o \in Operation, NEW ss \in SUBSET Session, NEW r \in Route,
           CutoverFails(o, ss, r), tasks' \subseteq Task,
           \A t \in tasks' : t.op = o \/ operation[t.op] # None,
           \A t \in tasks' : session[t.session].state # "new",
           faults' \subseteq Fault
    PROVE  Base'
<1> USE DEF CutoverFails, processVars
<1>1. /\ session' \in [Session -> GatewaySession]
      /\ \A u \in Session : /\ Sound(session'[u])
                            /\ session'[u].state = session[u].state
  BY ResumedSessions
<1>2. PICK c : c = [status |-> "failed", route |-> r, sessions |-> ss]
  OBVIOUS
<1>3. c \in CutoverOperation /\ c.status = "failed"
  BY <1>2 DEF CutoverOperation
<1>4. c # None
  BY <1>3, NoneAssumption
<1>5. /\ operation \in [Operation -> CutoverOperation \cup {None}]
      /\ operation' = [operation EXCEPT ![o] = c]
      /\ call \in [Operation -> (SUBSET Session) \cup {None}]
      /\ call' = [call EXCEPT ![o] = None]
  BY <1>2 DEF Base, TypeOK
<1>6. \A q \in Operation :
         /\ operation'[q] = IF q = o THEN c ELSE operation[q]
         /\ call'[q] = IF q = o THEN None ELSE call[q]
  BY <1>5
<1>7. TypeOK'
  <2>1. operation' \in [Operation -> CutoverOperation \cup {None}]
    BY <1>3, <1>5
  <2>2. call' \in [Operation -> (SUBSET Session) \cup {None}]
    BY <1>5
  <2> QED BY <1>1, <2>1, <2>2 DEF Base, TypeOK
<1>8. Authority'
  BY <1>4, <1>6 DEF Base, TypeOK, Authority, Rest
<1>9. ASSUME NEW q \in Operation PROVE Cuts(q)'
  <2>1. Cuts(q) /\ Cuts(o)
    BY DEF Base
  <2>2. CASE q # o
    BY <1>6, <2>1, <2>2 DEF Cuts
  <2>3. CASE q = o
    BY <1>3, <1>6, <2>1, <2>3 DEF Cuts
  <2> QED BY <2>2, <2>3
<1>10. Tasks'
  <2>1. \A t \in tasks' : t.op \in Operation /\ t.session \in Session
    BY DEF Task
  <2> QED BY <1>1, <1>4, <1>6, <2>1 DEF Tasks
<1>11. \A u \in Session : Sound(session[u])'
  BY <1>1 DEF Sound, Buffered, Connects
<1> QED BY <1>7, <1>8, <1>9, <1>10, <1>11 DEF Base

\* An operation that asks to cut over has moved the authority itself, to the epoch
\* that follows the route's.
LEMMA AskedCutover ==
    ASSUME Base, NEW o \in Operation, NEW e \in Endpoint, AsksCutover(o, e)
    PROVE  /\ Target(o, e) \in Route
           /\ Target(o, e).endpoint = e
           /\ Target(o, e).epoch = frozenAt[o] + 1
           /\ frozenAt[o] > 0 /\ route.epoch = frozenAt[o]
           /\ mover = o /\ serving[e] = frozenAt[o] + 1
<1>1. /\ frozenAt[o] \in 1..(MaxEpoch - 1) /\ operation[o] = None
      /\ mover = o /\ serving[e] = frozenAt[o] + 1
  BY DEF AsksCutover, HasProof
<1>2. /\ frozenAt[o] \in Nat /\ route.epoch \in Nat /\ MaxEpoch \in Nat
  BY RouteTypes
<1>3. frozenAt[o] + 1 \in Epoch
  BY <1>1, <1>2 DEF Epoch
<1>4. Target(o, e) \in Route /\ Target(o, e).endpoint = e
      /\ Target(o, e).epoch = frozenAt[o] + 1
  BY <1>3 DEF Target, Route
<1>5. ~Rest
  BY <1>1, NoneAssumption DEF Base, Authority
<1>6. e # route.endpoint /\ serving[e] = route.epoch + 1
  BY <1>1, <1>2, <1>5 DEF Base, Authority, Rest
<1> QED BY <1>1, <1>2, <1>4, <1>6

LEMMA CutoverUnpreparedBase ==
    ASSUME Base, NEW o \in Operation, NEW e \in Endpoint, CutoverUnprepared(o, e)
    PROVE  Base'
<1>1. Target(o, e) \in Route /\ CutoverFails(o, Live, Target(o, e))
  BY AskedCutover DEF CutoverUnprepared
<1>2. /\ tasks' \subseteq Task /\ faults' \subseteq Fault
      /\ \A t \in tasks' : /\ operation[t.op] # None
                           /\ session[t.session].state # "new"
  BY DEF Base, TypeOK, Tasks, CutoverUnprepared
<1>3. Live \in SUBSET Session
  BY DEF Live
<1> QED BY <1>1, <1>2, <1>3, CutoverFailsBase

LEMMA CutoverRefusedBase ==
    ASSUME Base, NEW o \in Operation, NEW e \in Endpoint, CutoverRefused(o, e)
    PROVE  Base'
<1>1. PICK ss : ss = preparation.sessions \cap Live
  OBVIOUS
<1>2. PICK r : r = Target(o, e)
  OBVIOUS
<1>3. /\ r \in Route /\ CutoverFails(o, ss, r)
      /\ tasks' = tasks \cup Started(o, ss, r)
      /\ faults' = faults
  BY <1>1, <1>2, AskedCutover DEF CutoverRefused
<1>4. ss \in SUBSET Session
  BY <1>1 DEF Live
<1>5. /\ tasks \subseteq Task /\ faults' \subseteq Fault
      /\ \A t \in tasks : /\ operation[t.op] # None
                          /\ session[t.session].state # "new"
  BY <1>3 DEF Base, TypeOK, Tasks
<1>6. /\ tasks' \subseteq Task
      /\ \A t \in tasks' : t.op = o \/ operation[t.op] # None
      /\ \A t \in tasks' : session[t.session].state # "new"
  BY <1>3, <1>4, <1>5, StartedTasks
<1> QED BY <1>3, <1>4, <1>5, <1>6, CutoverFailsBase

\* The operations change, and sessions do not.
LEMMA OperationsBase ==
    ASSUME Base, operation' \in [Operation -> CutoverOperation \cup {None}],
           call' \in [Operation -> (SUBSET Session) \cup {None}],
           \A q \in Operation : operation[q] # None => operation'[q] # None,
           tasks' \subseteq Task,
           \A t \in tasks' : /\ operation'[t.op] # None
                             /\ session[t.session].state # "new",
           \A q \in Operation : Cuts(q)',
           UNCHANGED <<route, session, preparation, verification, frozenAt,
                       processVars, faults>>
    PROVE  Base'
<1> USE DEF processVars
<1>1. TypeOK'
  BY DEF Base, TypeOK
<1>2. Authority'
  BY NoneAssumption DEF Base, TypeOK, Authority, Rest
<1>3. Tasks'
  BY DEF Tasks
<1>4. \A u \in Session : Sound(session[u])'
  BY DEF Base, Sound, Buffered, Connects
<1> QED BY <1>1, <1>2, <1>3, <1>4 DEF Base

LEMMA CutoverBeginsBase ==
    ASSUME Base, NEW o \in Operation, NEW e \in Endpoint, CutoverBegins(o, e)
    PROVE  Base'
<1>1. PICK ss : ss = preparation.sessions \cap Live
  OBVIOUS
<1>2. PICK r : r = Target(o, e)
  OBVIOUS
<1>3. PICK c : c = [status |-> "preparing", route |-> r, sessions |-> ss]
  OBVIOUS
<1>4. /\ operation' = [operation EXCEPT ![o] = c]
      /\ call' = [call EXCEPT ![o] = ss]
      /\ tasks' = tasks \cup Started(o, ss, r)
      /\ UNCHANGED <<route, session, preparation, verification, frozenAt,
                     processVars, faults>>
  BY <1>1, <1>2, <1>3 DEF CutoverBegins
<1>5. /\ r \in Route /\ r.endpoint = e /\ r.epoch = frozenAt[o] + 1
      /\ frozenAt[o] > 0 /\ route.epoch = frozenAt[o]
      /\ mover = o /\ serving[e] = frozenAt[o] + 1
  BY <1>2, AskedCutover DEF CutoverBegins
<1>6. ss \in SUBSET Session /\ ss # None
  BY <1>1, NoneAssumption DEF Live
<1>7. /\ c \in CutoverOperation /\ c # None
      /\ c.status = "preparing" /\ c.route = r
  BY <1>3, <1>5, <1>6, NoneAssumption DEF CutoverOperation
<1>8. /\ operation \in [Operation -> CutoverOperation \cup {None}]
      /\ call \in [Operation -> (SUBSET Session) \cup {None}]
  BY DEF Base, TypeOK
<1>9. /\ operation' \in [Operation -> CutoverOperation \cup {None}]
      /\ call' \in [Operation -> (SUBSET Session) \cup {None}]
      /\ \A q \in Operation :
            /\ operation'[q] = IF q = o THEN c ELSE operation[q]
            /\ call'[q] = IF q = o THEN ss ELSE call[q]
  BY <1>4, <1>6, <1>7, <1>8
<1>10. ASSUME NEW q \in Operation PROVE Cuts(q)'
  <2>1. CASE q = o
    <3>1. /\ frozenAt' = frozenAt /\ route' = route /\ mover' = mover
          /\ serving' = serving /\ frozenAt[o] \in Nat /\ route.epoch \in Nat
      BY <1>4, RouteTypes DEF processVars
    <3> QED BY <1>5, <1>6, <1>7, <1>9, <2>1, <3>1 DEF Cuts
  <2>2. CASE q # o
    BY <1>4, <1>9, <2>2 DEF Base, Cuts, processVars
  <2> QED BY <2>1, <2>2
<1>11. /\ tasks' \subseteq Task
       /\ \A t \in tasks' : /\ operation'[t.op] # None
                            /\ session[t.session].state # "new"
  <2>1. /\ tasks \subseteq Task
        /\ \A t \in tasks : /\ t.op \in Operation
                            /\ operation[t.op] # None
                            /\ session[t.session].state # "new"
    BY DEF Base, TypeOK, Tasks, Task
  <2> QED BY <1>4, <1>6, <1>7, <1>9, <2>1, StartedTasks
<1> QED BY <1>4, <1>7, <1>9, <1>10, <1>11, OperationsBase

LEMMA CutoverAgainBase ==
    ASSUME Base, NEW o \in Operation, CutoverAgain(o)
    PROVE  Base'
<1>1. PICK ss : ss = operation[o].sessions
  OBVIOUS
<1>2. PICK r : r = operation[o].route
  OBVIOUS
<1>3. /\ operation[o] # None /\ operation[o].status = "registry_committed"
      /\ call' = call \/ call' = [call EXCEPT ![o] = ss]
      /\ tasks' = tasks \cup Started(o, ss, r)
      /\ UNCHANGED <<route, session, preparation, verification, operation, frozenAt,
                     processVars, faults>>
  BY <1>1, <1>2 DEF CutoverAgain
<1>4. /\ operation \in [Operation -> CutoverOperation \cup {None}]
      /\ call \in [Operation -> (SUBSET Session) \cup {None}]
  BY DEF Base, TypeOK
<1>5. ss \in SUBSET Session
  BY <1>1, <1>3, <1>4 DEF CutoverOperation
<1>6. /\ call' \in [Operation -> (SUBSET Session) \cup {None}]
      /\ \A q \in Operation : q # o => call'[q] = call[q]
  BY <1>3, <1>4, <1>5
<1>7. ASSUME NEW q \in Operation PROVE Cuts(q)'
  <2>1. CASE q = o
    BY <1>3, <2>1 DEF Base, Cuts, processVars
  <2>2. CASE q # o
    BY <1>3, <1>6, <2>2 DEF Base, Cuts, processVars
  <2> QED BY <2>1, <2>2
<1>8. /\ tasks' \subseteq Task
      /\ \A t \in tasks' : /\ operation'[t.op] # None
                           /\ session[t.session].state # "new"
  <2>1. /\ tasks \subseteq Task
        /\ \A t \in tasks : /\ operation[t.op] # None
                            /\ session[t.session].state # "new"
    BY DEF Base, TypeOK, Tasks
  <2> QED BY <1>3, <1>5, <2>1, StartedTasks
<1> QED BY <1>3, <1>4, <1>6, <1>7, <1>8, OperationsBase

LEMMA PrepareConnectsBase ==
    ASSUME Base, NEW t \in Task, PrepareConnects(t)
    PROVE  Base'
<1>0. t \in tasks /\ t.op \in Operation /\ t.session \in Session
  BY DEF PrepareConnects, Task
<1>1. PICK p : p = [route |-> operation[t.op].route, op |-> t.op,
                    up |-> "connecting"]
  OBVIOUS
<1>2. operation[t.op].route \in Route
  BY <1>0 DEF Base, TypeOK, Tasks, CutoverOperation
<1>3. p \in Prepared
  BY <1>0, <1>1, <1>2 DEF Prepared
<1>4. PICK y : y = [session[t.session] EXCEPT !.prepared = p]
  OBVIOUS
<1>5. Sound(session[t.session]) /\ session[t.session].state # "new"
  BY <1>0 DEF Base, Tasks
<1>6. Sound(y) /\ y.state = session[t.session].state
  BY <1>3, <1>4, <1>5, PreparedSound
<1>7. y \in GatewaySession /\ session \in [Session -> GatewaySession]
  BY <1>6 DEF Base, TypeOK, Sound
<1>8. session' = [session EXCEPT ![t.session] = y]
  BY <1>0, <1>1, <1>4 DEF PrepareConnects
<1>9. /\ session' \in [Session -> GatewaySession]
      /\ \A u \in Session : session'[u] = IF u = t.session THEN y ELSE session[u]
  BY <1>0, <1>7, <1>8
<1>10. \A u \in Session : /\ Sound(session'[u])
                          /\ session[u].state # "new" => session'[u].state # "new"
  BY <1>5, <1>6, <1>9 DEF Base
<1>11. /\ tasks' \subseteq Task
       /\ \A u \in tasks' : /\ operation[u.op] # None
                            /\ session[u.session].state # "new"
  <2>1. ASSUME NEW u \in tasks'
        PROVE  /\ u \in Task
               /\ \E v \in tasks : v.op = u.op /\ v.session = u.session
    <3>0. tasks \subseteq Task
      BY DEF Base, TypeOK
    <3>1. PICK v \in tasks, ph \in {"match", "connect", "orphan"} :
             u = v \/ u = [v EXCEPT !.phase = ph]
      BY <1>0 DEF PrepareConnects
    <3> QED BY <3>0, <3>1 DEF Task
  <2> QED BY <2>1 DEF Base, Tasks
<1>12. /\ preparation' \in Preparation \cup {None}
       /\ verification' \in Verification \cup {None}
       /\ game' \in [Endpoint -> Game]
       /\ faults' \subseteq Fault
  BY DEF Base, TypeOK, PrepareConnects, processVars
<1> QED BY <1>9, <1>10, <1>11, <1>12, SessionsBase DEF PrepareConnects, processVars

LEMMA PrepareEndsBase ==
    ASSUME Base, NEW t \in Task, PrepareEnds(t)
    PROVE  Base'
<1>0. t \in tasks /\ t.session \in Session
  BY DEF PrepareEnds, Task
<1>1. /\ session' \in [Session -> GatewaySession]
      /\ \A u \in Session : /\ Sound(session'[u])
                            /\ session'[u].state = session[u].state
  <2>1. CASE Holds(t) /\ session' = [session EXCEPT ![t.session].prepared.up = "open"]
    <3>1. PICK y : y = [session[t.session] EXCEPT !.prepared.up = "open"]
      OBVIOUS
    <3>2. Sound(session[t.session]) /\ session[t.session].prepared # None
      BY <1>0, <2>1 DEF Base, Holds
    <3>3. Sound(y) /\ y.state = session[t.session].state
      BY <3>1, <3>2, PreparedUpSound
    <3>4. y \in GatewaySession /\ session \in [Session -> GatewaySession]
      BY <3>3 DEF Base, TypeOK, Sound
    <3>5. session' = [session EXCEPT ![t.session] = y]
      BY <2>1, <3>1
    <3> QED BY <1>0, <3>3, <3>4, <3>5 DEF Base
  <2>2. CASE session' = session
    BY <2>2 DEF Base, TypeOK
  <2> QED BY <2>1, <2>2 DEF PrepareEnds
<1>2. /\ preparation' \in Preparation \cup {None}
      /\ verification' \in Verification \cup {None}
      /\ tasks' \subseteq Task
      /\ \A u \in tasks' : /\ operation[u.op] # None
                           /\ session[u.session].state # "new"
      /\ game' \in [Endpoint -> Game]
      /\ faults' \subseteq Fault
  BY DEF Base, TypeOK, Tasks, PrepareEnds, processVars
<1> QED BY <1>1, <1>2, SessionsBase DEF PrepareEnds, processVars

LEMMA PrepareFailsBase ==
    ASSUME Base, NEW t \in Task, PrepareFails(t)
    PROVE  Base'
<1>0. /\ t \in tasks /\ t.session \in Session /\ t.op \in Operation
      /\ tasks' = tasks \ {t}
      /\ operation[t.op] # None
  BY DEF PrepareFails, Task, Base, Tasks
<1>1. faults' \subseteq Fault
  BY DEF Base, TypeOK, PrepareFails, Happens
<1>2. /\ tasks' \subseteq Task
      /\ \A u \in tasks' : /\ operation[u.op] # None
                           /\ session[u.session].state # "new"
  BY <1>0 DEF Base, TypeOK, Tasks
<1>3. CASE call[t.op] # None /\ operation[t.op].status = "preparing"
  <2>1. CutoverFails(t.op, call[t.op], operation[t.op].route)
    BY <1>3 DEF PrepareFails
  <2>2. call[t.op] \in SUBSET Session /\ operation[t.op].route \in Route
    BY <1>0, <1>3 DEF Base, TypeOK, CutoverOperation
  <2> QED BY <1>0, <1>1, <1>2, <2>1, <2>2, CutoverFailsBase
<1>4. CASE ~(call[t.op] # None /\ operation[t.op].status = "preparing")
  <2>0. /\ call' = [call EXCEPT ![t.op] = None]
        /\ UNCHANGED <<route, preparation, verification, operation, frozenAt,
                       processVars>>
    BY <1>4 DEF PrepareFails
  <2>1. /\ session' \in [Session -> GatewaySession]
        /\ \A u \in Session : /\ Sound(session'[u])
                              /\ session'[u].state = session[u].state
    <3>1. ASSUME NEW up \in {"open", "closed"}, Holds(t),
                 session' = [session EXCEPT ![t.session].prepared.up = up]
          PROVE  /\ session' \in [Session -> GatewaySession]
                 /\ \A u \in Session : /\ Sound(session'[u])
                                       /\ session'[u].state = session[u].state
      <4>1. PICK y : y = [session[t.session] EXCEPT !.prepared.up = up]
        OBVIOUS
      <4>2. Sound(session[t.session]) /\ session[t.session].prepared # None
        BY <1>0, <3>1 DEF Base, Holds
      <4>3. Sound(y) /\ y.state = session[t.session].state
        BY <4>1, <4>2, PreparedUpSound
      <4>4. y \in GatewaySession /\ session \in [Session -> GatewaySession]
        BY <4>3 DEF Base, TypeOK, Sound
      <4>5. session' = [session EXCEPT ![t.session] = y]
        BY <3>1, <4>1
      <4> QED BY <1>0, <4>3, <4>4, <4>5 DEF Base
    <3>2. CASE session' = session
      BY <3>2 DEF Base, TypeOK
    <3> QED BY <1>4, <3>1, <3>2 DEF PrepareFails
  <2>2. call \in [Operation -> (SUBSET Session) \cup {None}]
    BY DEF Base, TypeOK
  <2>3. /\ call' \in [Operation -> (SUBSET Session) \cup {None}]
        /\ \A q \in Operation : call'[q] = IF q = t.op THEN None ELSE call[q]
    BY <2>0, <2>2
  <2>4. TypeOK'
    BY <1>1, <1>2, <2>0, <2>1, <2>3 DEF Base, TypeOK, processVars
  <2>5. Authority'
    BY <2>0 DEF Base, Authority, Rest, processVars
  <2>6. ASSUME NEW q \in Operation PROVE Cuts(q)'
    <3>1. CASE q # t.op
      BY <2>0, <2>3, <3>1 DEF Base, Cuts, processVars
    <3>2. CASE q = t.op
      <4>1. operation[q].status # "preparing"
        BY <1>0, <1>4, <3>2 DEF Base, Cuts
      <4> QED BY <2>0, <2>3, <3>2, <4>1 DEF Base, Cuts, processVars
    <3> QED BY <3>1, <3>2
  <2>7. Tasks'
    <3>1. \A u \in tasks' : u.session \in Session
      BY <1>2 DEF Task
    <3> QED BY <1>2, <2>0, <2>1, <3>1 DEF Tasks
  <2>8. \A u \in Session : Sound(session[u])'
    BY <2>1 DEF Sound, Buffered, Connects
  <2> QED BY <2>4, <2>5, <2>6, <2>7, <2>8 DEF Base
<1> QED BY <1>3, <1>4

\* The sessions in ss are moved onto the route r.
LEMMA CommittedSessions ==
    ASSUME Base, NEW r \in Route, NEW ss,
           \A u \in Session : u \in ss => CanCommit(session[u], r),
           session' = After(LAMBDA x : Committed(x, r), ss)
    PROVE  /\ session' \in [Session -> GatewaySession]
           /\ \A u \in Session : /\ Sound(session'[u])
                                 /\ session'[u].state = session[u].state
<1>1. ASSUME NEW u \in Session
      PROVE  /\ Sound(session'[u])
             /\ session'[u].state = session[u].state
             /\ session'[u] \in GatewaySession
  <2>1. Sound(session[u])
    BY DEF Base
  <2>2. session'[u] = IF u \in ss THEN Committed(session[u], r) ELSE session[u]
    BY DEF After
  <2>3. Sound(session'[u]) /\ session'[u].state = session[u].state
    BY <2>1, <2>2, CommittedSound
  <2> QED BY <2>3 DEF Sound
<1>2. session' \in [Session -> GatewaySession]
  <2>1. PICK f : f = session'
    OBVIOUS
  <2>2. f = [u \in Session |-> f[u]]
    BY <2>1 DEF After
  <2> QED BY <1>1, <2>1, <2>2
<1> QED BY <1>1, <1>2

\* A cutover that swaps the route has moved the authority to the process that it
\* names, and is the only one that is about to; otherwise the route is its own.
LEMMA SwappedRoute ==
    ASSUME Base, NEW o \in Operation, call[o] # None,
           MaySwap(o, operation[o].route)
    PROVE  /\ operation[o] \in CutoverOperation
           /\ operation[o].route \in Route
           /\ frozenAt[o] < operation[o].route.epoch
           /\ \/ operation[o].route = route
              \/ /\ operation[o].route.epoch = route.epoch + 1
                 /\ serving[operation[o].route.endpoint] = route.epoch + 1
                 /\ operation[o].route.endpoint # route.endpoint
                 /\ transfer = None
                 /\ mover = o
                 /\ \A q \in Operation : operation[q] # None /\ q # o
                                            => operation[q].status # "preparing"
<1> DEFINE r == operation[o].route
<1>1. /\ operation[o] # None
      /\ operation[o].status \in {"preparing", "registry_committed"}
  BY DEF Base, Cuts
<1>2. operation[o] \in CutoverOperation
  BY <1>1 DEF Base, TypeOK
<1>3. r \in Route /\ r.endpoint \in Endpoint
  BY <1>2 DEF CutoverOperation, Route
<1>4. r.epoch = frozenAt[o] + 1
  BY <1>1 DEF Base, Cuts
<1>5. /\ frozenAt[o] \in Nat /\ route.epoch \in Nat \ {0}
      /\ \A e \in Endpoint : serving[e] \in Nat
  BY RouteTypes
<1>6. CASE operation[o].status = "registry_committed"
  <2>1. route.epoch > frozenAt[o]
    BY <1>1, <1>6 DEF Base, Cuts
  <2>2. route = r
    BY <1>5, <2>1 DEF MaySwap
  <2> QED BY <1>2, <1>3, <1>4, <1>5, <2>2
<1>7. CASE operation[o].status = "preparing"
  <2>1. /\ route.epoch = frozenAt[o] /\ mover = o
        /\ serving[r.endpoint] = frozenAt[o] + 1
    BY <1>1, <1>7 DEF Base, Cuts
  <2>2. r.endpoint # route.endpoint
    BY <1>3, <1>5, <2>1 DEF Base, Authority
  <2>3. transfer = None
    <3>1. ASSUME transfer # None PROVE FALSE
      <4>1. serving[route.endpoint] # 0 /\ route.endpoint \in Endpoint
        BY <1>5, <3>1, RouteTypes DEF Base, Authority, Rest
      <4> QED BY <1>3, <1>5, <2>1, <2>2, <4>1 DEF Base, Authority
    <3> QED BY <3>1
  <2>4. \A q \in Operation : operation[q] # None /\ q # o
                                => operation[q].status # "preparing"
    BY <2>1 DEF Base, Cuts
  <2> QED BY <1>2, <1>3, <1>4, <1>5, <2>1, <2>2, <2>3, <2>4
<1> QED BY <1>1, <1>6, <1>7

\* The route is swapped, and the cutover ends, for the time being or for good.
LEMMA SwapBase ==
    ASSUME Base, NEW o \in Operation, call[o] # None,
           MaySwap(o, operation[o].route), route' = operation[o].route,
           session' \in [Session -> GatewaySession],
           \A u \in Session : /\ Sound(session'[u])
                              /\ session'[u].state = session[u].state,
           preparation' = None, verification' \in Verification \cup {None},
           NEW st \in {"committed", "registry_committed"},
           operation' = [operation EXCEPT ![o].status = st],
           call' = [call EXCEPT ![o] = None],
           UNCHANGED <<frozenAt, tasks, processVars, faults>>
    PROVE  Base'
<1> DEFINE r == operation[o].route
<1>1. /\ operation[o] \in CutoverOperation /\ r \in Route
      /\ frozenAt[o] < r.epoch
      /\ \/ r = route
         \/ /\ r.epoch = route.epoch + 1
            /\ serving[r.endpoint] = route.epoch + 1
            /\ r.endpoint # route.endpoint
            /\ transfer = None
            /\ mover = o
            /\ \A q \in Operation : operation[q] # None /\ q # o
                                       => operation[q].status # "preparing"
  BY SwappedRoute
<1>2. /\ r.endpoint \in Endpoint /\ route.epoch \in Nat \ {0}
      /\ frozenAt[o] \in Nat /\ r.epoch \in Nat
      /\ \A e \in Endpoint : serving[e] \in Nat
      /\ \A q \in Operation : frozenAt[q] \in Nat
  BY <1>1, RouteTypes DEF Route, Epoch
<1>3. PICK c : c = [operation[o] EXCEPT !.status = st]
  OBVIOUS
<1>4. /\ c \in CutoverOperation /\ c # None
      /\ c.status = st /\ c.route = r
  BY <1>1, <1>3, NoneAssumption DEF CutoverOperation
<1>5. /\ operation' \in [Operation -> CutoverOperation \cup {None}]
      /\ call' \in [Operation -> (SUBSET Session) \cup {None}]
      /\ \A q \in Operation : /\ operation'[q] = IF q = o THEN c ELSE operation[q]
                              /\ call'[q] = IF q = o THEN None ELSE call[q]
  BY <1>3, <1>4 DEF Base, TypeOK
<1> HIDE DEF r
<1>6. route' = r /\ UNCHANGED <<frozenAt, tasks, transfer, mover, serving>>
  BY DEF r, processVars
<1>7. TypeOK'
  BY <1>1, <1>5, <1>6 DEF Base, TypeOK, processVars
<1>8. Authority'
  <2>1. CASE r = route
    BY <1>4, <1>5, <1>6, <2>1 DEF Base, TypeOK, Authority, Rest
  <2>2. CASE r # route
    <3>1. \A e \in Endpoint : serving[e] # 0 => e = r.endpoint
      BY <1>1, <1>2, <2>2 DEF Base, Authority
    <3>2. transfer = None /\ mover = o /\ serving[r.endpoint] = r.epoch
      BY <1>1, <2>2
    <3> QED BY <1>4, <1>5, <1>6, <3>1, <3>2 DEF Authority, Rest
  <2> QED BY <2>1, <2>2
<1>9. ASSUME NEW q \in Operation PROVE Cuts(q)'
  <2>0. Cuts(q) /\ Cuts(o) /\ frozenAt[q] \in Nat
    BY <1>2 DEF Base
  <2>1. CASE q = o
    <3>1. /\ operation'[o] = c /\ call'[o] = None
          /\ operation[o] # None
          /\ operation[o].status \in {"preparing", "registry_committed"}
      BY <1>1, <1>5, <2>0, <2>1 DEF Cuts
    <3> QED BY <1>1, <1>2, <1>4, <1>6, <2>0, <2>1, <3>1 DEF Cuts, r
  <2>2. CASE q # o
    <3>1. operation'[q] = operation[q] /\ call'[q] = call[q]
      BY <1>5, <2>2
    <3>2. CASE r = route
      BY <1>6, <2>0, <3>1, <3>2 DEF Cuts
    <3>3. CASE r # route
      <4>1. r.epoch = route.epoch + 1
        BY <1>1, <3>3
      <4>2. operation[q] # None => operation[q].status # "preparing"
        BY <1>1, <2>2, <3>3
      <4> QED BY <1>2, <1>6, <2>0, <3>1, <4>1, <4>2 DEF Cuts
    <3> QED BY <3>2, <3>3
  <2> QED BY <2>1, <2>2
<1>10. Tasks'
  <2>1. \A t \in tasks : t.op \in Operation /\ t.session \in Session
    BY DEF Base, TypeOK, Task
  <2> QED BY <1>4, <1>5, <1>6, <2>1 DEF Base, Tasks
<1>11. \A u \in Session : Sound(session[u])'
  BY DEF Sound, Buffered, Connects
<1> QED BY <1>7, <1>8, <1>9, <1>10, <1>11 DEF Base

LEMMA CutoverBase ==
    ASSUME Base, NEW o \in Operation, Cutover(o)
    PROVE  Base'
<1>1. CASE CutoverCommits(o)
  <2>1. PICK r : r = operation[o].route
    OBVIOUS
  <2>2. PICK ss : ss = call[o]
    OBVIOUS
  <2>3. /\ ss # None /\ MaySwap(o, r)
        /\ \A u \in Session : u \in ss => CanCommit(session[u], r)
        /\ session' = After(LAMBDA x : Committed(x, r), ss)
        /\ route' = r /\ preparation' = None
        /\ verification' = [op |-> o, epoch |-> r.epoch, sessions |-> ss,
                            stale |-> FALSE]
        /\ operation' = [operation EXCEPT ![o].status = "committed"]
        /\ call' = [call EXCEPT ![o] = None]
        /\ UNCHANGED <<frozenAt, tasks, processVars, faults>>
    BY <1>1, <2>1, <2>2 DEF CutoverCommits, AllPrepared
  <2>4. r \in Route
    BY <2>1, <2>2, <2>3, SwappedRoute
  <2>5. /\ session' \in [Session -> GatewaySession]
        /\ \A u \in Session : /\ Sound(session'[u])
                              /\ session'[u].state = session[u].state
    BY <2>3, <2>4, CommittedSessions
  <2>6. verification' \in Verification
    <3>1. ss \in SUBSET Session /\ r.epoch \in Epoch
      BY <2>2, <2>3, <2>4 DEF Base, TypeOK, Route
    <3> QED BY <2>3, <3>1 DEF Verification
  <2> QED BY <2>1, <2>2, <2>3, <2>5, <2>6, SwapBase
<1>2. CASE CutoverStopsHalfway(o)
  <2>1. PICK r : r = operation[o].route
    OBVIOUS
  <2>2. PICK ss \in SUBSET {s \in call[o] : CanCommit(session[s], r)} :
            session' = After(LAMBDA x : Committed(x, r), ss)
    BY <1>2, <2>1 DEF CutoverStopsHalfway, After
  <2>3. /\ call[o] # None /\ MaySwap(o, r)
        /\ route' = r /\ preparation' = None
        /\ operation' = [operation EXCEPT ![o].status = "registry_committed"]
        /\ call' = [call EXCEPT ![o] = None]
        /\ UNCHANGED <<verification, frozenAt, tasks, processVars, faults>>
    BY <1>2, <2>1 DEF CutoverStopsHalfway, AllPrepared
  <2>4. r \in Route
    BY <2>1, <2>3, SwappedRoute
  <2>5. /\ session' \in [Session -> GatewaySession]
        /\ \A u \in Session : /\ Sound(session'[u])
                              /\ session'[u].state = session[u].state
    BY <2>2, <2>4, CommittedSessions
  <2>6. verification' \in Verification \cup {None}
    BY <2>3 DEF Base, TypeOK
  <2> QED BY <2>1, <2>3, <2>5, <2>6, SwapBase
<1>3. CASE CutoverConflicts(o)
  <2>1. /\ call' = [call EXCEPT ![o] = None]
        /\ operation[o].status = "registry_committed"
        /\ call \in [Operation -> (SUBSET Session) \cup {None}]
        /\ UNCHANGED <<route, session, preparation, verification, operation,
                       frozenAt, tasks, processVars, faults>>
    BY <1>3 DEF CutoverConflicts, Base, TypeOK
  <2>2. /\ call' \in [Operation -> (SUBSET Session) \cup {None}]
        /\ \A q \in Operation : call'[q] = IF q = o THEN None ELSE call[q]
    BY <2>1
  <2>3. ASSUME NEW q \in Operation PROVE Cuts(q)'
    <3>1. CASE q = o
      BY <2>1, <2>2, <3>1 DEF Base, Cuts, processVars
    <3>2. CASE q # o
      BY <2>1, <2>2, <3>2 DEF Base, Cuts, processVars
    <3> QED BY <3>1, <3>2
  <2>4. /\ operation' \in [Operation -> CutoverOperation \cup {None}]
        /\ tasks' \subseteq Task
        /\ \A t \in tasks' : /\ operation'[t.op] # None
                             /\ session[t.session].state # "new"
    BY <2>1 DEF Base, TypeOK, Tasks
  <2> QED BY <2>1, <2>2, <2>3, <2>4, OperationsBase
<1> QED BY <1>1, <1>2, <1>3 DEF Cutover

LEMMA StutterBase ==
    ASSUME Base, UNCHANGED vars
    PROVE  Base'
<1> USE DEF vars, roomVars, processVars
<1>1. TypeOK' /\ Authority' /\ Tasks'
  BY DEF Base, TypeOK, Authority, Rest, Tasks
<1>2. \A o \in Operation : Cuts(o)'
  BY DEF Base, Cuts
<1>3. \A u \in Session : Sound(session[u])'
  BY DEF Base, Sound, Buffered, Connects
<1> QED BY <1>1, <1>2, <1>3 DEF Base

LEMMA BaseStep == Base /\ [Next]_vars => Base'
<1> SUFFICES ASSUME Base, [Next]_vars PROVE Base'
  OBVIOUS
<1>1. ASSUME NEW s \in Session, Browser(s) \/ Connection(s) \/ Process(s)
      PROVE  Base'
  BY <1>1, BrowserBase, ConnectionBase, ProcessBase
<1>2. ASSUME NEW o \in Operation, Orchestrator(o) PROVE Base'
  <2>1. CASE \E p \in Operation \ {o} : Freeze(o, p)
    BY <2>1, FreezeBase
  <2>2. CASE Save(o)
    BY <2>2, SaveBase
  <2>3. CASE \E a, b \in Endpoint : Move(o, a, b)
    BY <2>3, MoveBase
  <2>4. CASE \E e \in Endpoint :
                CutoverUnprepared(o, e) \/ CutoverRefused(o, e) \/ CutoverBegins(o, e)
    BY <2>4, CutoverUnpreparedBase, CutoverRefusedBase, CutoverBeginsBase
  <2>5. CASE CutoverAgain(o)
    BY <2>5, CutoverAgainBase
  <2> QED BY <1>2, <2>1, <2>2, <2>3, <2>4, <2>5 DEF Orchestrator
<1>3. ASSUME NEW o \in Operation, Cutover(o) PROVE Base'
  BY <1>3, CutoverBase
<1>4. ASSUME NEW t \in Task, Prepare(t) PROVE Base'
  BY <1>4, PrepareConnectsBase, PrepareEndsBase, PrepareFailsBase DEF Prepare
<1>5. CASE PreparationEnds \/ Finalize \/ VerificationAges
  BY <1>5, PreparationEndsBase, FinalizeBase, VerificationAgesBase
<1>6. CASE UNCHANGED vars
  BY <1>6, StutterBase
<1> QED BY <1>1, <1>2, <1>3, <1>4, <1>5, <1>6 DEF Next

\* The inductive invariant that does not look at the inputs: every session is
\* sound, at most one process is Active, and a cutover in progress is the one that
\* follows its move of the authority.
THEOREM BaseAlways == Spec => []Base
BY BaseInit, BaseStep, PTL DEF Spec

\* Every variable of the gateway and of the processes behind it has its type.
THEOREM TypeOKAlways == Spec => []TypeOK
<1>1. Base => TypeOK
  BY DEF Base
<1> QED BY <1>1, BaseAlways, PTL

\* What a cutover replays on a new connection fits in what is retained for a
\* rollback, for any bound on the buffer: retainForRollback does not throw.
THEOREM ReplayFitsAlways == Spec => []ReplayFits
<1>1. Base => ReplayFits
  BY DEF Base, ReplayFits, Sound, Buffered
<1> QED BY <1>1, BaseAlways, PTL

\* The compare-and-swap of a cutover whose sessions are prepared succeeds: the
\* route is at the epoch in which the operation has frozen the room.
THEOREM SwapNeverConflictsAlways == Spec => []SwapNeverConflicts
<1>1. Base => SwapNeverConflicts
  BY DEF Base, Cuts, SwapNeverConflicts, AllPrepared
<1> QED BY <1>1, BaseAlways, PTL

\* The route is changed only by a cutover that swaps it.
LEMMA RouteStep ==
    ASSUME Base, Next, route' # route
    PROVE  \E o \in Operation : /\ call[o] # None
                                /\ MaySwap(o, operation[o].route)
                                /\ route' = operation[o].route
<1>1. ASSUME NEW s \in Session, Browser(s) \/ Connection(s) \/ Process(s)
      PROVE  route' = route
  BY <1>1
     DEF Browser, Open, Join, Receive, Overflow, SessionCloses,
         Connection, Connected, StartFails, AckArrives, UpstreamCloses,
         PreparedCloses, ReplacedCloses, Process, Processes, Rejects
<1>2. ASSUME NEW o \in Operation, Orchestrator(o) PROVE route' = route
  BY <1>2
     DEF Orchestrator, Freeze, Save, Move, CutoverUnprepared, CutoverRefused,
         CutoverBegins, CutoverAgain, CutoverFails
<1>3. ASSUME NEW t \in Task, Prepare(t) PROVE route' = route
  BY <1>3 DEF Prepare, PrepareConnects, PrepareEnds, PrepareFails, CutoverFails
<1>4. ASSUME PreparationEnds \/ Finalize \/ VerificationAges
      PROVE  route' = route
  BY <1>4 DEF PreparationEnds, Finalize, VerificationAges
<1>5. \E o \in Operation : Cutover(o)
  <2>1. \E o \in Operation : Orchestrator(o) \/ Cutover(o)
    BY <1>1, <1>3, <1>4 DEF Next
  <2> QED BY <1>2, <2>1
<1>6. PICK o \in Operation : CutoverCommits(o) \/ CutoverStopsHalfway(o)
  BY <1>5 DEF Cutover, CutoverConflicts
<1> QED BY <1>6 DEF CutoverCommits, CutoverStopsHalfway, AllPrepared

\* The room's route only ever moves to a newer epoch, and to the process that is
\* Active in it: no cutover, first or asked for again, routes players to a process
\* that has not been given the authority.
THEOREM RouteIsFencedAlways == Spec => RouteIsFenced
<1>1. ASSUME Base, [Next]_vars, route' # route
      PROVE  route'.epoch > route.epoch /\ serving[route'.endpoint] = route'.epoch
  <2>1. PICK o \in Operation : /\ call[o] # None
                               /\ MaySwap(o, operation[o].route)
                               /\ route' = operation[o].route
    BY <1>1, RouteStep DEF vars
  <2>2. /\ route'.epoch = route.epoch + 1
        /\ serving[route'.endpoint] = route.epoch + 1
    BY <1>1, <2>1, SwappedRoute
  <2> QED BY <1>1, <2>2, RouteTypes
<1>2. Base /\ [Next]_vars =>
        [route' # route => /\ route'.epoch > route.epoch
                           /\ serving[route'.endpoint] = route'.epoch]_vars
  BY <1>1
<1> QED BY <1>2, BaseAlways, BaseStep, PTL DEF Spec, RouteIsFenced

-----------------------------------------------------------------------------
(* What is kept of a session's inputs.                                     *)

\* The connections and the buffer of a session, when P are the inputs that a game
\* or a checkpoint has of it.
Bounds(x, P) ==
    /\ x.acked <= x.received
    /\ x.ack <= x.received
    /\ x.shadow \subseteq 1..x.received
    /\ ToSet(x.wire) \subseteq 1..x.received
    /\ x.state # "closed" => P \subseteq 1..x.received
    /\ x.verifying => x.current # None /\ x.current.adopted

\* A session whose connection is to the Active, which knows the inputs in C: it has
\* processed them, or they are left behind.  It has been sent, or will be by
\* flushInputs, the others, and all of them unless the session is frozen.
SendsDue(x, C) ==
    /\ 1..x.ack \subseteq C
    /\ ~x.current.adopted => 1..x.acked \subseteq C
    /\ x.current.up = "open" =>
          /\ 1..x.acked \subseteq C \cup ToSet(x.wire)
          /\ 1..x.current.sent \subseteq C \cup ToSet(x.wire)
    /\ Covered(x.wire, C)

SendsAll(x, C) ==
    x.current.up = "open" /\ ~x.frozen =>
        1..x.received \subseteq C \cup ToSet(x.wire)

\* A process that the next connections are to, and that will know the inputs in D,
\* will be sent the others.
Retains(x, D, plays) ==
    /\ x.verifying => (1..x.received) \ x.shadow \subseteq D
    /\ ~x.verifying /\ ~plays => /\ 1..x.acked \subseteq D
                                 /\ 1..x.ack \subseteq D

\* The inputs of session s that a game or a checkpoint has.
Recorded(s) == (UNION {ToSet(game[e][s]) : e \in Endpoint})
               \cup (IF transfer = None THEN {} ELSE ToSet(transfer.game[s]))

\* What process e knows of session s; what it does if the authority moves.
Known(e, s) == ToSet(game[e][s]) \cup left[s]
Restored(e, s) == left[s] \cup (IF transfer = None THEN ToSet(game[e][s])
                                ELSE ToSet(transfer.game[s]))

KeepsDue(s, x) ==
    /\ Bounds(x, Recorded(s))
    /\ x.current # None =>
          /\ Accepted(x) => SendsDue(x, Known(x.current.route.endpoint, s))
          /\ \A e \in Endpoint :
                serving[e] # 0 => Retains(x, Restored(e, s), Accepted(x))

Keeps(s, x) ==
    /\ KeepsDue(s, x)
    /\ x.current # None /\ Accepted(x)
          => SendsAll(x, Known(x.current.route.endpoint, s))

\* No connection is ahead of the route.
Follows(x) ==
    x.current # None => /\ x.current.route.epoch <= route.epoch
                        /\ x.current.route.epoch = route.epoch
                              => x.current.route = route

\* A game, and the checkpoint that is to be moved, is without gaps.
Games(s) ==
    /\ \A e \in Endpoint : /\ Increasing(game[e][s])
                           /\ Gapless(game[e][s], left[s])
    /\ transfer # None =>
          /\ Increasing(transfer.game[s])
          /\ Gapless(transfer.game[s], left[s])
          /\ ToSet(transfer.game[s]) \subseteq ToSet(game[route.endpoint][s])

\* A session that a cutover has selected gets to the cutover's epoch by the
\* cutover, or a later one.
Selected(o) == operation[o].sessions \cup (IF call[o] = None THEN {} ELSE call[o])

Moves(x, r) ==
    /\ x.state # "new"
    /\ x.current # None /\ x.current.route.epoch >= r.epoch => x.current.adopted

Selects(o) ==
    operation[o] # None =>
        \A s \in Selected(o) : Moves(session[s], operation[o].route)

Kept == /\ Base
        /\ \A s \in Session : /\ Keeps(s, session[s])
                              /\ Follows(session[s])
                              /\ Games(s)
        /\ \A o \in Operation : Selects(o)

\* A session's connection stays, or it is the first, to the process on the route.
Continues(x, y) ==
    /\ x.state # "new" => y.state # "new"
    /\ y.current # None =>
          \/ x.state = "new" /\ y.current.route = route
          \/ /\ x.current # None
             /\ y.current.route = x.current.route
             /\ y.current.adopted = x.current.adopted

\* The same, or a cutover has replaced it by one to r.
ContinuesOn(x, y, r) ==
    \/ Continues(x, y)
    \/ /\ y.state # "new"
       /\ y.current # None /\ y.current.route = r /\ y.current.adopted

LEMMA WireInputs ==
    ASSUME NEW x \in GatewaySession
    PROVE  /\ x.wire \in Seq(Input)
           /\ ToSet(x.wire) \subseteq Input
           /\ x.current # None => x.current \in Upstream /\ x.current.sent \in Nat
<1>1. x.wire \in Seq(Input) /\ x.current \in Upstream \cup {None}
  BY DEF GatewaySession
<1>2. ToSet(x.wire) \subseteq Input
  BY <1>1, ElementOfSeq, LenProperties DEF ToSet
<1>3. x.current # None => x.current.sent \in Nat
  BY <1>1, BoundAssumption DEF Upstream, Sequence
<1> QED BY <1>1, <1>2, <1>3

\* flushInputs sends everything that the process needs to go on without a gap.
LEMMA FlushedSends ==
    ASSUME NEW x \in GatewaySession, x.current # None, NEW C,
           x.acked <= x.received, SendsDue(x, C)
    PROVE  SendsDue(Flushed(x), C) /\ SendsAll(Flushed(x), C)
<1> DEFINE due == {n \in Unacked(x) : n > x.current.sent}
<1>1. PICK y : y = Flushed(x)
  OBVIOUS
<1>2. /\ y \in GatewaySession
      /\ y.ack = x.ack /\ y.acked = x.acked /\ y.received = x.received
      /\ y.frozen = x.frozen
      /\ y.current.adopted = x.current.adopted /\ y.current.up = x.current.up
      /\ y.current.sent = IF due = {} THEN x.current.sent ELSE x.received
      /\ y.wire = IF x.current.up = "open" THEN x.wire \o Sorted(due) ELSE x.wire
  BY <1>1, FlushedFields
<1>3. due \in SUBSET Input
  BY BufferInputs
<1>4. CASE x.current.up # "open"
  BY <1>1, <1>2, <1>4 DEF SendsDue, SendsAll
<1>5. CASE x.current.up = "open"
  <2>1. /\ Sorted(due) \in Seq(Input) /\ ToSet(Sorted(due)) = due
        /\ Increasing(Sorted(due))
    BY <1>3, SortedInputs
  <2>2. ToSet(y.wire) = ToSet(x.wire) \cup due
    <3> HIDE DEF due
    <3>1. ToSet(x.wire \o Sorted(due)) = ToSet(x.wire) \cup ToSet(Sorted(due))
      BY <2>1, WireInputs, ConcatElements
    <3> QED BY <1>2, <1>5, <2>1, <3>1
  <2>3. /\ x.acked \in Nat /\ x.received \in Nat /\ x.current.sent \in Nat
    BY BufferInputs, WireInputs
  <2>4. 1..x.received \subseteq C \cup ToSet(x.wire) \cup due
    <3>1. ASSUME NEW n \in 1..x.received
          PROVE  n \in C \cup ToSet(x.wire) \cup due
      <4>1. n \in 1..x.current.sent \/ n \in 1..x.acked \/ n \in due
        BY <2>3 DEF Unacked
      <4> QED BY <1>5, <4>1 DEF SendsDue
    <3> QED BY <3>1
  <2>5. Covered(y.wire, C)
    <3>1. \A n \in due : 1..n \subseteq 1..x.received
      BY <2>3 DEF Unacked
    <3>2. \A n \in ToSet(Sorted(due)) :
             1..n \subseteq C \cup ToSet(x.wire) \cup ToSet(Sorted(due))
      BY <2>1, <2>4, <3>1
    <3> HIDE DEF due
    <3>3. Covered(x.wire \o Sorted(due), C)
      BY <2>1, <3>2, WireInputs, CoveredConcat DEF SendsDue
    <3> QED BY <1>2, <1>5, <3>3
  <2> HIDE DEF due
  <2>6. SendsAll(y, C)
    BY <1>2, <2>2, <2>4 DEF SendsAll
  <2>7. 1..y.current.sent \subseteq C \cup ToSet(y.wire)
    BY <1>2, <1>5, <2>2, <2>4 DEF SendsDue
  <2>8. SendsDue(y, C)
    BY <1>2, <1>5, <2>2, <2>5, <2>7 DEF SendsDue
  <2> QED BY <1>1, <2>6, <2>8
<1> QED BY <1>4, <1>5

LEMMA FlushedKeeps ==
    ASSUME NEW s \in Session, NEW x, Sound(x), KeepsDue(s, x)
    PROVE  Keeps(s, Flushed(x)) /\ Continues(x, Flushed(x))
<1>0. x \in GatewaySession
  BY DEF Sound
<1>1. CASE x.current = None
  BY <1>1 DEF Flushed, Keeps, KeepsDue, Continues
<1>2. CASE x.current # None
  <2> DEFINE due == {n \in Unacked(x) : n > x.current.sent}
  <2>1. PICK y : y = Flushed(x)
    OBVIOUS
  <2>2. /\ y \in GatewaySession
        /\ y.state = x.state
        /\ y.ack = x.ack /\ y.acked = x.acked /\ y.received = x.received
        /\ y.shadow = x.shadow /\ y.verifying = x.verifying
        /\ y.current \in Upstream
        /\ y.current.route = x.current.route
        /\ y.current.adopted = x.current.adopted
        /\ y.wire = IF x.current.up = "open" THEN x.wire \o Sorted(due) ELSE x.wire
    BY <1>0, <1>2, <2>1, FlushedFields
  <2>3. due \in SUBSET Input /\ due \subseteq 1..x.received
    <3>1. due \subseteq Unacked(x)
      OBVIOUS
    <3>2. Unacked(x) \subseteq 1..x.received
      BY <1>0, BufferInputs DEF Unacked
    <3> QED BY <1>0, <3>1, <3>2, BufferInputs
  <2> HIDE DEF due
  <2>4. ToSet(y.wire) \subseteq ToSet(x.wire) \cup due
    BY <1>0, <2>2, <2>3, SortedInputs, WireInputs, ConcatElements
  <2>5. Bounds(y, Recorded(s))
    BY <1>2, <2>2, <2>3, <2>4, NoneAssumption DEF KeepsDue, Bounds
  <2>6. Accepted(y) = Accepted(x)
    BY <2>2 DEF Accepted
  <2>7. Accepted(x) => /\ SendsDue(y, Known(x.current.route.endpoint, s))
                       /\ SendsAll(y, Known(x.current.route.endpoint, s))
    BY <1>0, <1>2, <2>1, FlushedSends DEF KeepsDue, Bounds
  <2>8. \A e \in Endpoint :
           serving[e] # 0 => Retains(y, Restored(e, s), Accepted(y))
    BY <1>2, <2>2, <2>6 DEF KeepsDue, Retains
  <2>9. Keeps(s, y)
    BY <2>2, <2>5, <2>6, <2>7, <2>8 DEF Keeps, KeepsDue
  <2> QED BY <1>2, <2>1, <2>2, <2>9 DEF Continues
<1> QED BY <1>1, <1>2

\* What does not touch a session's buffer or its current connection.
LEMMA SameKeeps ==
    ASSUME NEW s \in Session, NEW x, NEW y, KeepsDue(s, x),
           y.acked = x.acked, y.received = x.received, y.ack = x.ack,
           y.shadow = x.shadow, y.verifying = x.verifying, y.wire = x.wire,
           y.current = x.current, y.state # "closed" => x.state # "closed",
           x.state # "new" => y.state # "new"
    PROVE  KeepsDue(s, y) /\ Continues(x, y)
<1>1. Accepted(y) = Accepted(x)
  BY DEF Accepted
<1>2. \A C : SendsDue(x, C) => SendsDue(y, C)
  BY DEF SendsDue
<1>3. \A D : Retains(x, D, Accepted(x)) => Retains(y, D, Accepted(y))
  BY <1>1 DEF Retains
<1>4. Bounds(y, Recorded(s))
  BY DEF KeepsDue, Bounds
<1>5. KeepsDue(s, y)
  BY <1>1, <1>2, <1>3, <1>4 DEF KeepsDue
<1> QED BY <1>5 DEF Continues

\* The same, when the session is not resumed either.
LEMMA StillKeeps ==
    ASSUME NEW s \in Session, NEW x, NEW y, Keeps(s, x),
           y.acked = x.acked, y.received = x.received, y.ack = x.ack,
           y.shadow = x.shadow, y.verifying = x.verifying, y.wire = x.wire,
           y.current = x.current, y.state # "closed" => x.state # "closed",
           x.state # "new" => y.state # "new", ~y.frozen => ~x.frozen
    PROVE  Keeps(s, y) /\ Continues(x, y)
<1>1. KeepsDue(s, y) /\ Continues(x, y)
  BY SameKeeps DEF Keeps
<1>2. Accepted(y) = Accepted(x)
  BY DEF Accepted
<1>3. \A C : SendsAll(x, C) => SendsAll(y, C)
  BY DEF SendsAll
<1> QED BY <1>1, <1>2, <1>3 DEF Keeps

LEMMA ResumedKeeps ==
    ASSUME NEW s \in Session, NEW x, Sound(x), Keeps(s, x)
    PROVE  Keeps(s, Resumed(x)) /\ Continues(x, Resumed(x))
<1>1. PICK y : y = [x EXCEPT !.prepared = None, !.frozen = FALSE]
  OBVIOUS
<1>2. /\ y \in GatewaySession
      /\ y.state = x.state /\ y.starting = x.starting /\ y.prepared = None
      /\ y.received = x.received /\ y.acked = x.acked /\ y.shadow = x.shadow
      /\ y.verifying = x.verifying /\ y.ack = x.ack /\ y.wire = x.wire
      /\ y.current = x.current
  BY <1>1 DEF Sound, GatewaySession
<1>3. Buffered(y)
  BY <1>2, SameBuffers DEF Sound
<1>4. Connects(y)
  BY <1>2 DEF Sound, Connects
<1>5. Sound(y) /\ Resumed(x) = Flushed(y)
  BY <1>1, <1>2, <1>3, <1>4 DEF Sound, Resumed
<1>6. KeepsDue(s, y)
  BY <1>2, SameKeeps DEF Keeps
<1>7. Keeps(s, Flushed(y)) /\ Continues(y, Flushed(y))
  BY <1>5, <1>6, FlushedKeeps
<1> QED BY <1>2, <1>5, <1>7 DEF Continues

LEMMA StoppedKeeps ==
    ASSUME NEW s \in Session, NEW x
    PROVE  Keeps(s, Stopped) /\ Continues(x, Stopped)
<1>1. PICK y : y = Stopped
  OBVIOUS
<1>2. /\ y.state = "closed" /\ y.current = None /\ y.acked = 0 /\ y.received = 0
      /\ y.ack = 0 /\ y.shadow = {} /\ y.wire = <<>> /\ ~y.verifying
  BY <1>1 DEF Stopped, Blank
<1>3. ToSet(<<>>) = {}
  BY EmptySeq DEF ToSet
<1>4. Bounds(y, Recorded(s))
  BY <1>2, <1>3 DEF Bounds
<1> QED BY <1>1, <1>2, <1>4 DEF Keeps, KeepsDue, Continues

LEMMA OpenedKeeps ==
    ASSUME NEW s \in Session, NEW x, Sound(x), x.state = "new", Keeps(s, x),
           NEW r, r = route, NEW y,
           y = [x EXCEPT !.state = "open", !.starting = TRUE,
                         !.current = [route |-> r, adopted |-> FALSE,
                                      up |-> "connecting", sent |-> 0]]
    PROVE  Keeps(s, y) /\ Continues(x, y)
<1>1. /\ x \in GatewaySession /\ x.received = 0 /\ x.wire = <<>> /\ x.ack = 0
      /\ x.acked = 0 /\ ~x.verifying
  BY DEF Sound, Connects
<1>2. PICK c : c = [route |-> r, adopted |-> FALSE, up |-> "connecting", sent |-> 0]
  OBVIOUS
<1>3. /\ y.state = "open" /\ y.current = c /\ y.wire = <<>> /\ y.ack = 0
      /\ y.acked = 0 /\ y.received = 0 /\ ~y.verifying /\ y.shadow = x.shadow
  BY <1>1, <1>2 DEF GatewaySession
<1>4. ToSet(<<>>) = {} /\ DOMAIN <<>> = {} /\ 1..0 = {}
  BY EmptySeq DEF ToSet
<1>5. c.up = "connecting" /\ ~c.adopted /\ c.sent = 0
  BY <1>2
<1>6. Bounds(y, Recorded(s))
  BY <1>1, <1>3, <1>4 DEF Keeps, KeepsDue, Bounds
<1>7. \A C : SendsDue(y, C) /\ SendsAll(y, C)
  BY <1>3, <1>4, <1>5 DEF SendsDue, SendsAll, Covered
<1>8. \A D : Retains(y, D, Accepted(y))
  BY <1>3, <1>4 DEF Retains
<1>9. Keeps(s, y)
  BY <1>6, <1>7, <1>8 DEF Keeps, KeepsDue
<1> QED BY <1>3, <1>9 DEF Continues

LEMMA ConnectedKeeps ==
    ASSUME NEW s \in Session, NEW x, Sound(x), x.starting, Opening(x), Keeps(s, x),
           NEW y, y = Flushed([x EXCEPT !.starting = FALSE, !.current.up = "open"])
    PROVE  Keeps(s, y) /\ Continues(x, y)
<1>1. PICK c : c = [x.current EXCEPT !.up = "open"]
  OBVIOUS
<1>2. PICK z : z = [x EXCEPT !.starting = FALSE, !.current = c]
  OBVIOUS
<1>3. /\ x \in GatewaySession
      /\ x.state \in {"open", "joined"}
      /\ x.current # None /\ x.current \in Upstream
      /\ x.current.sent = 0 /\ x.received = 0 /\ x.wire = <<>>
  BY DEF Sound, Connects, GatewaySession, Opening
<1>4. /\ c \in Upstream /\ c # None /\ c.up = "open" /\ c.sent = 0
      /\ c.route = x.current.route /\ c.adopted = x.current.adopted
  BY <1>1, <1>3, NoneAssumption DEF Upstream
<1>5. y = Flushed(z)
  BY <1>1, <1>2, <1>3 DEF GatewaySession
<1>6. /\ z \in GatewaySession
      /\ z.state = x.state /\ z.current = c /\ z.wire = x.wire
      /\ z.shadow = x.shadow /\ z.verifying = x.verifying
      /\ z.received = x.received /\ z.acked = x.acked /\ z.ack = x.ack
  BY <1>2, <1>3, <1>4 DEF GatewaySession
<1>7. Buffered(z)
  BY <1>6, SameBuffers DEF Sound
<1>8. Connects(z)
  BY <1>3, <1>4, <1>6 DEF Connects
<1>9. Sound(z)
  BY <1>6, <1>7, <1>8 DEF Sound
<1>10. x.acked \in Nat /\ x.acked <= 0
  BY <1>3, BufferInputs DEF Keeps, KeepsDue, Bounds
<1>11. 1..x.acked = {} /\ 1..0 = {} /\ Accepted(z) = Accepted(x)
  BY <1>4, <1>6, <1>10 DEF Accepted
<1>12. \A C : SendsDue(x, C) => SendsDue(z, C)
  BY <1>3, <1>4, <1>6, <1>11 DEF SendsDue
<1>13. \A D : Retains(x, D, Accepted(x)) => Retains(z, D, Accepted(z))
  BY <1>6, <1>11 DEF Retains
<1>14. Bounds(z, Recorded(s))
  BY <1>3, <1>4, <1>6 DEF Keeps, KeepsDue, Bounds
<1>15. KeepsDue(s, z)
  BY <1>3, <1>4, <1>6, <1>11, <1>12, <1>13, <1>14 DEF Keeps, KeepsDue
<1>16. Keeps(s, y) /\ Continues(z, y)
  BY <1>5, <1>9, <1>15, FlushedKeeps
<1> QED BY <1>3, <1>4, <1>6, <1>16 DEF Continues

LEMMA ReceivedKeeps ==
    ASSUME NEW s \in Session, NEW x, Sound(x), x.state = "joined", Keeps(s, x),
           x.received + 1 <= MaxInput, NEW y, y = WithInput(x)
    PROVE  Keeps(s, y) /\ Continues(x, y)
<1> DEFINE n == x.received + 1
           sends == ~x.frozen /\ x.current.up = "open"
<1>1. /\ x \in GatewaySession /\ x.current # None /\ x.current \in Upstream
      /\ x.wire \in Seq(Input)
  BY DEF Sound, Connects, GatewaySession
<1>2. n \in Input /\ n \in Nat /\ x.received \in Nat
  BY <1>1, BufferInputs DEF Input
<1>3. PICK c : c = [x.current EXCEPT !.sent = IF sends THEN n ELSE @]
  OBVIOUS
<1>4. PICK w : w = IF sends THEN Append(x.wire, n) ELSE x.wire
  OBVIOUS
<1>5. PICK h : h = IF x.verifying THEN x.shadow \cup {n} ELSE x.shadow
  OBVIOUS
<1>6. /\ c # None /\ c.up = x.current.up /\ c.adopted = x.current.adopted
      /\ c.route = x.current.route
      /\ c.sent = IF sends THEN n ELSE x.current.sent
  <2>1. n \in Sequence
    BY <1>2 DEF Sequence
  <2>2. c \in Upstream
    BY <1>1, <1>3, <2>1 DEF Upstream
  <2> QED BY <1>1, <1>3, <2>2, NoneAssumption DEF Upstream
<1>7. ToSet(w) = IF sends THEN ToSet(x.wire) \cup {n} ELSE ToSet(x.wire)
  <2> HIDE DEF n
  <2>1. ToSet(Append(x.wire, n)) = ToSet(x.wire) \cup {n}
    BY <1>1, <1>2, AppendElements
  <2> QED BY <1>4, <2>1
<1>8. y = [x EXCEPT !.received = n, !.shadow = h, !.wire = w, !.current = c]
  BY <1>1, <1>3, <1>4, <1>5 DEF GatewaySession, WithInput
<1>9. 1..n = 1..x.received \cup {n}
  BY <1>2
<1>10. 1..(n - 1) = 1..x.received
  BY <1>2
<1> HIDE DEF n
<1>11. /\ y.state = x.state /\ y.received = n /\ y.acked = x.acked
       /\ y.ack = x.ack /\ y.shadow = h /\ y.frozen = x.frozen
       /\ y.verifying = x.verifying /\ y.wire = w /\ y.current = c
  BY <1>1, <1>8 DEF GatewaySession
<1>12. Bounds(y, Recorded(s))
  <2>1. Bounds(x, Recorded(s))
    BY DEF Keeps, KeepsDue
  <2>2. y.acked <= y.received /\ y.ack <= y.received
    BY <1>1, <1>2, <1>11, <2>1, BufferInputs DEF Bounds, n
  <2>3. /\ y.shadow \subseteq 1..y.received
        /\ ToSet(y.wire) \subseteq 1..y.received
    BY <1>5, <1>7, <1>9, <1>11, <2>1 DEF Bounds
  <2> QED BY <1>1, <1>6, <1>9, <1>11, <2>1, <2>2, <2>3 DEF Bounds
<1>13. Accepted(y) = Accepted(x)
  BY <1>6, <1>11 DEF Accepted
<1>14. ASSUME NEW C, SendsDue(x, C), SendsAll(x, C)
       PROVE  SendsDue(y, C) /\ SendsAll(y, C)
  <2>1. CASE sends
    <3>1. 1..x.received \subseteq C \cup ToSet(x.wire)
      BY <1>14, <2>1 DEF SendsAll
    <3>2. 1..n \subseteq C \cup ToSet(w)
      BY <1>7, <1>9, <2>1, <3>1
    <3>3. Covered(w, C)
      BY <1>1, <1>2, <1>4, <1>10, <1>14, <2>1, <3>1, CoveredAppend DEF SendsDue
    <3>4. c.up = "open" /\ c.sent = n
      BY <1>6, <2>1
    <3> QED BY <1>6, <1>7, <1>11, <1>14, <2>1, <3>2, <3>3, <3>4
            DEF SendsDue, SendsAll
  <2>2. CASE ~sends
    BY <1>4, <1>6, <1>11, <1>14, <2>2 DEF SendsDue, SendsAll
  <2> QED BY <2>1, <2>2
<1>15. ASSUME NEW D, Retains(x, D, Accepted(x))
       PROVE  Retains(y, D, Accepted(y))
  BY <1>5, <1>9, <1>11, <1>13, <1>15 DEF Retains
<1>16. Keeps(s, y)
  BY <1>1, <1>6, <1>11, <1>12, <1>13, <1>14, <1>15 DEF Keeps, KeepsDue
<1> QED BY <1>1, <1>6, <1>11, <1>16 DEF Continues

LEMMA AckedKeeps ==
    ASSUME NEW s \in Session, NEW x, Sound(x), x.ack # 0, Keeps(s, x), NEW y,
           y = [x EXCEPT !.acked = IF @ < x.ack THEN x.ack ELSE @, !.ack = 0]
    PROVE  Keeps(s, y) /\ Continues(x, y)
<1>1. PICK n : n = IF x.acked < x.ack THEN x.ack ELSE x.acked
  OBVIOUS
<1>2. x \in GatewaySession /\ x.state \notin {"new", "closed"} /\ x.current # None
  BY DEF Sound, Connects, GatewaySession
<1>3. /\ y.state = x.state /\ y.starting = x.starting /\ y.prepared = x.prepared
      /\ y.received = x.received /\ y.acked = n /\ y.shadow = x.shadow
      /\ y.verifying = x.verifying /\ y.wire = x.wire /\ y.ack = 0
      /\ y.current = x.current /\ y.frozen = x.frozen
  BY <1>1, <1>2 DEF GatewaySession
<1>4. /\ x.acked \in Nat /\ x.ack \in Nat /\ x.received \in Nat
      /\ 1..0 = {} /\ (n = x.acked \/ n = x.ack)
  BY <1>1, <1>2, BufferInputs
<1>5. Bounds(y, Recorded(s))
  BY <1>3, <1>4 DEF Keeps, KeepsDue, Bounds
<1>6. Accepted(y) = Accepted(x)
  BY <1>3 DEF Accepted
<1>7. ASSUME NEW C, SendsDue(x, C), SendsAll(x, C)
      PROVE  SendsDue(y, C) /\ SendsAll(y, C)
  <2>1. /\ ~y.current.adopted => 1..n \subseteq C
        /\ y.current.up = "open" => 1..n \subseteq C \cup ToSet(y.wire)
    BY <1>3, <1>4, <1>7 DEF SendsDue
  <2> QED BY <1>3, <1>4, <1>7, <2>1 DEF SendsDue, SendsAll
<1>8. ASSUME NEW D, Retains(x, D, Accepted(x))
      PROVE  Retains(y, D, Accepted(y))
  BY <1>3, <1>4, <1>6, <1>8 DEF Retains
<1>9. Keeps(s, y)
  BY <1>2, <1>3, <1>5, <1>6, <1>7, <1>8 DEF Keeps, KeepsDue
<1> QED BY <1>2, <1>3, <1>9 DEF Continues

LEMMA DisconnectedKeeps ==
    ASSUME NEW s \in Session, NEW x, Sound(x), x.current # None, Keeps(s, x)
    PROVE  Keeps(s, Disconnected(x)) /\ Continues(x, Disconnected(x))
<1>1. CASE x.frozen /\ ~x.current.adopted
  <2>1. PICK y : y = Disconnected(x)
    OBVIOUS
  <2>2. /\ x.current \in Upstream /\ x \in GatewaySession
        /\ x.acked \in Nat /\ x.received \in Nat
    BY BufferInputs DEF Sound, GatewaySession
  <2>3. PICK c : c = [x.current EXCEPT !.up = "closed"]
    OBVIOUS
  <2>4. /\ c # None /\ c.up = "closed" /\ c.adopted = x.current.adopted
        /\ c.route = x.current.route
    <3>1. c \in Upstream
      BY <2>2, <2>3 DEF Upstream
    <3> QED BY <2>2, <2>3, <3>1, NoneAssumption DEF Upstream
  <2>5. y = [x EXCEPT !.wire = <<>>, !.ack = 0, !.current = c]
    BY <1>1, <2>1, <2>2, <2>3 DEF Disconnected, GatewaySession
  <2>6. /\ y.state = x.state /\ y.current = c /\ y.wire = <<>> /\ y.ack = 0
        /\ y.shadow = x.shadow /\ y.verifying = x.verifying
        /\ y.received = x.received /\ y.acked = x.acked
    BY <2>2, <2>5 DEF GatewaySession
  <2>7. ToSet(<<>>) = {} /\ DOMAIN <<>> = {} /\ 1..0 = {}
    BY EmptySeq DEF ToSet
  <2>8. Bounds(y, Recorded(s))
    BY <2>2, <2>4, <2>6, <2>7 DEF Keeps, KeepsDue, Bounds
  <2>9. Accepted(y) = Accepted(x)
    BY <2>4, <2>6 DEF Accepted
  <2>10. ASSUME NEW C, SendsDue(x, C)
         PROVE  SendsDue(y, C) /\ SendsAll(y, C)
    BY <2>4, <2>6, <2>7, <2>10 DEF SendsDue, SendsAll, Covered
  <2>11. ASSUME NEW D, Retains(x, D, Accepted(x))
         PROVE  Retains(y, D, Accepted(y))
    BY <2>6, <2>7, <2>9, <2>11 DEF Retains
  <2>12. Keeps(s, y)
    BY <2>4, <2>6, <2>8, <2>9, <2>10, <2>11 DEF Keeps, KeepsDue
  <2> QED BY <2>1, <2>4, <2>6, <2>12 DEF Continues
<1>2. CASE ~(x.frozen /\ ~x.current.adopted)
  BY <1>2, StoppedKeeps DEF Disconnected
<1> QED BY <1>1, <1>2

\* A verification ends while the session plays: what was retained is forgotten.
LEMMA FinalizedKeeps ==
    ASSUME NEW s \in Session, NEW x, Sound(x), Keeps(s, x), x.current # None,
           Accepted(x), NEW y, y = [x EXCEPT !.verifying = FALSE, !.shadow = {}]
    PROVE  Keeps(s, y) /\ Continues(x, y)
<1>1. /\ y.state = x.state /\ y.received = x.received /\ y.acked = x.acked
      /\ y.shadow = {} /\ ~y.verifying /\ y.wire = x.wire /\ y.ack = x.ack
      /\ y.current = x.current /\ y.frozen = x.frozen
  BY DEF Sound, GatewaySession
<1>2. Bounds(y, Recorded(s))
  BY <1>1 DEF Keeps, KeepsDue, Bounds
<1>3. Accepted(y)
  BY <1>1 DEF Accepted
<1>4. \A C : /\ SendsDue(x, C) => SendsDue(y, C)
             /\ SendsAll(x, C) => SendsAll(y, C)
  BY <1>1 DEF SendsDue, SendsAll
<1>5. \A D : Retains(y, D, Accepted(y))
  BY <1>1, <1>3 DEF Retains
<1>6. Keeps(s, y)
  BY <1>1, <1>2, <1>4, <1>5 DEF Keeps, KeepsDue
<1> QED BY <1>1, <1>6 DEF Continues, Sound, Connects

LEMMA CoveredSorted ==
    ASSUME NEW v \in Seq(Input), NEW D, Increasing(v), NEW m \in Nat,
           ToSet(v) \subseteq 1..m, 1..m \subseteq D \cup ToSet(v)
    PROVE  Covered(v, D)
<1>1. <<>> \in Seq(Input) /\ ToSet(<<>>) = {} /\ Covered(<<>>, D)
  BY EmptySeq DEF ToSet, Covered
<1>2. \A n \in ToSet(v) : 1..n \subseteq D \cup ToSet(<<>>) \cup ToSet(v)
  <2>1. \A n \in ToSet(v) : 1..n \subseteq 1..m
    OBVIOUS
  <2> QED BY <2>1
<1>3. Covered(<<>> \o v, D)
  BY <1>1, <1>2, CoveredConcat
<1>4. <<>> \o v = v
  BY ConcatEmptySeq
<1> QED BY <1>3, <1>4

\* A cutover moves the session to a new connection, on which it replays whatever
\* the process that the connection is to does not know.
LEMMA CommittedKeeps ==
    ASSUME NEW s \in Session, NEW x, NEW r \in Route, Sound(x), Keeps(s, x),
           CanCommit(x, r),
           x.current # None /\ x.current.route = r => x.current.adopted,
           x.current # None /\ Accepted(x) => x.current.route = r,
           transfer # None /\ serving[r.endpoint] = r.epoch =>
              ToSet(transfer.game[s]) \subseteq ToSet(game[r.endpoint][s])
    PROVE  Keeps(s, Committed(x, r)) /\ ContinuesOn(x, Committed(x, r), r)
<1>1. CASE OnRoute(x, r)
  BY <1>1 DEF Committed, Continues, ContinuesOn
<1>2. CASE ~OnRoute(x, r) /\ x.state = "closed"
  <2>1. PICK y : y = [x EXCEPT !.prepared = None]
    OBVIOUS
  <2>2. /\ y.state = x.state
        /\ y.received = x.received /\ y.acked = x.acked /\ y.shadow = x.shadow
        /\ y.verifying = x.verifying /\ y.ack = x.ack /\ y.wire = x.wire
        /\ y.current = x.current /\ y.frozen = x.frozen
    BY <2>1 DEF Sound, GatewaySession
  <2>3. y = Committed(x, r)
    BY <1>2, <2>1 DEF Committed
  <2> QED BY <2>2, <2>3, StillKeeps DEF ContinuesOn
<1>3. CASE ~OnRoute(x, r) /\ x.state # "closed"
  <2> DEFINE w == IF x.prepared.up = "open" THEN Sorted(Replayed(x)) ELSE <<>>
             n == IF Replayed(x) = {} THEN x.acked ELSE x.received
             c == [route |-> r, adopted |-> TRUE, up |-> x.prepared.up, sent |-> n]
             k == \/ x.closing
                  \/ x.current # None /\ x.current.adopted /\ x.current.up = "open"
  <2>1. /\ x \in GatewaySession
        /\ x.state \in {"open", "joined"} /\ x.current # None
    BY <1>3 DEF CanCommit, Sound, GatewaySession, Connects
  <2>2. Committed(x, r) =
          [x EXCEPT !.current = c, !.prepared = None, !.frozen = FALSE, !.wire = w,
                    !.ack = 0, !.shadow = Replayed(x), !.verifying = TRUE,
                    !.closing = k]
    BY <1>3, <2>1 DEF Committed, GatewaySession
  <2>3. PICK y : y = Committed(x, r)
    OBVIOUS
  <2>4. PICK d : d = c
    OBVIOUS
  <2>5. PICK v : v = w
    OBVIOUS
  <2>6. /\ y.state = x.state /\ y.current = d /\ y.wire = v /\ y.ack = 0
        /\ y.shadow = Replayed(x) /\ y.verifying
        /\ y.received = x.received /\ y.acked = x.acked
    BY <2>1, <2>2, <2>3, <2>4, <2>5 DEF GatewaySession
  <2>7. /\ d.route = r /\ d.adopted /\ d.sent \in {x.acked, x.received}
        /\ d.up = "open" => v = Sorted(Replayed(x))
        /\ d.up # "open" => v = <<>>
    BY <2>4, <2>5
  <2>8. d # None
    <3>1. x.prepared # None /\ x.prepared \in Prepared
      BY <1>3, <2>1 DEF CanCommit, GatewaySession
    <3>2. n \in Sequence
      BY <2>1 DEF GatewaySession
    <3>3. x.prepared.up \in {"connecting", "open", "closed"}
      BY <3>1 DEF Prepared
    <3> HIDE DEF n
    <3>4. c \in Upstream
      BY <3>2, <3>3 DEF Upstream
    <3> QED BY <2>4, <3>4, NoneAssumption
  <2> HIDE DEF w, n, c, k
  <2>9. /\ x.acked \in Nat /\ x.received \in Nat /\ x.ack \in Nat
        /\ Replayed(x) \in SUBSET Input
        /\ Bounds(x, Recorded(s))
    BY <2>1, BufferInputs DEF Keeps, KeepsDue
  <2>10. Replayed(x) \subseteq 1..x.received
    <3>1. Unacked(x) \subseteq 1..x.received
      BY <2>9 DEF Unacked
    <3> QED BY <2>9, <3>1 DEF Replayed, Bounds
  <2>11. /\ Sorted(Replayed(x)) \in Seq(Input)
         /\ ToSet(Sorted(Replayed(x))) = Replayed(x)
         /\ Increasing(Sorted(Replayed(x)))
    BY <2>9, SortedInputs
  <2>12. ToSet(<<>>) = {} /\ DOMAIN <<>> = {} /\ 1..0 = {}
    BY EmptySeq DEF ToSet
  <2>13. ToSet(v) \subseteq 1..x.received
    BY <2>7, <2>10, <2>11, <2>12
  <2>14. Bounds(y, Recorded(s))
    BY <2>6, <2>7, <2>8, <2>9, <2>10, <2>13 DEF Bounds
  <2>15. x.verifying \/ ~Accepted(x)
    <3>1. ASSUME Accepted(x) PROVE x.verifying
      <4>1. x.current.route = r /\ x.current.adopted /\ x.current.up # "open"
        BY <1>3, <2>1, <3>1 DEF OnRoute
      <4> QED BY <2>1, <4>1 DEF Sound, Connects
    <3> QED BY <3>1
  <2>16. ASSUME NEW D, Retains(x, D, Accepted(x))
         PROVE  (1..x.received) \ Replayed(x) \subseteq D
    <3>1. CASE x.verifying
      BY <2>16, <3>1 DEF Retains, Replayed
    <3>2. CASE ~x.verifying
      <4>1. 1..x.acked \subseteq D
        BY <2>15, <2>16, <3>2 DEF Retains
      <4>2. ASSUME NEW i \in 1..x.received, i \notin Replayed(x)
            PROVE  i \in 1..x.acked
        <5>1. i \notin Unacked(x)
          BY <4>2 DEF Replayed
        <5> QED BY <2>9, <5>1 DEF Unacked
      <4> QED BY <4>1, <4>2
    <3> QED BY <3>1, <3>2
  <2>17. \A e \in Endpoint :
            serving[e] # 0 => Retains(y, Restored(e, s), Accepted(y))
    BY <2>1, <2>6, <2>16 DEF Keeps, KeepsDue, Retains
  <2>18. ASSUME Accepted(y)
         PROVE  /\ SendsDue(y, Known(r.endpoint, s))
                /\ SendsAll(y, Known(r.endpoint, s))
    <3>1. PICK C : C = Known(r.endpoint, s)
      OBVIOUS
    <3>2. serving[r.endpoint] = r.epoch /\ r.endpoint \in Endpoint /\ r.epoch # 0
      <4>1. r.endpoint \in Endpoint /\ r.epoch \in 1..MaxEpoch
        BY DEF Route, Epoch
      <4> QED BY <2>6, <2>7, <2>18, <4>1, BoundAssumption DEF Accepted
    <3>3. (1..x.received) \ Replayed(x) \subseteq Restored(r.endpoint, s)
      BY <2>1, <2>16, <3>2 DEF Keeps, KeepsDue
    <3>4. Restored(r.endpoint, s) \subseteq C
      BY <3>1, <3>2 DEF Restored, Known
    <3>5. 1..x.received \subseteq C \cup Replayed(x)
      BY <3>3, <3>4
    <3>6. 1..x.acked \subseteq 1..x.received
      BY <2>9 DEF Bounds
    <3>7. CASE d.up = "open"
      <4>1. v = Sorted(Replayed(x)) /\ ToSet(v) = Replayed(x)
        BY <2>7, <2>11, <3>7
      <4>2. Covered(v, C)
        BY <2>9, <2>10, <2>11, <3>5, <4>1, CoveredSorted
      <4> QED BY <2>6, <2>7, <2>12, <3>1, <3>5, <3>6, <4>1, <4>2
              DEF SendsDue, SendsAll
    <3>8. CASE d.up # "open"
      BY <2>6, <2>7, <2>12, <3>1, <3>8 DEF SendsDue, SendsAll, Covered
    <3> QED BY <3>7, <3>8
  <2>19. Keeps(s, y)
    BY <2>6, <2>7, <2>14, <2>17, <2>18 DEF Keeps, KeepsDue
  <2> QED BY <2>1, <2>3, <2>6, <2>7, <2>8, <2>19 DEF ContinuesOn
<1> QED BY <1>1, <1>2, <1>3

LEMMA ContinuesFollows ==
    ASSUME NEW x, NEW y, Follows(x), Continues(x, y), route \in Route
    PROVE  Follows(y)
<1>1. route.epoch \in Nat
  BY BoundAssumption DEF Route, Epoch
<1> QED BY <1>1 DEF Follows, Continues

LEMMA ContinuesMoves ==
    ASSUME NEW x, NEW y, NEW r, NEW q, Moves(x, q), ContinuesOn(x, y, r)
    PROVE  Moves(y, q)
BY DEF Moves, ContinuesOn, Continues

LEMMA SelectedSessions ==
    ASSUME Base, NEW o \in Operation, operation[o] # None
    PROVE  Selected(o) \subseteq Session
BY DEF Base, TypeOK, Selected, CutoverOperation

\* The operations stay as they are, or fail.
LEMMA SelectsStep ==
    ASSUME Kept, NEW r, NEW o \in Operation,
           \A s \in Session : ContinuesOn(session[s], session'[s], r),
           operation'[o] # None => /\ operation[o] # None
                                   /\ operation'[o].route = operation[o].route
                                   /\ Selected(o)' \subseteq Selected(o)
    PROVE  Selects(o)'
<1> SUFFICES ASSUME operation'[o] # None, NEW s \in Selected(o)'
             PROVE  Moves(session'[s], operation'[o].route)
  BY DEF Selects, Moves
<1>1. s \in Selected(o) /\ s \in Session
  BY SelectedSessions DEF Kept
<1>2. Moves(session[s], operation[o].route)
  BY <1>1 DEF Kept, Selects
<1>3. Moves(session'[s], operation[o].route)
  BY <1>1, <1>2, ContinuesMoves
<1> QED BY <1>3

\* Nothing changes for the processes.
LEMMA SameProcesses ==
    ASSUME NEW s \in Session, UNCHANGED <<serving, game, transfer, left>>
    PROVE  /\ Keeps(s, session'[s]) => Keeps(s, session[s])'
           /\ Games(s) /\ (transfer = None \/ route' = route) => Games(s)'
<1>1. /\ Recorded(s)' = Recorded(s)
      /\ \A e \in Endpoint : /\ Known(e, s)' = Known(e, s)
                             /\ Restored(e, s)' = Restored(e, s)
  BY DEF Recorded, Known, Restored
<1>2. Keeps(s, session'[s]) => Keeps(s, session[s])'
  BY <1>1 DEF Keeps, KeepsDue, Accepted, Bounds, SendsDue, SendsAll, Retains,
              Known, Covered
<1>3. Games(s) /\ (transfer = None \/ route' = route) => Games(s)'
  BY DEF Games, Increasing, Gapless
<1> QED BY <1>2, <1>3

\* A step that changes sessions only.
LEMMA SessionsKept ==
    ASSUME Kept, Base', UNCHANGED <<route, serving, game, transfer, left>>,
           \A s \in Session : /\ Keeps(s, session'[s])
                              /\ Continues(session[s], session'[s]),
           \A o \in Operation : Selects(o)'
    PROVE  Kept'
<1>1. ASSUME NEW s \in Session PROVE Follows(session[s])'
  <2>1. Follows(session'[s])
    BY ContinuesFollows, RouteTypes DEF Kept
  <2> QED BY <2>1 DEF Follows
<1>2. \A s \in Session : Keeps(s, session[s])' /\ Games(s)'
  BY SameProcesses DEF Kept
<1> QED BY <1>1, <1>2 DEF Kept

LEMMA PreparedKeeps ==
    ASSUME NEW s \in Session, NEW x, Sound(x), Keeps(s, x), NEW y,
           \/ \E p : y = [x EXCEPT !.prepared = p]
           \/ \E u : y = [x EXCEPT !.prepared.up = u]
    PROVE  Keeps(s, y) /\ Continues(x, y)
<1>1. PICK p : y = [x EXCEPT !.prepared = p]
  BY DEF Sound, GatewaySession
<1>2. /\ y.state = x.state /\ y.frozen = x.frozen
      /\ y.received = x.received /\ y.acked = x.acked /\ y.shadow = x.shadow
      /\ y.verifying = x.verifying /\ y.ack = x.ack /\ y.wire = x.wire
      /\ y.current = x.current
  BY <1>1 DEF Sound, GatewaySession
<1> QED BY <1>2, StillKeeps

\* A session that does not change keeps what it kept.
LEMMA SameContinues ==
    ASSUME Kept, NEW s \in Session
    PROVE  Keeps(s, session[s]) /\ Continues(session[s], session[s])
BY DEF Kept, Continues

\* A step that changes one session only.
LEMMA OneSessionKept ==
    ASSUME Kept, Base', UNCHANGED <<route, operation, call, serving, game, transfer,
                                    left>>,
           NEW s \in Session, NEW y, session' = [session EXCEPT ![s] = y],
           Keeps(s, y), Continues(session[s], y)
    PROVE  Kept'
<1>1. session \in [Session -> GatewaySession]
  BY DEF Kept, Base, TypeOK
<1>2. \A u \in Session : session'[u] = IF u = s THEN y ELSE session[u]
  BY <1>1
<1>3. \A u \in Session : /\ Keeps(u, session'[u])
                         /\ Continues(session[u], session'[u])
  BY <1>2, SameContinues
<1>4. ASSUME NEW o \in Operation PROVE Selects(o)'
  <2>1. \A u \in Session : ContinuesOn(session[u], session'[u], route)
    BY <1>3 DEF ContinuesOn
  <2>2. operation' = operation /\ Selected(o)' = Selected(o)
    BY DEF Selected
  <2> QED BY <2>1, <2>2, SelectsStep
<1> QED BY <1>3, <1>4, SessionsKept

LEMMA ClosesKept ==
    ASSUME Kept, Base', UNCHANGED <<route, roomVars, processVars>>,
           NEW s \in Session, session' = [session EXCEPT ![s] = Stopped]
    PROVE  Kept'
<1>1. Keeps(s, Stopped) /\ Continues(session[s], Stopped)
  BY StoppedKeeps
<1> QED BY <1>1, OneSessionKept DEF roomVars, processVars

LEMMA BrowserKept ==
    ASSUME Kept, Base', NEW s \in Session, Browser(s)
    PROVE  Kept'
<1>0. PICK x : x = session[s]
  OBVIOUS
<1>1. Sound(x) /\ Keeps(s, x) /\ route \in Route
  BY <1>0 DEF Kept, Base, TypeOK
<1>2. CASE Open(s)
  <2>1. PICK y : y = [x EXCEPT !.state = "open", !.starting = TRUE,
                               !.current = [route |-> route, adopted |-> FALSE,
                                            up |-> "connecting", sent |-> 0]]
    OBVIOUS
  <2>2. Keeps(s, y) /\ Continues(x, y)
    BY <1>0, <1>1, <1>2, <2>1, OpenedKeeps DEF Open
  <2>3. session' = [session EXCEPT ![s] = y]
    BY <1>0, <1>2, <2>1 DEF Open
  <2> QED BY <1>0, <1>2, <2>2, <2>3, OneSessionKept DEF Open, roomVars, processVars
<1>3. CASE Join(s)
  <2>1. PICK y : y = [x EXCEPT !.state = "joined"]
    OBVIOUS
  <2>2. /\ y.state = "joined" /\ x.state = "open" /\ y.frozen = x.frozen
        /\ y.received = x.received /\ y.acked = x.acked /\ y.shadow = x.shadow
        /\ y.verifying = x.verifying /\ y.ack = x.ack /\ y.wire = x.wire
        /\ y.current = x.current
    BY <1>0, <1>1, <1>3, <2>1 DEF Join, Sound, GatewaySession
  <2>3. Keeps(s, y) /\ Continues(x, y)
    BY <1>1, <2>2, StillKeeps
  <2>4. session' = [session EXCEPT ![s] = y]
    BY <1>0, <1>3, <2>1 DEF Join
  <2> QED BY <1>0, <1>3, <2>3, <2>4, OneSessionKept DEF Join, roomVars, processVars
<1>4. CASE Receive(s)
  <2>1. PICK y : y = WithInput(x)
    OBVIOUS
  <2>2. x.state = "joined" /\ x.received + 1 <= MaxInput
    BY <1>0, <1>4 DEF Receive
  <2>3. Keeps(s, y) /\ Continues(x, y)
    BY <1>1, <2>1, <2>2, ReceivedKeeps
  <2>4. session' = [session EXCEPT ![s] = y]
    BY <1>0, <1>4, <2>1 DEF Receive, WithInput
  <2> QED BY <1>0, <1>4, <2>3, <2>4, OneSessionKept DEF Receive, roomVars, processVars
<1>5. CASE Overflow(s)
  BY <1>5, ClosesKept DEF Overflow
<1>6. CASE SessionCloses(s)
  BY <1>6, ClosesKept DEF SessionCloses
<1> QED BY <1>2, <1>3, <1>4, <1>5, <1>6 DEF Browser

LEMMA ConnectionKept ==
    ASSUME Kept, Base', NEW s \in Session, Connection(s)
    PROVE  Kept'
<1>0. PICK x : x = session[s]
  OBVIOUS
<1>1. Sound(x) /\ Keeps(s, x)
  BY <1>0 DEF Kept, Base
<1>2. CASE Connected(s)
  <2>1. PICK y : y = Flushed([x EXCEPT !.starting = FALSE, !.current.up = "open"])
    OBVIOUS
  <2>2. Keeps(s, y) /\ Continues(x, y)
    BY <1>0, <1>1, <1>2, <2>1, ConnectedKeeps DEF Connected
  <2>3. session' = [session EXCEPT ![s] = y]
    BY <1>0, <1>2, <2>1 DEF Connected
  <2> QED BY <1>0, <1>2, <2>2, <2>3, OneSessionKept DEF Connected, roomVars, processVars
<1>3. CASE StartFails(s)
  BY <1>3, ClosesKept DEF StartFails
<1>4. CASE AckArrives(s)
  <2>1. PICK y : y = [x EXCEPT !.acked = IF @ < x.ack THEN x.ack ELSE @, !.ack = 0]
    OBVIOUS
  <2>2. Keeps(s, y) /\ Continues(x, y)
    BY <1>0, <1>1, <1>4, <2>1, AckedKeeps DEF AckArrives
  <2>3. session' = [session EXCEPT ![s] = y]
    BY <1>0, <1>4, <2>1 DEF AckArrives
  <2> QED BY <1>0, <1>4, <2>2, <2>3, OneSessionKept DEF AckArrives, roomVars, processVars
<1>5. CASE UpstreamCloses(s)
  <2>1. x.current # None
    BY <1>0, <1>1, <1>5 DEF UpstreamCloses, Live, Sound, Connects
  <2>2. Keeps(s, Disconnected(x)) /\ Continues(x, Disconnected(x))
    BY <1>1, <2>1, DisconnectedKeeps
  <2>3. session' = [session EXCEPT ![s] = Disconnected(x)]
    BY <1>0, <1>5 DEF UpstreamCloses
  <2> QED BY <1>0, <1>5, <2>2, <2>3, OneSessionKept
          DEF UpstreamCloses, roomVars, processVars
<1>6. CASE PreparedCloses(s)
  <2>1. PICK y : y = [x EXCEPT !.prepared.up = "closed"]
    OBVIOUS
  <2>2. Keeps(s, y) /\ Continues(x, y)
    BY <1>1, <2>1, PreparedKeeps
  <2>3. session' = [session EXCEPT ![s] = y]
    BY <1>0, <1>6, <2>1 DEF PreparedCloses
  <2> QED BY <1>0, <1>6, <2>2, <2>3, OneSessionKept
          DEF PreparedCloses, roomVars, processVars
<1>7. CASE ReplacedCloses(s)
  BY <1>7, ClosesKept DEF ReplacedCloses
<1> QED BY <1>2, <1>3, <1>4, <1>5, <1>6, <1>7 DEF Connection

\* A process takes the first input of w, when it knows the inputs in L besides
\* those that it has processed.
LEMMA PlayedSequence ==
    ASSUME NEW q \in Seq(Input), Increasing(q), NEW L, Gapless(q, L),
           NEW w \in Seq(Input), w # <<>>, Covered(w, ToSet(q) \cup L), NEW r,
           r = IF IsNew(Head(w), q) THEN Append(q, Head(w)) ELSE q
    PROVE  /\ r \in Seq(Input) /\ Increasing(r) /\ Gapless(r, L)
           /\ ToSet(q) \subseteq ToSet(r) /\ ToSet(r) \subseteq ToSet(q) \cup {Head(w)}
           /\ LastProcessed(r) \in Nat
           /\ LastProcessed(r) = 0 \/ LastProcessed(r) \in ToSet(r)
           /\ 1..LastProcessed(r) \subseteq ToSet(r) \cup L
           /\ Covered(Tail(w), ToSet(r) \cup L)
           /\ Head(w) \in ToSet(r) \cup L
<1>1. PICK n : n = Head(w)
  OBVIOUS
<1>2. n \in Input /\ n \in Nat /\ n >= 1
  BY <1>1, TailElements, BoundAssumption DEF Input
<1>3. /\ r \in Seq(Input) /\ Increasing(r) /\ LastProcessed(r) \in Sequence
      /\ IsNew(n, q) => ToSet(r) = ToSet(q) \cup {n}
      /\ ~IsNew(n, q) => r = q
  BY <1>1, <1>2, PlayedInputs
<1>4. LastProcessed(r) \in Nat /\ LastProcessed(q) \in Nat
  BY <1>3, LastIsGreatest, BoundAssumption DEF Sequence
<1>5. r = <<>> => LastProcessed(r) = 0
  BY DEF LastProcessed
<1>6. LastProcessed(r) = 0 \/ LastProcessed(r) \in ToSet(r)
  BY <1>3, <1>5, LastIsGreatest
<1>7. ToSet(q) \subseteq ToSet(r) /\ ToSet(r) \subseteq ToSet(q) \cup {n}
  BY <1>3
<1>8. n \in ToSet(r) \cup L
  <2>1. CASE IsNew(n, q)
    BY <1>3, <2>1
  <2>2. CASE ~IsNew(n, q)
    <3>1. n \in 1..LastProcessed(q) /\ LastProcessed(q) # 0
      BY <1>2, <1>4, <2>2 DEF IsNew
    <3>2. LastProcessed(q) \in ToSet(q)
      BY <3>1, LastIsGreatest DEF LastProcessed
    <3>3. 1..LastProcessed(q) \subseteq ToSet(q) \cup L
      BY <3>2 DEF Gapless
    <3> QED BY <1>7, <3>1, <3>3
  <2> QED BY <2>1, <2>2
<1>9. /\ Covered(Tail(w), ToSet(r) \cup L)
      /\ 1..n \subseteq ToSet(q) \cup L \cup {n}
  <2>1. ToSet(q) \cup L \subseteq ToSet(r) \cup L
    BY <1>7
  <2> QED BY <1>1, <1>8, <2>1, CoveredTail
<1>10. Gapless(r, L)
  <2>1. ASSUME NEW m \in ToSet(r) PROVE 1..m \subseteq ToSet(r) \cup L
    <3>1. CASE m \in ToSet(q)
      BY <1>7, <3>1 DEF Gapless
    <3>2. CASE m = n
      BY <1>7, <1>8, <1>9, <3>2
    <3> QED BY <1>7, <3>1, <3>2
  <2> QED BY <2>1 DEF Gapless
<1>11. 1..LastProcessed(r) \subseteq ToSet(r) \cup L
  <2>1. CASE LastProcessed(r) = 0
    <3>1. 1..0 = {}
      OBVIOUS
    <3> QED BY <2>1, <3>1
  <2>2. CASE LastProcessed(r) \in ToSet(r)
    BY <1>10, <2>2 DEF Gapless
  <2> QED BY <1>6, <2>1, <2>2
<1> QED BY <1>1, <1>3, <1>4, <1>6, <1>7, <1>8, <1>9, <1>10, <1>11

\* The process has acknowledged the input.
LEMMA ProcessedKeeps ==
    ASSUME NEW x, Sound(x), x.wire # <<>>, NEW C, NEW D, SendsDue(x, C), SendsAll(x, C),
           C \subseteq D, Head(x.wire) \in D, NEW l \in Nat, 1..l \subseteq D,
           Covered(Tail(x.wire), D),
           NEW y, y = [x EXCEPT !.wire = Tail(@), !.ack = l]
    PROVE  SendsDue(y, D) /\ SendsAll(y, D)
<1>1. /\ y.wire = Tail(x.wire) /\ y.ack = l
      /\ y.current = x.current /\ y.frozen = x.frozen
      /\ y.received = x.received /\ y.acked = x.acked
  BY DEF Sound, GatewaySession
<1>2. ToSet(x.wire) \subseteq D \cup ToSet(y.wire)
  <2>1. x.wire \in Seq(Input)
    BY WireInputs DEF Sound
  <2> QED BY <1>1, <2>1, TailElements
<1> QED BY <1>1, <1>2 DEF SendsDue, SendsAll

\* What a session keeps in the next state.
LEMMA KeepsNext ==
    ASSUME NEW s \in Session, NEW y, session'[s] = y, Bounds(y, Recorded(s)'),
           y.current # None =>
              /\ Accepted(y)' =>
                    /\ SendsDue(y, Known(y.current.route.endpoint, s)')
                    /\ SendsAll(y, Known(y.current.route.endpoint, s)')
              /\ \A e \in Endpoint :
                    serving'[e] # 0 => Retains(y, Restored(e, s)', Accepted(y)')
    PROVE  Keeps(s, session[s])'
BY DEF Keeps, KeepsDue, Accepted, Bounds, SendsDue, SendsAll, Retains, Covered,
       Known, Restored, Recorded

LEMMA ProcessKept ==
    ASSUME Kept, Base', NEW s \in Session, Process(s)
    PROVE  Kept'
<1>0. PICK x : x = session[s]
  OBVIOUS
<1>1. /\ Sound(x) /\ Keeps(s, x) /\ x \in GatewaySession
      /\ game \in [Endpoint -> Game] /\ session \in [Session -> GatewaySession]
  BY <1>0 DEF Kept, Base, TypeOK, Sound
<1>2. /\ x.wire # <<>> /\ x.current # None /\ x.current \in Upstream
      /\ x.wire \in Seq(Input) /\ x.state # "closed"
  BY <1>0, <1>1 DEF Process, Processes, Rejects, Sound, Connects, GatewaySession
<1>3. CASE Rejects(s)
  <2>1. Keeps(s, Disconnected(x)) /\ Continues(x, Disconnected(x))
    BY <1>1, <1>2, DisconnectedKeeps
  <2>2. session' = [session EXCEPT ![s] = Disconnected(x)]
    BY <1>0, <1>3 DEF Rejects
  <2> QED BY <1>0, <1>3, <2>1, <2>2, OneSessionKept DEF Rejects, roomVars, processVars
<1>4. CASE Processes(s)
  <2>1. PICK e : e = x.current.route.endpoint
    OBVIOUS
  <2>2. e \in Endpoint /\ game[e] \in Game /\ game[e][s] \in Seq(Input)
    BY <1>1, <1>2, <2>1 DEF Upstream, Route, Game
  <2>3. PICK q : q = game[e][s]
    OBVIOUS
  <2>4. PICK r : r = IF IsNew(Head(x.wire), q) THEN Append(q, Head(x.wire)) ELSE q
    OBVIOUS
  <2>5. PICK y : y = [x EXCEPT !.wire = Tail(@), !.ack = LastProcessed(r)]
    OBVIOUS
  <2>6. /\ game' = [game EXCEPT ![e][s] = r]
        /\ session' = [session EXCEPT ![s] = y]
        /\ Accepted(x)
        /\ UNCHANGED <<route, preparation, verification, operation, call, transfer,
                       serving, left>>
    BY <1>0, <1>4, <2>1, <2>3, <2>4, <2>5 DEF Processes, roomVars
  <2>7. /\ SendsDue(x, Known(e, s)) /\ SendsAll(x, Known(e, s))
        /\ Increasing(q) /\ Gapless(q, left[s])
        /\ Covered(x.wire, Known(e, s))
        /\ Known(e, s) = ToSet(q) \cup left[s]
    BY <1>1, <1>2, <2>1, <2>2, <2>3, <2>6 DEF Kept, Keeps, KeepsDue, Games, SendsDue, Known
  <2>8. /\ r \in Seq(Input) /\ Increasing(r) /\ Gapless(r, left[s])
        /\ ToSet(q) \subseteq ToSet(r) /\ ToSet(r) \subseteq ToSet(q) \cup {Head(x.wire)}
        /\ LastProcessed(r) \in Nat
        /\ LastProcessed(r) = 0 \/ LastProcessed(r) \in ToSet(r)
        /\ 1..LastProcessed(r) \subseteq ToSet(r) \cup left[s]
        /\ Covered(Tail(x.wire), ToSet(r) \cup left[s])
        /\ Head(x.wire) \in ToSet(r) \cup left[s]
    <3>1. q \in Seq(Input) /\ Covered(x.wire, ToSet(q) \cup left[s])
      BY <2>2, <2>3, <2>7
    <3>2. PICK L : L = left[s]
      OBVIOUS
    <3>3. PICK w : w = x.wire
      OBVIOUS
    <3>4. /\ Increasing(q) /\ Gapless(q, L) /\ Covered(w, ToSet(q) \cup L)
          /\ w \in Seq(Input) /\ w # <<>>
          /\ r = IF IsNew(Head(w), q) THEN Append(q, Head(w)) ELSE q
      BY <1>2, <2>4, <2>7, <3>1, <3>2, <3>3
    <3>5. /\ r \in Seq(Input) /\ Increasing(r) /\ Gapless(r, L)
          /\ ToSet(q) \subseteq ToSet(r) /\ ToSet(r) \subseteq ToSet(q) \cup {Head(w)}
          /\ LastProcessed(r) \in Nat
          /\ LastProcessed(r) = 0 \/ LastProcessed(r) \in ToSet(r)
          /\ 1..LastProcessed(r) \subseteq ToSet(r) \cup L
          /\ Covered(Tail(w), ToSet(r) \cup L)
          /\ Head(w) \in ToSet(r) \cup L
      BY <3>1, <3>4, PlayedSequence
    <3> QED BY <3>2, <3>3, <3>5
  <2>9. \A f \in Endpoint, u \in Session :
           game'[f][u] = IF f = e /\ u = s THEN r ELSE game[f][u]
    <3>1. \A f \in Endpoint : game[f] \in [Session -> Seq(Input)]
      BY <1>1 DEF Game
    <3> QED BY <1>1, <2>2, <2>6, <3>1
  <2>10. \A u \in Session : session'[u] = IF u = s THEN y ELSE session[u]
    BY <1>1, <2>6
  <2>11. /\ y.wire = Tail(x.wire) /\ y.ack = LastProcessed(r)
         /\ y.current = x.current /\ y.frozen = x.frozen /\ y.state = x.state
         /\ y.received = x.received /\ y.acked = x.acked
         /\ y.shadow = x.shadow /\ y.verifying = x.verifying
    BY <1>1, <2>5 DEF GatewaySession
  <2>12. ASSUME NEW u \in Session PROVE Games(u)'
    <3>1. Games(u)
      BY DEF Kept
    <3>2. CASE u = s
      <4>1. \A f \in Endpoint : /\ Increasing(game'[f][s])
                                /\ Gapless(game'[f][s], left[s])
        BY <2>8, <2>9, <3>1, <3>2 DEF Games
      <4>2. \A f \in Endpoint : ToSet(game[f][s]) \subseteq ToSet(game'[f][s])
        BY <2>3, <2>8, <2>9
      <4>3. route.endpoint \in Endpoint
        BY RouteTypes DEF Kept
      <4> QED BY <2>6, <3>1, <3>2, <4>1, <4>2, <4>3 DEF Games, Increasing, Gapless
    <3>3. CASE u # s
      <4>1. \A f \in Endpoint : game'[f][u] = game[f][u]
        BY <2>9, <3>3
      <4>2. route.endpoint \in Endpoint
        BY RouteTypes DEF Kept
      <4> QED BY <2>6, <3>1, <4>1, <4>2 DEF Games, Increasing, Gapless
    <3> QED BY <3>2, <3>3
  <2>13. ASSUME NEW u \in Session, u # s PROVE Keeps(u, session[u])'
    <3>1. Keeps(u, session[u]) /\ session'[u] = session[u]
      BY <2>10, <2>13 DEF Kept
    <3>2. \A f \in Endpoint : game'[f][u] = game[f][u]
      BY <2>9, <2>13
    <3>3. /\ Recorded(u)' = Recorded(u)
          /\ \A f \in Endpoint : /\ Known(f, u)' = Known(f, u)
                                 /\ Restored(f, u)' = Restored(f, u)
      BY <2>6, <3>2 DEF Recorded, Known, Restored
    <3>4. session[u].current # None => session[u].current.route.endpoint \in Endpoint
      BY DEF Kept, Base, TypeOK, GatewaySession, Upstream, Route
    <3>5. PICK z : z = session[u]
      OBVIOUS
    <3>6. Accepted(z)' = Accepted(z)
      BY <2>6 DEF Accepted
    <3> QED BY <2>6, <3>1, <3>3, <3>4, <3>5, <3>6, KeepsNext DEF Keeps, KeepsDue
  <2>14. Keeps(s, session[s])'
    <3>1. /\ Known(e, s)' = ToSet(r) \cup left[s]
          /\ \A f \in Endpoint : Restored(f, s) \subseteq Restored(f, s)'
          /\ Recorded(s)' \subseteq Recorded(s) \cup {Head(x.wire)}
          /\ ToSet(r) \subseteq Recorded(s)'
      <4>1. \A f \in Endpoint :
               /\ ToSet(game[f][s]) \subseteq ToSet(game'[f][s])
               /\ ToSet(game'[f][s]) \subseteq ToSet(game[f][s]) \cup {Head(x.wire)}
        BY <2>3, <2>8, <2>9
      <4>2. game'[e][s] = r
        BY <2>2, <2>9
      <4> QED BY <2>2, <2>6, <4>1, <4>2 DEF Known, Restored, Recorded
    <3>2. SendsDue(y, Known(e, s)') /\ SendsAll(y, Known(e, s)')
      <4>1. Known(e, s) \subseteq ToSet(r) \cup left[s]
        BY <2>7, <2>8
      <4> QED BY <1>1, <1>2, <2>5, <2>7, <2>8, <3>1, <4>1, ProcessedKeeps
    <3>3. Bounds(y, Recorded(s)')
      <4>1. x.received \in Nat /\ ToSet(x.wire) = ToSet(y.wire) \cup {Head(x.wire)}
        BY <1>1, <1>2, <2>11, TailElements, BufferInputs
      <4>2. Bounds(x, Recorded(s))
        BY <1>1 DEF Keeps, KeepsDue
      <4>3. Recorded(s)' \subseteq 1..x.received
        BY <1>2, <3>1, <4>1, <4>2 DEF Bounds
      <4>4. y.ack <= x.received
        BY <2>8, <2>11, <3>1, <4>1, <4>3
      <4> QED BY <2>11, <4>1, <4>2, <4>3, <4>4 DEF Bounds
    <3>4. Accepted(y)' /\ Accepted(x)
      BY <2>6, <2>11 DEF Accepted
    <3>5. ASSUME NEW f \in Endpoint, serving'[f] # 0
          PROVE  Retains(y, Restored(f, s)', Accepted(y)')
      <4>1. Retains(x, Restored(f, s), Accepted(x))
        BY <1>1, <1>2, <2>6, <3>5 DEF Keeps, KeepsDue
      <4> QED BY <2>11, <3>1, <3>4, <4>1 DEF Retains
    <3>6. session'[s] = y /\ y.current.route.endpoint = e
      BY <2>1, <2>10, <2>11
    <3> QED BY <3>2, <3>3, <3>5, <3>6, KeepsNext
  <2>15. \A u \in Session : Continues(session[u], session'[u])
    BY <1>0, <1>2, <2>10, <2>11 DEF Continues
  <2>16. ASSUME NEW u \in Session PROVE Follows(session[u])'
    <3>1. Follows(session'[u])
      BY <2>15, ContinuesFollows, RouteTypes DEF Kept
    <3> QED BY <2>6, <3>1 DEF Follows
  <2>17. ASSUME NEW o \in Operation PROVE Selects(o)'
    <3>1. \A u \in Session : ContinuesOn(session[u], session'[u], route)
      BY <2>15 DEF ContinuesOn
    <3>2. operation' = operation /\ Selected(o)' = Selected(o)
      BY <2>6 DEF Selected
    <3> QED BY <3>1, <3>2, SelectsStep
  <2> QED BY <2>12, <2>13, <2>14, <2>16, <2>17 DEF Kept
<1> QED BY <1>3, <1>4 DEF Process

LEMMA KeptInit == Init => Kept
<1> SUFFICES ASSUME Init PROVE Kept
  OBVIOUS
<1>1. Base
  BY BaseInit
<1>2. ToSet(<<>>) = {} /\ DOMAIN <<>> = {}
  BY EmptySeq DEF ToSet
<1>3. /\ transfer = None
      /\ \A e \in Endpoint, s \in Session : game[e][s] = <<>>
      /\ \A o \in Operation : operation[o] = None
  BY DEF Init
<1>4. ASSUME NEW s \in Session PROVE Keeps(s, session[s]) /\ Follows(session[s])
  <2>1. PICK x : x = session[s]
    OBVIOUS
  <2>2. /\ x.current = None /\ x.acked = 0 /\ x.received = 0
        /\ x.ack = 0 /\ x.shadow = {} /\ x.wire = <<>> /\ ~x.verifying
    BY <2>1 DEF Init, Blank
  <2>3. Recorded(s) = {}
    BY <1>2, <1>3 DEF Recorded
  <2>4. Bounds(x, Recorded(s))
    BY <1>2, <2>2, <2>3 DEF Bounds
  <2> QED BY <2>1, <2>2, <2>4 DEF Keeps, KeepsDue, Follows
<1>5. \A s \in Session : Games(s)
  BY <1>2, <1>3 DEF Games, Increasing, Gapless
<1>6. \A o \in Operation : Selects(o)
  BY <1>3 DEF Selects
<1> QED BY <1>1, <1>4, <1>5, <1>6 DEF Kept

\* A step that changes sessions, and at most the operation o.
LEMMA OperationKept ==
    ASSUME Kept, Base', UNCHANGED <<route, serving, game, transfer, left>>,
           \A s \in Session : /\ Keeps(s, session'[s])
                              /\ Continues(session[s], session'[s]),
           NEW o \in Operation, Selects(o)',
           \A p \in Operation : p # o => /\ operation'[p] = operation[p]
                                         /\ call'[p] = call[p]
    PROVE  Kept'
<1>1. \A s \in Session : ContinuesOn(session[s], session'[s], route)
  BY DEF ContinuesOn
<1>2. ASSUME NEW p \in Operation, p # o PROVE Selects(p)'
  <2>1. operation'[p] = operation[p] /\ Selected(p)' = Selected(p)
    BY <1>2 DEF Selected
  <2> QED BY <1>1, <2>1, SelectsStep
<1>3. \A p \in Operation : Selects(p)'
  BY <1>2
<1> QED BY <1>3, SessionsKept

\* A step that changes sessions, and what is not said of an operation here.
LEMMA RoomKept ==
    ASSUME Kept, Base', UNCHANGED <<route, operation, call, serving, game, transfer,
                                    left>>,
           \A s \in Session : /\ Keeps(s, session'[s])
                              /\ Continues(session[s], session'[s])
    PROVE  Kept'
<1>1. \A s \in Session : ContinuesOn(session[s], session'[s], route)
  BY DEF ContinuesOn
<1>2. ASSUME NEW p \in Operation PROVE Selects(p)'
  <2>1. operation'[p] = operation[p] /\ Selected(p)' = Selected(p)
    BY DEF Selected
  <2> QED BY <1>1, <2>1, SelectsStep
<1> QED BY <1>2, SessionsKept

LEMMA ResumedKept ==
    ASSUME Kept, NEW ss, session' = After(Resumed, ss), NEW s \in Session
    PROVE  Keeps(s, session'[s]) /\ Continues(session[s], session'[s])
<1>1. session'[s] = IF s \in ss THEN Resumed(session[s]) ELSE session[s]
  BY DEF After
<1>2. Sound(session[s]) /\ Keeps(s, session[s])
  BY DEF Kept, Base
<1> QED BY <1>1, <1>2, ResumedKeeps, SameContinues

LEMMA PreparationEndsKept ==
    ASSUME Kept, Base', PreparationEnds
    PROVE  Kept'
<1>1. session' = After(Resumed, preparation.sessions \cap Live)
  BY DEF PreparationEnds, AbortPreparation
<1>2. \A s \in Session : /\ Keeps(s, session'[s])
                         /\ Continues(session[s], session'[s])
  BY <1>1, ResumedKept
<1> QED BY <1>2, RoomKept DEF PreparationEnds, processVars

LEMMA FreezeKept ==
    ASSUME Kept, Base', NEW o \in Operation, NEW p \in Operation, Freeze(o, p)
    PROVE  Kept'
<1>1. ASSUME NEW s \in Session
      PROVE  Keeps(s, session'[s]) /\ Continues(session[s], session'[s])
  <2>1. PICK x : x = session[s]
    OBVIOUS
  <2>2. Sound(x) /\ Keeps(s, x)
    BY <2>1 DEF Kept, Base
  <2>3. PICK y : y = [x EXCEPT !.frozen = TRUE]
    OBVIOUS
  <2>4. session'[s] = IF s \in Live THEN y ELSE x
    BY <2>1, <2>3 DEF Freeze, After
  <2>5. /\ y.state = x.state /\ y.frozen
        /\ y.received = x.received /\ y.acked = x.acked /\ y.shadow = x.shadow
        /\ y.verifying = x.verifying /\ y.ack = x.ack /\ y.wire = x.wire
        /\ y.current = x.current
    BY <2>2, <2>3 DEF Sound, GatewaySession
  <2>6. Keeps(s, y) /\ Continues(x, y)
    BY <2>2, <2>5, StillKeeps
  <2> QED BY <2>1, <2>4, <2>6, SameContinues
<1> QED BY <1>1, RoomKept DEF Freeze, processVars

\* The sessions that are verified have a connection to the Active.
LEMMA FinalizeKept ==
    ASSUME Kept, Base', Finalize
    PROVE  Kept'
<1>1. ASSUME NEW s \in Session
      PROVE  Keeps(s, session'[s]) /\ Continues(session[s], session'[s])
  <2>1. PICK x : x = session[s]
    OBVIOUS
  <2>2. Sound(x) /\ Keeps(s, x)
    BY <2>1 DEF Kept, Base
  <2>3. PICK y : y = [x EXCEPT !.verifying = FALSE, !.shadow = {}]
    OBVIOUS
  <2>4. session'[s] = IF s \in verification.sessions THEN y ELSE x
    BY <2>1, <2>3 DEF Finalize, After
  <2>5. ASSUME s \in verification.sessions
        PROVE  Keeps(s, y) /\ Continues(x, y)
    <3>1. x.current # None /\ x.current.route = route
      BY <2>1, <2>5 DEF Finalize, Continuous, OnRoute
    <3>2. Accepted(x)
      BY <3>1 DEF Finalize, Accepted
    <3> QED BY <2>2, <2>3, <3>1, <3>2, FinalizedKeeps
  <2> QED BY <2>1, <2>4, <2>5, SameContinues
<1> QED BY <1>1, RoomKept DEF Finalize, processVars

LEMMA VerificationAgesKept ==
    ASSUME Kept, Base', VerificationAges
    PROVE  Kept'
<1>1. \A s \in Session : /\ Keeps(s, session'[s])
                         /\ Continues(session[s], session'[s])
  BY SameContinues DEF VerificationAges
<1> QED BY <1>1, RoomKept DEF VerificationAges, processVars

LEMMA StutterKept ==
    ASSUME Kept, Base', UNCHANGED vars
    PROVE  Kept'
<1>1. \A s \in Session : /\ Keeps(s, session'[s])
                         /\ Continues(session[s], session'[s])
  BY SameContinues DEF vars
<1> QED BY <1>1, RoomKept DEF vars, roomVars, processVars

\* The sessions that are live when a cutover is asked for move by it: the route,
\* and so every connection, is of an earlier epoch.
LEMMA AskedMoves ==
    ASSUME Kept, NEW o \in Operation, NEW e \in Endpoint, AsksCutover(o, e),
           NEW s \in Live
    PROVE  s \in Session /\ Moves(session[s], Target(o, e))
<1>1. PICK x : x = session[s]
  OBVIOUS
<1>2. s \in Session /\ x.state # "new"
  BY <1>1 DEF Live
<1>3. Follows(x) /\ Base /\ x \in GatewaySession
  BY <1>1, <1>2 DEF Kept, Base, TypeOK
<1>4. Target(o, e).epoch = frozenAt[o] + 1 /\ route.epoch = frozenAt[o]
  BY <1>3, AskedCutover
<1>5. frozenAt[o] \in Nat
  BY <1>3, RouteTypes
<1>6. x.current # None => x.current.route.epoch \in Nat
  BY <1>3, BoundAssumption DEF GatewaySession, Upstream, Route, Epoch
<1>7. Moves(x, Target(o, e))
  BY <1>2, <1>3, <1>4, <1>5, <1>6 DEF Moves, Follows
<1> QED BY <1>1, <1>2, <1>7

\* A cutover of operation o is recorded, with the sessions in ss.
LEMMA RecordedSelects ==
    ASSUME Kept, NEW o \in Operation, NEW r, NEW st, NEW ss \in SUBSET Session,
           operation'[o] = [status |-> st, route |-> r, sessions |-> ss],
           call'[o] \in {ss, None},
           \A s \in ss : /\ Moves(session[s], r)
                         /\ Continues(session[s], session'[s])
    PROVE  Selects(o)'
<1>1. Selected(o)' = ss
  BY NoneAssumption DEF Selected
<1>2. \A s \in ss : Moves(session'[s], r)
  BY ContinuesMoves DEF ContinuesOn
<1> QED BY <1>1, <1>2 DEF Selects, Moves

LEMMA CutoverFailsKept ==
    ASSUME Kept, Base', NEW o \in Operation, NEW ss \in SUBSET Session, NEW r,
           CutoverFails(o, ss, r), \A s \in ss : Moves(session[s], r)
    PROVE  Kept'
<1>1. /\ operation \in [Operation -> CutoverOperation \cup {None}]
      /\ call \in [Operation -> (SUBSET Session) \cup {None}]
  BY DEF Kept, Base, TypeOK
<1>2. \A s \in Session : /\ Keeps(s, session'[s])
                         /\ Continues(session[s], session'[s])
  BY ResumedKept DEF CutoverFails
<1>3. /\ operation'[o] = [status |-> "failed", route |-> r, sessions |-> ss]
      /\ call'[o] = None
      /\ \A p \in Operation : p # o => /\ operation'[p] = operation[p]
                                       /\ call'[p] = call[p]
  BY <1>1 DEF CutoverFails
<1>4. Selects(o)'
  BY <1>2, <1>3, RecordedSelects
<1> QED BY <1>2, <1>3, <1>4, OperationKept DEF CutoverFails, processVars

LEMMA CutoverAskedKept ==
    ASSUME Kept, Base', NEW o \in Operation, NEW e \in Endpoint,
           \/ CutoverUnprepared(o, e)
           \/ CutoverRefused(o, e)
           \/ CutoverBegins(o, e)
    PROVE  Kept'
<1>1. AsksCutover(o, e)
  BY DEF CutoverUnprepared, CutoverRefused, CutoverBegins
<1>2. \A s \in Live : s \in Session /\ Moves(session[s], Target(o, e))
  BY <1>1, AskedMoves
<1>3. CASE CutoverUnprepared(o, e)
  BY <1>2, <1>3, CutoverFailsKept DEF CutoverUnprepared
<1>4. CASE CutoverRefused(o, e)
  <2>1. CutoverFails(o, preparation.sessions \cap Live, Target(o, e))
    BY <1>4 DEF CutoverRefused
  <2> QED BY <1>2, <2>1, CutoverFailsKept
<1>5. CASE CutoverBegins(o, e)
  <2>1. PICK ss : ss = preparation.sessions \cap Live
    OBVIOUS
  <2>2. ss \in SUBSET Session /\ \A s \in ss : Moves(session[s], Target(o, e))
    BY <1>2, <2>1
  <2>3. /\ operation \in [Operation -> CutoverOperation \cup {None}]
        /\ call \in [Operation -> (SUBSET Session) \cup {None}]
    BY DEF Kept, Base, TypeOK
  <2>4. /\ operation'[o] = [status |-> "preparing", route |-> Target(o, e),
                            sessions |-> ss]
        /\ call'[o] = ss
        /\ \A p \in Operation : p # o => /\ operation'[p] = operation[p]
                                         /\ call'[p] = call[p]
    BY <1>5, <2>1, <2>3 DEF CutoverBegins
  <2>5. \A s \in Session : /\ Keeps(s, session'[s])
                           /\ Continues(session[s], session'[s])
    BY <1>5, SameContinues DEF CutoverBegins
  <2>6. Selects(o)'
    BY <2>2, <2>4, <2>5, RecordedSelects
  <2> QED BY <1>5, <2>4, <2>5, <2>6, OperationKept DEF CutoverBegins, processVars
<1> QED BY <1>3, <1>4, <1>5

\* A call that begins again, or ends: it selects no other sessions.
LEMMA CallKept ==
    ASSUME Kept, Base', NEW o \in Operation,
           UNCHANGED <<route, session, operation, processVars>>,
           NEW ss, call' = [call EXCEPT ![o] = ss],
           ss = None \/ ss = operation[o].sessions \/ ss = call[o]
    PROVE  Kept'
<1>1. call \in [Operation -> (SUBSET Session) \cup {None}]
  BY DEF Kept, Base, TypeOK
<1>2. \A s \in Session : /\ Keeps(s, session'[s])
                         /\ Continues(session[s], session'[s])
  BY SameContinues
<1>3. /\ call'[o] = ss
      /\ \A p \in Operation : p # o => call'[p] = call[p]
  BY <1>1
<1>4. Selects(o)'
  <2>1. Selected(o)' \subseteq Selected(o)
    BY <1>3 DEF Selected
  <2>2. \A s \in Session : ContinuesOn(session[s], session'[s], route)
    BY <1>2 DEF ContinuesOn
  <2> QED BY <2>1, <2>2, SelectsStep
<1> QED BY <1>2, <1>3, <1>4, OperationKept DEF processVars

LEMMA CutoverAgainKept ==
    ASSUME Kept, Base', NEW o \in Operation, CutoverAgain(o)
    PROVE  Kept'
<1>1. call \in [Operation -> (SUBSET Session) \cup {None}]
  BY DEF Kept, Base, TypeOK
<1>2. \/ call' = [call EXCEPT ![o] = call[o]]
      \/ call' = [call EXCEPT ![o] = operation[o].sessions]
  BY <1>1 DEF CutoverAgain
<1> QED BY <1>2, CallKept DEF CutoverAgain

LEMMA PrepareKept ==
    ASSUME Kept, Base', NEW t \in Task, Prepare(t)
    PROVE  Kept'
<1>0. PICK s : s = t.session
  OBVIOUS
<1>1. PICK o : o = t.op
  OBVIOUS
<1>2. s \in Session /\ o \in Operation
  BY <1>0, <1>1 DEF Task
<1>3. PICK x : x = session[s]
  OBVIOUS
<1>4. /\ Sound(x) /\ Keeps(s, x)
      /\ session \in [Session -> GatewaySession]
      /\ call \in [Operation -> (SUBSET Session) \cup {None}]
  BY <1>2, <1>3 DEF Kept, Base, TypeOK
<1>5. CASE PrepareConnects(t)
  <2>1. PICK p : p = [route |-> operation[o].route, op |-> o, up |-> "connecting"]
    OBVIOUS
  <2>2. PICK y : y = [x EXCEPT !.prepared = p]
    OBVIOUS
  <2>3. session' = [session EXCEPT ![s] = y]
    BY <1>0, <1>1, <1>3, <1>5, <2>1, <2>2 DEF PrepareConnects
  <2>4. Keeps(s, y) /\ Continues(x, y)
    BY <1>2, <1>4, <2>2, PreparedKeeps
  <2> QED BY <1>2, <1>3, <1>5, <2>3, <2>4, OneSessionKept
          DEF PrepareConnects, processVars
<1>6. CASE PrepareEnds(t)
  <2>1. PICK y : y = [x EXCEPT !.prepared.up = "open"]
    OBVIOUS
  <2>2. session' = [session EXCEPT ![s] = y] \/ session' = [session EXCEPT ![s] = x]
    BY <1>0, <1>3, <1>4, <1>6, <2>1 DEF PrepareEnds
  <2>3. /\ Keeps(s, y) /\ Continues(x, y)
        /\ Keeps(s, x) /\ Continues(x, x)
    BY <1>2, <1>3, <1>4, <2>1, PreparedKeeps, SameContinues
  <2> QED BY <1>2, <1>3, <1>6, <2>2, <2>3, OneSessionKept DEF PrepareEnds, processVars
<1>7. CASE PrepareFails(t)
  <2>1. CASE call[o] # None /\ operation[o].status = "preparing"
    <3>1. PICK ss : ss = call[o]
      OBVIOUS
    <3>2. PICK r : r = operation[o].route
      OBVIOUS
    <3>3. ss \in SUBSET Session /\ operation[o] # None
      BY <1>2, <1>4, <2>1, <3>1 DEF Kept, Base, Cuts
    <3>4. ss \subseteq Selected(o)
      BY <2>1, <3>1 DEF Selected
    <3>5. \A u \in ss : Moves(session[u], r)
      BY <1>2, <3>2, <3>3, <3>4 DEF Kept, Selects
    <3>6. CutoverFails(o, ss, r)
      BY <1>1, <1>7, <2>1, <3>1, <3>2 DEF PrepareFails
    <3> QED BY <1>2, <3>3, <3>5, <3>6, CutoverFailsKept
  <2>2. CASE ~(call[o] # None /\ operation[o].status = "preparing")
    <3>1. /\ call' = [call EXCEPT ![o] = None]
          /\ UNCHANGED <<route, operation, processVars>>
      BY <1>1, <1>7, <2>2 DEF PrepareFails
    <3>2. \/ session' = session
          \/ \E up \in {"open", "closed"} :
                session' = [session EXCEPT ![s].prepared.up = up]
      BY <1>0, <1>1, <1>7, <2>2 DEF PrepareFails
    <3>3. CASE session' = session
      BY <1>2, <3>1, <3>3, CallKept
    <3>4. ASSUME NEW up, session' = [session EXCEPT ![s].prepared.up = up]
          PROVE  Kept'
      <4>1. PICK y : y = [x EXCEPT !.prepared.up = up]
        OBVIOUS
      <4>2. session' = [session EXCEPT ![s] = y]
        BY <1>3, <3>4, <4>1
      <4>3. \A u \in Session : session'[u] = IF u = s THEN y ELSE session[u]
        BY <1>4, <4>2
      <4>4. Keeps(s, y) /\ Continues(x, y)
        BY <1>2, <1>4, <4>1, PreparedKeeps
      <4>5. \A u \in Session : /\ Keeps(u, session'[u])
                               /\ Continues(session[u], session'[u])
        BY <1>3, <4>3, <4>4, SameContinues
      <4>6. /\ call'[o] = None
            /\ \A p \in Operation : p # o => call'[p] = call[p]
        BY <1>2, <1>4, <3>1
      <4>7. Selects(o)'
        <5>1. operation'[o] = operation[o] /\ Selected(o)' \subseteq Selected(o)
          BY <3>1, <4>6 DEF Selected
        <5>2. \A u \in Session : ContinuesOn(session[u], session'[u], route)
          BY <4>5 DEF ContinuesOn
        <5> QED BY <1>2, <5>1, <5>2, SelectsStep
      <4> QED BY <1>2, <3>1, <4>5, <4>6, <4>7, OperationKept DEF processVars
    <3> QED BY <3>2, <3>3, <3>4
  <2> QED BY <2>1, <2>2
<1> QED BY <1>5, <1>6, <1>7 DEF Prepare

\* A checkpoint holds what the process on the route, the only one that is Active,
\* has processed.
LEMMA SaveKept ==
    ASSUME Kept, Base', NEW o \in Operation, Save(o)
    PROVE  Kept'
<1>1. /\ transfer' = [op |-> o, game |-> game[route.endpoint]]
      /\ UNCHANGED <<route, session, operation, call, serving, game, left>>
      /\ route.endpoint \in Endpoint /\ Rest
  BY RouteTypes DEF Save, roomVars, Kept, Rest
<1>2. transfer'.game = game[route.endpoint]
  BY <1>1
<1>3. \A f \in Endpoint : serving[f] # 0 => f = route.endpoint
  BY <1>1, RouteTypes DEF Kept, Base, Authority, Rest
<1>4. ASSUME NEW s \in Session PROVE Keeps(s, session[s])' /\ Games(s)'
  <2>1. Keeps(s, session[s]) /\ Games(s)
    BY DEF Kept
  <2>2. PICK x : x = session[s]
    OBVIOUS
  <2>3. Recorded(s)' \subseteq Recorded(s)
    <3>1. ToSet(transfer'.game[s]) \subseteq UNION {ToSet(game[f][s]) : f \in Endpoint}
      BY <1>1, <1>2
    <3> QED BY <1>1, <3>1 DEF Recorded
  <2>4. ASSUME NEW f \in Endpoint, serving[f] # 0
        PROVE  Restored(f, s) \subseteq Restored(f, s)'
    BY <1>1, <1>2, <1>3, <2>1, <2>4 DEF Restored, Games
  <2>5. \A f \in Endpoint : Known(f, s)' = Known(f, s)
    BY <1>1 DEF Known
  <2>6. Bounds(x, Recorded(s)')
    BY <2>1, <2>2, <2>3 DEF Keeps, KeepsDue, Bounds
  <2>7. Accepted(x)' = Accepted(x) /\ session'[s] = x
    BY <1>1, <2>2 DEF Accepted
  <2>8. x.current # None => x.current.route.endpoint \in Endpoint
    BY <2>2 DEF Kept, Base, TypeOK, GatewaySession, Upstream, Route
  <2>9. ASSUME NEW f \in Endpoint, serving'[f] # 0, x.current # None
        PROVE  Retains(x, Restored(f, s)', Accepted(x)')
    <3>1. Retains(x, Restored(f, s), Accepted(x)) /\ serving[f] # 0
      BY <1>1, <2>1, <2>2, <2>9 DEF Keeps, KeepsDue
    <3> QED BY <2>4, <2>7, <3>1 DEF Retains
  <2>10. Keeps(s, session[s])'
    BY <2>1, <2>2, <2>5, <2>6, <2>7, <2>8, <2>9, KeepsNext DEF Keeps, KeepsDue
  <2>11. Games(s)'
    BY <1>1, <1>2, <2>1 DEF Games, Increasing, Gapless
  <2> QED BY <2>10, <2>11
<1>5. \A s \in Session : Follows(session[s])'
  BY <1>1 DEF Kept, Follows
<1>6. ASSUME NEW p \in Operation PROVE Selects(p)'
  <2>1. \A s \in Session : ContinuesOn(session[s], session'[s], route)
    BY <1>1, SameContinues DEF ContinuesOn
  <2>2. operation' = operation /\ Selected(p)' = Selected(p)
    BY <1>1 DEF Selected
  <2> QED BY <2>1, <2>2, SelectsStep
<1> QED BY <1>4, <1>5, <1>6 DEF Kept

\* The authority moves.  What a session has acknowledged is in the checkpoint, is
\* retained by its verification, or is what the move leaves behind.
LEMMA MoveKept ==
    ASSUME Kept, Base', NEW o \in Operation, NEW a \in Endpoint, NEW b \in Endpoint,
           Move(o, a, b)
    PROVE  Kept'
<1>1. /\ route.endpoint = a /\ serving[a] = route.epoch /\ a # b
      /\ transfer # None /\ transfer' = None
      /\ UNCHANGED <<route, session, operation, call>>
      /\ route.epoch \in Nat \ {0} /\ route \in Route
      /\ \A f \in Endpoint : serving[f] \in Nat
  BY RouteTypes DEF Move, roomVars, Kept
<1>2. \A f \in Endpoint : serving[f] # 0 => f = a
  BY <1>1 DEF Kept, Base, Authority
<1>3. \A f \in Endpoint : serving'[f] = IF f = b THEN route.epoch + 1 ELSE 0
  <2>1. serving \in [Endpoint -> 0..MaxEpoch]
    BY DEF Kept, Base, TypeOK
  <2>2. serving' = [serving EXCEPT ![a] = 0, ![b] = route.epoch + 1]
    BY DEF Move
  <2> QED BY <1>1, <1>2, <2>1, <2>2
<1>4. \A f \in Endpoint : game'[f] = IF f = b THEN transfer.game ELSE game[f]
  BY DEF Move, Kept, Base, TypeOK
<1>5. \A s \in Session : left'[s] = left[s] \cup LeftBehind(s)
  BY DEF Move
<1>6. ASSUME NEW s \in Session PROVE Games(s)'
  <2>1. Games(s)
    BY DEF Kept
  <2>2. \A f \in Endpoint : /\ Increasing(game'[f][s])
                            /\ Gapless(game'[f][s], left[s])
    BY <1>1, <1>4, <2>1 DEF Games
  <2>3. \A q : Gapless(q, left[s]) => Gapless(q, left'[s])
    BY <1>5 DEF Gapless
  <2> QED BY <1>1, <2>2, <2>3 DEF Games, Increasing, Gapless
<1>7. ASSUME NEW s \in Session PROVE Keeps(s, session[s])'
  <2>0. PICK x : x = session[s]
    OBVIOUS
  <2>1. Keeps(s, x) /\ Sound(x) /\ Follows(x) /\ x \in GatewaySession /\ Games(s)
    BY <2>0 DEF Kept, Base, Sound
  <2>2. ASSUME x.current # None
        PROVE  /\ x.current \in Upstream /\ x.current.route.endpoint \in Endpoint
               /\ x.current.route.epoch \in Nat \ {0}
               /\ x.current.route.epoch <= route.epoch
    <3>1. x.current \in Upstream
      BY <2>1, <2>2 DEF GatewaySession
    <3>2. x.current.route.endpoint \in Endpoint /\ x.current.route.epoch \in 1..MaxEpoch
      BY <3>1 DEF Upstream, Route, Epoch
    <3> QED BY <2>1, <2>2, <3>1, <3>2, BoundAssumption DEF Follows
  <2>3. x.current # None => ~Accepted(x)'
    BY <1>1, <1>3, <2>2 DEF Accepted
  <2>4. Recorded(s)' \subseteq Recorded(s)
    <3>1. \A f \in Endpoint : ToSet(game'[f][s]) \subseteq Recorded(s)
      BY <1>1, <1>4 DEF Recorded
    <3>2. Recorded(s)' = UNION {ToSet(game'[f][s]) : f \in Endpoint}
      BY <1>1 DEF Recorded
    <3> QED BY <3>1, <3>2
  <2>5. Bounds(x, Recorded(s)')
    BY <2>1, <2>4 DEF Keeps, KeepsDue, Bounds
  <2>6. Restored(b, s)' = left'[s] \cup ToSet(transfer.game[s])
    BY <1>1, <1>4 DEF Restored
  <2>7. PICK D : D = Restored(b, s)'
    OBVIOUS
  <2>8. Restored(a, s) \subseteq D
    BY <1>1, <1>5, <2>6, <2>7 DEF Restored
  <2>9. ASSUME x.current # None PROVE Retains(x, Restored(a, s), Accepted(x))
    BY <1>1, <2>1, <2>9 DEF Keeps, KeepsDue
  <2>10. ASSUME x.current # None, Accepted(x), ~x.verifying
         PROVE  1..x.acked \subseteq D /\ 1..x.ack \subseteq D
    <3>1. x.current.route.endpoint = a
      BY <1>2, <2>2, <2>10 DEF Accepted
    <3>2. SendsDue(x, Known(a, s))
      BY <2>1, <2>10, <3>1 DEF Keeps, KeepsDue
    <3>3. left'[s] = left[s] \cup Unsaved(s) \cup Resent(x)
      BY <1>5, <2>0, <2>10 DEF LeftBehind, Plays
    <3>4. Known(a, s) \subseteq D
      BY <1>1, <2>6, <2>7, <3>3 DEF Known, Unsaved
    <3>5. 1..x.acked \subseteq Known(a, s) \cup ToSet(x.wire)
      <4>1. x.current.adopted => x.current.up = "open"
        BY <2>1, <2>10 DEF Sound, Connects
      <4> QED BY <3>2, <4>1 DEF SendsDue
    <3>6. ASSUME NEW i \in 1..x.acked, i \in ToSet(x.wire) PROVE i \in D
      <4>1. i <= x.acked
        BY <2>1, BufferInputs
      <4> QED BY <2>6, <2>7, <3>3, <3>6, <4>1 DEF Resent
    <3> QED BY <3>2, <3>4, <3>5, <3>6 DEF SendsDue
  <2>11. ASSUME x.current # None PROVE Retains(x, D, FALSE)
    BY <2>8, <2>9, <2>10, <2>11 DEF Retains
  <2>12. ASSUME NEW f \in Endpoint, serving'[f] # 0, x.current # None
         PROVE  Retains(x, Restored(f, s)', Accepted(x)')
    BY <1>3, <2>3, <2>7, <2>11, <2>12 DEF Retains
  <2>13. session'[s] = x
    BY <1>1, <2>0
  <2> QED BY <2>3, <2>5, <2>12, <2>13, KeepsNext
<1>8. \A s \in Session : Follows(session[s])'
  BY <1>1 DEF Kept, Follows
<1>9. ASSUME NEW p \in Operation PROVE Selects(p)'
  <2>1. \A s \in Session : ContinuesOn(session[s], session'[s], route)
    BY <1>1, SameContinues DEF ContinuesOn
  <2>2. operation' = operation /\ Selected(p)' = Selected(p)
    BY <1>1 DEF Selected
  <2> QED BY <2>1, <2>2, SelectsStep
<1> QED BY <1>6, <1>7, <1>8, <1>9 DEF Kept

\* A connection that the process accepts is on the route, and not when the route is
\* still to be swapped to the process.
LEMMA SwappedAccepted ==
    ASSUME Kept, NEW o \in Operation, call[o] # None,
           MaySwap(o, operation[o].route), NEW s \in Session,
           session[s].current # None, Accepted(session[s])
    PROVE  session[s].current.route = operation[o].route
<1> DEFINE r == operation[o].route
<1>1. PICK x : x = session[s]
  OBVIOUS
<1>2. x.current \in Upstream /\ x.current # None /\ Follows(x)
  BY <1>1 DEF Kept, Base, TypeOK, GatewaySession
<1>3. PICK e : e = x.current.route.endpoint
  OBVIOUS
<1>4. PICK n : n = x.current.route.epoch
  OBVIOUS
<1>5. /\ e \in Endpoint /\ n \in Nat \ {0} /\ serving[e] = n
      /\ n <= route.epoch
      /\ n = route.epoch => x.current.route = route
  <2>1. e \in Endpoint /\ n \in 1..MaxEpoch
    BY <1>2, <1>3, <1>4 DEF Upstream, Route, Epoch
  <2> QED BY <1>1, <1>2, <1>3, <1>4, <2>1, BoundAssumption DEF Accepted, Follows
<1>6. route.epoch \in Nat
  BY RouteTypes DEF Kept
<1>7. n = route.epoch /\ e = route.endpoint
  BY <1>5, <1>6 DEF Kept, Base, Authority
<1>8. \/ r = route
      \/ /\ serving[r.endpoint] = route.epoch + 1
         /\ r.endpoint # route.endpoint
         /\ r.endpoint \in Endpoint
  <2>1. r.endpoint \in Endpoint
    BY SwappedRoute DEF Kept, Route
  <2> QED BY <2>1, SwappedRoute DEF Kept
<1>9. r = route
  BY <1>5, <1>6, <1>7, <1>8 DEF Kept, Base, Authority
<1> QED BY <1>1, <1>5, <1>7, <1>9

\* The route is swapped, and the sessions in ss are moved onto it.
LEMMA SwapKept ==
    ASSUME Kept, Base', NEW o \in Operation, call[o] # None,
           NEW r, r = operation[o].route, MaySwap(o, r), route' = r,
           NEW ss, ss \subseteq call[o], \A s \in ss : CanCommit(session[s], r),
           \A s \in Session :
              session'[s] = IF s \in ss THEN Committed(session[s], r) ELSE session[s],
           NEW st \in {"committed", "registry_committed"},
           operation' = [operation EXCEPT ![o].status = st],
           call' = [call EXCEPT ![o] = None], UNCHANGED processVars
    PROVE  Kept'
<1>1. /\ operation[o] \in CutoverOperation /\ operation[o] # None /\ r \in Route
      /\ \/ r = route
         \/ r.epoch = route.epoch + 1 /\ transfer = None
  BY SwappedRoute, NoneAssumption DEF Kept
<1>2. route.epoch \in Nat /\ r.epoch \in Nat /\ r.endpoint \in Endpoint
  BY <1>1, RouteTypes, BoundAssumption DEF Kept, Route, Epoch
<1>3. /\ operation \in [Operation -> CutoverOperation \cup {None}]
      /\ call \in [Operation -> (SUBSET Session) \cup {None}]
  BY DEF Kept, Base, TypeOK
<1>4. ASSUME NEW s \in Session
      PROVE  /\ Keeps(s, session'[s])
             /\ ContinuesOn(session[s], session'[s], r)
  <2>1. PICK x : x = session[s]
    OBVIOUS
  <2>2. Sound(x) /\ Keeps(s, x) /\ Games(s)
    BY <2>1 DEF Kept, Base
  <2>3. session'[s] = IF s \in ss THEN Committed(x, r) ELSE x
    BY <2>1
  <2>4. CASE s \in ss
    <3>1. s \in Selected(o)
      BY <2>4 DEF Selected
    <3>2. Moves(x, r)
      BY <1>1, <2>1, <3>1 DEF Kept, Selects
    <3>3. x.current # None /\ x.current.route = r => x.current.adopted
      BY <1>2, <3>2 DEF Moves
    <3>4. x.current # None /\ Accepted(x) => x.current.route = r
      BY <2>1, SwappedAccepted
    <3>5. transfer # None /\ serving[r.endpoint] = r.epoch =>
             ToSet(transfer.game[s]) \subseteq ToSet(game[r.endpoint][s])
      BY <1>1, <2>2 DEF Games
    <3>6. CanCommit(x, r)
      BY <2>1, <2>4
    <3>7. Keeps(s, Committed(x, r)) /\ ContinuesOn(x, Committed(x, r), r)
      BY <1>1, <2>2, <3>3, <3>4, <3>5, <3>6, CommittedKeeps
    <3> QED BY <2>1, <2>3, <2>4, <3>7
  <2>5. CASE s \notin ss
    BY <2>1, <2>3, <2>5, SameContinues DEF ContinuesOn
  <2> QED BY <2>4, <2>5
<1>5. ASSUME NEW s \in Session PROVE Keeps(s, session[s])' /\ Games(s)'
  <2>1. Games(s)
    BY DEF Kept
  <2> QED BY <1>1, <1>4, <2>1, SameProcesses DEF processVars
<1>6. ASSUME NEW s \in Session PROVE Follows(session[s])'
  <2>1. PICK x : x = session[s]
    OBVIOUS
  <2>2. PICK y : y = session'[s]
    OBVIOUS
  <2>3. Follows(x) /\ ContinuesOn(x, y, r)
    BY <1>4, <2>1, <2>2 DEF Kept
  <2>4. x.current # None => x.current.route.epoch \in Nat
    BY <2>1, BoundAssumption DEF Kept, Base, TypeOK, GatewaySession, Upstream, Route,
                                 Epoch
  <2>5. y.current # None => /\ y.current.route.epoch <= r.epoch
                            /\ y.current.route.epoch = r.epoch => y.current.route = r
    BY <1>1, <1>2, <2>3, <2>4 DEF Follows, ContinuesOn, Continues
  <2> QED BY <2>2, <2>5 DEF Follows
<1>7. ASSUME NEW p \in Operation PROVE Selects(p)'
  <2>1. /\ operation'[p] # None => operation[p] # None
        /\ operation[p] # None =>
              /\ operation'[p].route = operation[p].route
              /\ operation'[p].sessions = operation[p].sessions
    <3>1. CASE p = o
      BY <1>1, <1>3, <3>1 DEF CutoverOperation
    <3>2. CASE p # o
      BY <1>3, <3>2
    <3> QED BY <3>1, <3>2
  <2>2. call'[p] \in {call[p], None}
    BY <1>3
  <2>3. operation'[p] # None => Selected(p)' \subseteq Selected(p)
    BY <2>1, <2>2 DEF Selected
  <2> QED BY <1>4, <2>1, <2>3, SelectsStep
<1> QED BY <1>5, <1>6, <1>7 DEF Kept

LEMMA CutoverKept ==
    ASSUME Kept, Base', NEW o \in Operation, Cutover(o)
    PROVE  Kept'
<1>1. PICK r : r = operation[o].route
  OBVIOUS
<1>2. CASE CutoverCommits(o)
  <2>1. PICK ss : ss = call[o]
    OBVIOUS
  <2>2. /\ call[o] # None /\ MaySwap(o, r) /\ route' = r /\ ss \subseteq call[o]
        /\ \A s \in ss : CanCommit(session[s], r)
        /\ \A s \in Session :
              session'[s] = IF s \in ss THEN Committed(session[s], r) ELSE session[s]
        /\ operation' = [operation EXCEPT ![o].status = "committed"]
        /\ call' = [call EXCEPT ![o] = None]
        /\ UNCHANGED processVars
    BY <1>1, <1>2, <2>1 DEF CutoverCommits, AllPrepared, After
  <2> QED BY <1>1, <2>2, SwapKept
<1>3. CASE CutoverStopsHalfway(o)
  <2>1. PICK ss \in SUBSET {s \in call[o] : CanCommit(session[s], r)} :
            session' = After(LAMBDA x : Committed(x, r), ss)
    BY <1>1, <1>3 DEF CutoverStopsHalfway, After
  <2>2. /\ call[o] # None /\ MaySwap(o, r) /\ route' = r
        /\ operation' = [operation EXCEPT ![o].status = "registry_committed"]
        /\ call' = [call EXCEPT ![o] = None]
        /\ UNCHANGED processVars
    BY <1>1, <1>3 DEF CutoverStopsHalfway, AllPrepared
  <2>3. /\ ss \subseteq call[o] /\ \A s \in ss : CanCommit(session[s], r)
        /\ \A s \in Session :
              session'[s] = IF s \in ss THEN Committed(session[s], r) ELSE session[s]
    BY <2>1 DEF After
  <2> QED BY <1>1, <2>1, <2>2, <2>3, SwapKept
<1>4. CASE CutoverConflicts(o)
  <2>1. /\ call' = [call EXCEPT ![o] = None]
        /\ UNCHANGED <<route, session, operation, processVars>>
    BY <1>4 DEF CutoverConflicts
  <2> QED BY <2>1, CallKept
<1> QED BY <1>2, <1>3, <1>4 DEF Cutover

LEMMA KeptStep == Kept /\ [Next]_vars => Kept'
<1> SUFFICES ASSUME Kept, [Next]_vars PROVE Kept'
  OBVIOUS
<1>0. Base'
  BY BaseStep DEF Kept
<1>1. ASSUME NEW s \in Session, Browser(s) \/ Connection(s) \/ Process(s)
      PROVE  Kept'
  BY <1>0, <1>1, BrowserKept, ConnectionKept, ProcessKept
<1>2. ASSUME NEW o \in Operation, Orchestrator(o) PROVE Kept'
  <2>1. CASE \E p \in Operation \ {o} : Freeze(o, p)
    BY <1>0, <2>1, FreezeKept
  <2>2. CASE Save(o)
    BY <1>0, <2>2, SaveKept
  <2>3. CASE \E a, b \in Endpoint : Move(o, a, b)
    BY <1>0, <2>3, MoveKept
  <2>4. CASE \E e \in Endpoint :
                CutoverUnprepared(o, e) \/ CutoverRefused(o, e) \/ CutoverBegins(o, e)
    BY <1>0, <2>4, CutoverAskedKept
  <2>5. CASE CutoverAgain(o)
    BY <1>0, <2>5, CutoverAgainKept
  <2> QED BY <1>2, <2>1, <2>2, <2>3, <2>4, <2>5 DEF Orchestrator
<1>3. ASSUME NEW o \in Operation, Cutover(o) PROVE Kept'
  BY <1>0, <1>3, CutoverKept
<1>4. ASSUME NEW t \in Task, Prepare(t) PROVE Kept'
  BY <1>0, <1>4, PrepareKept
<1>5. CASE PreparationEnds \/ Finalize \/ VerificationAges
  BY <1>0, <1>5, PreparationEndsKept, FinalizeKept, VerificationAgesKept
<1>6. CASE UNCHANGED vars
  BY <1>0, <1>6, StutterKept
<1> QED BY <1>1, <1>2, <1>3, <1>4, <1>5, <1>6 DEF Next

\* The inductive invariant: of every session, what the process that it plays on
\* has, what is on its way there, what is retained for the next process, and what
\* has been left behind make up all that the browser has sent.
THEOREM KeptAlways == Spec => []Kept
BY KeptInit, KeptStep, PTL DEF Spec

\* No acknowledged input is lost by the gateway's bookkeeping (the cursor of
\* flushInputs, mergeRollbackInputs, the shadow of a verified session): the
\* authority's game has it, is being sent it, or a transfer left it behind.
THEOREM AckedIsKeptAlways == Spec => []AckedIsKept
<1>1. Kept => AckedIsKept
  <2> SUFFICES ASSUME Kept, NEW s \in Session, Served(session[s])
               PROVE  1..session[s].acked
                         \subseteq ToSet(game[session[s].current.route.endpoint][s])
                                   \cup ToSet(session[s].wire) \cup left[s]
    BY DEF AckedIsKept
  <2>1. SendsDue(session[s], Known(session[s].current.route.endpoint, s))
    BY DEF Kept, Keeps, KeepsDue, Served, Plays
  <2> QED BY <2>1 DEF SendsDue, Known, Served
<1> QED BY <1>1, KeptAlways, PTL

\* Every process plays a session's inputs in the order in which the browser sent
\* them, each at most once, and skips none but those that were left behind: the
\* last processed sequence that a process acknowledges speaks for all before it.
THEOREM PlaysInOrderAlways == Spec => []PlaysInOrder
<1>1. Kept => PlaysInOrder
  <2> SUFFICES ASSUME Kept, NEW e \in Endpoint, NEW s \in Session, NEW q,
                      q = game[e][s]
               PROVE  /\ \A i \in 1..(Len(q) - 1) : q[i] < q[i + 1]
                      /\ 1..LastProcessed(q) \subseteq ToSet(q) \cup left[s]
    BY DEF PlaysInOrder
  <2>1. q \in Seq(Input)
    BY DEF Kept, Base, TypeOK, Game
  <2>2. Increasing(q) /\ Gapless(q, left[s])
    BY DEF Kept, Games
  <2>3. Len(q) \in Nat /\ DOMAIN q = 1..Len(q)
    BY <2>1, LenProperties
  <2>4. \A i \in 1..(Len(q) - 1) : q[i] < q[i + 1]
    BY <2>2, <2>3 DEF Increasing
  <2>5. CASE q = <<>>
    <3>1. LastProcessed(q) = 0 /\ 1..0 = {}
      BY <2>5 DEF LastProcessed
    <3> QED BY <2>4, <3>1
  <2>6. CASE q # <<>>
    <3>1. LastProcessed(q) \in ToSet(q)
      BY <2>1, <2>2, <2>6, LastIsGreatest
    <3> QED BY <2>2, <2>4, <3>1 DEF Gapless
  <2> QED BY <2>5, <2>6
<1> QED BY <1>1, KeptAlways, PTL

-----------------------------------------------------------------------------
(* The sessions follow the route: SessionsFollowRoute.                     *)

\* Operation o has begun its cutover, which is at this status.
Has(o, status) == operation[o] # None /\ operation[o].status = status

\* A cutover has stopped half-way, for a session that has ended since: it cannot be
\* asked for again.
Interrupted ==
    \E o \in Operation :
        /\ Has(o, "registry_committed")
        /\ call[o] = None
        /\ \E s \in operation[o].sessions : session[s].state = "closed"

\* An operation whose cutover has failed has moved the authority away from the
\* route, and nobody moves it again.
Stuck == \A o \in Operation : Has(o, "failed") => mover = o /\ ~Rest

\* The sessions of a cutover in progress are prepared for its route, or will be.
IsPrepared(x, r) == x.prepared # None /\ x.prepared.route = r
WillPrepare(s, o) ==
    \E t \in tasks : t.op = o /\ t.session = s /\ t.phase = "match"
Prepares(o) ==
    Has(o, "preparing") =>
        /\ preparation # None /\ preparation.op = o
        /\ Live \subseteq call[o]
        /\ operation[o].sessions = call[o]
        /\ \A s \in Live :
              \/ IsPrepared(session[s], operation[o].route)
              \/ session[s].prepared = None /\ WillPrepare(s, o)

\* A session is connected to where the route leads; if it is frozen, it is one of
\* the preparation, as are all.
OnItsRoute ==
    /\ preparation # None => Live \subseteq preparation.sessions
    /\ \A s \in Session :
          /\ session[s].frozen => s \in Live /\ preparation # None
          /\ session[s].current # None => session[s].current.route = route

Undisturbed ==
    /\ OnItsRoute
    /\ Stuck
    /\ \A o \in Operation : Prepares(o) /\ ~Has(o, "registry_committed")
    /\ \A t \in tasks : Has(t.op, "preparing") \/ Has(t.op, "failed")

FollowInv == "timeout" \notin faults => Interrupted \/ Undisturbed

LEMMA FollowInit == Init => FollowInv
<1> SUFFICES ASSUME Init PROVE FollowInv
  OBVIOUS
<1> USE DEF Init
<1>1. \A s \in Session : /\ session[s].current = None /\ ~session[s].frozen
  BY DEF Blank
<1>2. \A o \in Operation : operation[o] = None
  OBVIOUS
<1> QED BY <1>1, <1>2 DEF FollowInv, Undisturbed, OnItsRoute, Stuck, Prepares, Has

\* A cutover that waits for its sessions is of who has moved the authority away
\* from the route, so that no other one has failed, or waits.
LEMMA OnePrepares ==
    ASSUME Base, Undisturbed, NEW o \in Operation, mover = o,
           NEW q \in Operation, Has(q, "preparing") \/ Has(q, "failed")
    PROVE  q = o
BY DEF Base, Cuts, Has, Undisturbed, Stuck

\* What has been swapped to, or is to be, is not on the route.
LEMMA MovedAway ==
    ASSUME Base, NEW e \in Endpoint, serving[e] = route.epoch + 1
    PROVE  ~Rest
<1>1. route.epoch \in Nat \ {0} /\ route.endpoint \in Endpoint
  BY RouteTypes
<1>2. serving[e] # 0 /\ serving[e] # route.epoch
  BY <1>1
<1>3. e # route.endpoint
  BY <1>1, <1>2 DEF Base, Authority
<1> QED BY <1>1, <1>2, <1>3 DEF Base, Authority, Rest

LEMMA LiveStates ==
    ASSUME Base, NEW s \in Session
    PROVE  /\ s \in Live <=> session[s].state \in {"open", "joined"}
           /\ s \in Live <=> session[s].state \notin {"new", "closed"}
           /\ s \notin Live => session[s].current = None
           /\ s \in Live => session[s].current # None
<1>1. Sound(session[s])
  BY DEF Base
<1>2. session[s].state \in {"new", "open", "joined", "closed"}
  BY <1>1 DEF Sound, GatewaySession
<1> QED BY <1>1, <1>2 DEF Live, Sound, Connects

\* What is interrupted stays so: the session that has ended is not opened again.
LEMMA StaysInterrupted ==
    ASSUME Interrupted,
           \A s \in Session : session[s].state = "closed" => session'[s].state = "closed",
           \A o \in Operation : Has(o, "registry_committed") /\ call[o] = None =>
              \/ operation'[o] = operation[o] /\ call'[o] = None
              \/ operation[o].sessions \subseteq Live,
           Base
    PROVE  Interrupted'
<1>1. PICK o \in Operation :
         /\ Has(o, "registry_committed") /\ call[o] = None
         /\ \E s \in operation[o].sessions : session[s].state = "closed"
  BY DEF Interrupted
<1>2. operation[o].sessions \subseteq Session
  BY <1>1 DEF Base, TypeOK, Has, CutoverOperation
<1>3. PICK s \in operation[o].sessions : s \in Session /\ session[s].state = "closed"
  BY <1>1, <1>2
<1>4. s \notin Live
  BY <1>3 DEF Live
<1>5. operation'[o] = operation[o] /\ call'[o] = None
  BY <1>1, <1>3, <1>4
<1> QED BY <1>1, <1>3, <1>5 DEF Interrupted, Has

\* A session that goes on, or ends: it is not frozen, moved or opened, but for one
\* that is opened while the room is not handed off.
Goes(x, y) ==
    /\ x.state = "closed" => y.state = "closed"
    /\ y.frozen => x.frozen /\ y.state \in {"open", "joined"}
    /\ y.current # None =>
          \/ x.current # None /\ y.current.route = x.current.route
          \/ preparation = None /\ y.current.route = route
    /\ y.state \in {"open", "joined"} /\ preparation # None =>
          /\ x.state \in {"open", "joined"}
          /\ \/ y.prepared = x.prepared
             \/ /\ x.prepared # None /\ y.prepared # None
                /\ y.prepared.route = x.prepared.route

LEMMA StoppedGoes == \A x : Goes(x, Stopped)
BY DEF Goes, Stopped, Blank

\* The same but for what is in transit and buffered, or a connection that closes.
LEMMA StaysGoes ==
    ASSUME NEW x, NEW y, x.state = "closed" => y.state = "closed",
           x.state \in {"open", "joined"} => y.state \in {"open", "joined"},
           y.state \in {"open", "joined"} => x.state \in {"open", "joined"},
           y.frozen => x.frozen, x.frozen => x.state \in {"open", "joined"},
           y.current # None => x.current # None /\ y.current.route = x.current.route,
           \/ y.prepared = x.prepared
           \/ /\ x.prepared # None /\ y.prepared # None
              /\ y.prepared.route = x.prepared.route
    PROVE  Goes(x, y)
BY DEF Goes

LEMMA FrozenIsLive ==
    ASSUME Base, NEW s \in Session, OnItsRoute
    PROVE  session[s].frozen => session[s].state \in {"open", "joined"}
BY DEF OnItsRoute, Live

\* The sessions go on, and what the room knows stays; a prepare() ends only when
\* its session has its connection, or its cutover has.
LEMMA GoesFollow ==
    ASSUME Base, FollowInv,
           \A s \in Session : session[s].state = "closed" => session'[s].state = "closed",
           OnItsRoute => \A s \in Session : Goes(session[s], session'[s]),
           UNCHANGED <<route, preparation, operation>>,
           faults \subseteq faults', tasks' \subseteq tasks,
           \A t \in tasks : t.phase = "match" /\ Has(t.op, "preparing") => t \in tasks',
           \A o \in Operation : /\ Has(o, "preparing") => call'[o] = call[o]
                                /\ Has(o, "registry_committed") /\ call[o] = None
                                      => call'[o] = None
                                /\ Has(o, "failed") /\ mover = o /\ ~Rest
                                      => mover' = o /\ ~Rest'
    PROVE  FollowInv'
<1> SUFFICES ASSUME "timeout" \notin faults'
             PROVE  Interrupted' \/ Undisturbed'
  BY DEF FollowInv
<1>1. Interrupted \/ Undisturbed
  BY DEF FollowInv
<1>2. CASE Interrupted
  BY <1>2, StaysInterrupted
<1>3. CASE Undisturbed
  <2>0. \A s \in Session : Goes(session[s], session'[s])
    BY <1>3 DEF Undisturbed
  <2>1. \A s \in Session : s \in Live' <=> session'[s].state \in {"open", "joined"}
    BY DEF Live
  <2>2. \A s \in Session : s \in Live' /\ preparation # None => s \in Live
    BY <2>0, <2>1 DEF Goes, Live
  <2>3. OnItsRoute'
    BY <1>3, <2>0, <2>1, <2>2 DEF Undisturbed, OnItsRoute, Goes, Live
  <2>4. Stuck'
    BY <1>3 DEF Undisturbed, Stuck, Has
  <2>5. ASSUME NEW o \in Operation, Has(o, "preparing")' PROVE Prepares(o)'
    <3>1. /\ Has(o, "preparing") /\ call'[o] = call[o]
          /\ preparation # None /\ preparation.op = o /\ Live \subseteq call[o]
          /\ operation[o].sessions = call[o]
      BY <1>3, <2>5 DEF Has, Undisturbed, Prepares
    <3>2. Live' \subseteq Live
      BY <2>2, <3>1 DEF Live
    <3>3. ASSUME NEW s \in Live'
          PROVE  \/ IsPrepared(session'[s], operation[o].route)
                 \/ session'[s].prepared = None /\ WillPrepare(s, o)'
      <4>1. /\ s \in Session
            /\ \/ session'[s].prepared = session[s].prepared
               \/ /\ session[s].prepared # None /\ session'[s].prepared # None
                  /\ session'[s].prepared.route = session[s].prepared.route
        BY <2>0, <2>1, <3>1 DEF Live, Goes
      <4>2. CASE IsPrepared(session[s], operation[o].route)
        BY <4>1, <4>2 DEF IsPrepared
      <4>3. CASE session[s].prepared = None /\ WillPrepare(s, o)
        <5>1. PICK t \in tasks : t.op = o /\ t.session = s /\ t.phase = "match"
          BY <4>3 DEF WillPrepare
        <5>2. t \in tasks'
          BY <3>1, <5>1
        <5> QED BY <4>1, <4>3, <5>1, <5>2 DEF WillPrepare
      <4> QED BY <1>3, <3>1, <3>2, <4>2, <4>3 DEF Undisturbed, Prepares
    <3> QED BY <3>1, <3>2, <3>3 DEF Prepares
  <2>6. \A o \in Operation : Prepares(o)' /\ ~Has(o, "registry_committed")'
    BY <1>3, <2>5 DEF Undisturbed, Prepares, Has
  <2>7. \A t \in tasks' : Has(t.op, "preparing")' \/ Has(t.op, "failed")'
    BY <1>3 DEF Undisturbed, Has
  <2> QED BY <2>3, <2>4, <2>6, <2>7 DEF Undisturbed
<1> QED BY <1>1, <1>2, <1>3

\* A step of one session.
LEMMA OneGoesFollow ==
    ASSUME Base, FollowInv, NEW s \in Session, NEW y,
           session' = [session EXCEPT ![s] = y],
           session[s].state = "closed" => y.state = "closed",
           OnItsRoute => Goes(session[s], y),
           UNCHANGED <<route, roomVars, mover, serving>>, faults \subseteq faults'
    PROVE  FollowInv'
<1>1. session \in [Session -> GatewaySession]
  BY DEF Base, TypeOK
<1>2. \A u \in Session : session'[u] = IF u = s THEN y ELSE session[u]
  BY <1>1
<1>3. \A u \in Session : session[u].state = "closed" => session'[u].state = "closed"
  BY <1>2
<1>4. ASSUME OnItsRoute, NEW u \in Session PROVE Goes(session[u], session'[u])
  <2>1. Goes(session[u], session[u])
    BY <1>4, FrozenIsLive, StaysGoes
  <2> QED BY <1>2, <1>4, <2>1
<1> QED BY <1>3, <1>4, GoesFollow DEF roomVars, Rest

LEMMA ClosesFollow ==
    ASSUME Base, FollowInv, NEW s \in Session, session' = [session EXCEPT ![s] = Stopped],
           UNCHANGED <<route, roomVars, mover, serving>>, faults \subseteq faults'
    PROVE  FollowInv'
<1>1. Goes(session[s], Stopped) /\ Stopped.state = "closed"
  BY StoppedGoes DEF Stopped, Blank
<1>2. PICK y : y = Stopped
  OBVIOUS
<1> QED BY <1>1, <1>2, OneGoesFollow

LEMMA DisconnectedGoes ==
    ASSUME NEW x \in GatewaySession, x.current # None, Sound(x),
           x.frozen => x.state \in {"open", "joined"}
    PROVE  Goes(x, Disconnected(x))
<1>1. CASE x.frozen /\ ~x.current.adopted
  <2>1. PICK c : c = [x.current EXCEPT !.up = "closed"]
    OBVIOUS
  <2>2. Disconnected(x) = [x EXCEPT !.wire = <<>>, !.ack = 0, !.current = c]
    BY <1>1, <2>1 DEF Disconnected, GatewaySession
  <2>3. c.route = x.current.route
    BY <2>1 DEF GatewaySession, Upstream
  <2>4. PICK y : y = Disconnected(x)
    OBVIOUS
  <2>5. /\ y.state = x.state /\ y.frozen = x.frozen /\ y.prepared = x.prepared
        /\ y.current = c
    BY <2>2, <2>4 DEF GatewaySession
  <2>6. Goes(x, y)
    BY <2>3, <2>5, StaysGoes
  <2> QED BY <2>4, <2>6
<1>2. CASE ~(x.frozen /\ ~x.current.adopted)
  BY <1>2, StoppedGoes DEF Disconnected
<1> QED BY <1>1, <1>2

LEMMA BrowserFollow ==
    ASSUME Base, FollowInv, NEW s \in Session, Browser(s)
    PROVE  FollowInv'
<1>0. PICK x : x = session[s]
  OBVIOUS
<1>1. /\ Sound(x) /\ x \in GatewaySession
      /\ OnItsRoute => (x.frozen => x.state \in {"open", "joined"})
  BY <1>0, FrozenIsLive DEF Base, TypeOK
<1>2. CASE Open(s)
  <2>1. PICK c : c = [route |-> route, adopted |-> FALSE,
                      up |-> "connecting", sent |-> 0]
    OBVIOUS
  <2>2. PICK y : y = [x EXCEPT !.state = "open", !.starting = TRUE, !.current = c]
    OBVIOUS
  <2>3. /\ y.frozen = x.frozen /\ y.prepared = x.prepared /\ y.current = c
        /\ y.state = "open" /\ c.route = route
    BY <1>1, <2>1, <2>2 DEF GatewaySession
  <2>4. preparation = None /\ x.state = "new" /\ session' = [session EXCEPT ![s] = y]
    BY <1>0, <1>2, <2>1, <2>2 DEF Open, Admits
  <2>5. OnItsRoute => Goes(x, y)
    BY <1>1, <2>3, <2>4 DEF Goes
  <2> QED BY <1>0, <1>2, <2>4, <2>5, OneGoesFollow DEF Open, processVars
<1>3. CASE Join(s)
  <2>1. PICK y : y = [x EXCEPT !.state = "joined"]
    OBVIOUS
  <2>2. /\ y.frozen = x.frozen /\ y.prepared = x.prepared /\ y.current = x.current
        /\ y.state = "joined"
    BY <1>1, <2>1 DEF GatewaySession
  <2>3. x.state = "open" /\ session' = [session EXCEPT ![s] = y]
    BY <1>0, <1>3, <2>1 DEF Join
  <2>4. OnItsRoute => Goes(x, y)
    BY <1>1, <2>2, <2>3, StaysGoes
  <2> QED BY <1>0, <1>3, <2>3, <2>4, OneGoesFollow DEF Join, processVars
<1>4. CASE Receive(s)
  <2>1. PICK y : y = WithInput(x)
    OBVIOUS
  <2>2. x.state = "joined" /\ session' = [session EXCEPT ![s] = y]
    BY <1>0, <1>4, <2>1 DEF Receive, WithInput
  <2>3. x.current # None /\ x.current \in Upstream
    BY <1>1, <2>2 DEF Sound, Connects, GatewaySession
  <2>4. PICK n : n = x.received + 1
    OBVIOUS
  <2>5. PICK sends : sends = (~x.frozen /\ x.current.up = "open")
    OBVIOUS
  <2>6. PICK c : c = [x.current EXCEPT !.sent = IF sends THEN n ELSE @]
    OBVIOUS
  <2>7. y = [x EXCEPT !.received = n,
                      !.shadow = IF x.verifying THEN @ \cup {n} ELSE @,
                      !.wire = IF sends THEN Append(@, n) ELSE @,
                      !.current = c]
    BY <1>1, <2>1, <2>4, <2>5, <2>6 DEF GatewaySession, WithInput
  <2>8. /\ y.frozen = x.frozen /\ y.prepared = x.prepared /\ y.current = c
        /\ y.state = x.state /\ c.route = x.current.route
    BY <1>1, <2>3, <2>6, <2>7 DEF GatewaySession, Upstream
  <2>9. OnItsRoute => Goes(x, y)
    BY <1>1, <2>2, <2>3, <2>8, StaysGoes
  <2> QED BY <1>0, <1>4, <2>2, <2>9, OneGoesFollow DEF Receive, processVars
<1>5. CASE Overflow(s)
  BY <1>5, ClosesFollow DEF Overflow, processVars
<1>6. CASE SessionCloses(s)
  BY <1>6, ClosesFollow DEF SessionCloses, Happens, processVars
<1> QED BY <1>2, <1>3, <1>4, <1>5, <1>6 DEF Browser

LEMMA ConnectionFollow ==
    ASSUME Base, FollowInv, NEW s \in Session, Connection(s)
    PROVE  FollowInv'
<1>0. PICK x : x = session[s]
  OBVIOUS
<1>1. /\ Sound(x) /\ x \in GatewaySession
      /\ OnItsRoute => (x.frozen => x.state \in {"open", "joined"})
  BY <1>0, FrozenIsLive DEF Base, TypeOK
<1>2. CASE Connected(s)
  <2>1. /\ x.starting /\ Opening(x)
        /\ session' = [session EXCEPT ![s] =
              Flushed([x EXCEPT !.starting = FALSE, !.current.up = "open"])]
    BY <1>0, <1>2 DEF Connected
  <2>2. x.current # None /\ x.current \in Upstream /\ x.state \in {"open", "joined"}
    BY <1>1, <2>1 DEF Sound, Connects, GatewaySession
  <2>3. PICK c : c = [x.current EXCEPT !.up = "open"]
    OBVIOUS
  <2>4. c \in Upstream /\ c.route = x.current.route /\ c # None
    BY <2>2, <2>3, NoneAssumption DEF Upstream
  <2>5. PICK z : z = [x EXCEPT !.starting = FALSE, !.current = c]
    OBVIOUS
  <2>6. /\ z \in GatewaySession /\ z.current = c /\ z.state = x.state
        /\ z.frozen = x.frozen /\ z.prepared = x.prepared
    BY <1>1, <2>4, <2>5 DEF GatewaySession
  <2>7. PICK y : y = Flushed(z)
    OBVIOUS
  <2>8. /\ y.state = x.state /\ y.frozen = x.frozen /\ y.prepared = x.prepared
        /\ y.current.route = x.current.route
    BY <2>4, <2>6, <2>7, FlushedFields
  <2>9. [x EXCEPT !.starting = FALSE, !.current.up = "open"] = z
    BY <1>1, <2>3, <2>5 DEF GatewaySession
  <2>10. session' = [session EXCEPT ![s] = y]
    BY <2>1, <2>7, <2>9
  <2>11. OnItsRoute => Goes(x, y)
    BY <1>1, <2>2, <2>8, StaysGoes
  <2> QED BY <1>0, <1>2, <2>2, <2>10, <2>11, OneGoesFollow DEF Connected, processVars
<1>3. CASE StartFails(s)
  BY <1>3, ClosesFollow DEF StartFails, Happens, processVars
<1>4. CASE AckArrives(s)
  <2>1. PICK y : y = [x EXCEPT !.acked = IF @ < x.ack THEN x.ack ELSE @, !.ack = 0]
    OBVIOUS
  <2>2. /\ y.frozen = x.frozen /\ y.prepared = x.prepared /\ y.current = x.current
        /\ y.state = x.state
    BY <1>1, <2>1 DEF GatewaySession
  <2>3. session' = [session EXCEPT ![s] = y]
    BY <1>0, <1>4, <2>1 DEF AckArrives
  <2>4. OnItsRoute => Goes(x, y)
    BY <1>1, <2>2, StaysGoes
  <2>5. UNCHANGED <<route, roomVars, mover, serving>> /\ faults \subseteq faults'
    BY <1>4 DEF AckArrives, processVars
  <2> QED BY <1>0, <2>2, <2>3, <2>4, <2>5, OneGoesFollow
<1>5. CASE UpstreamCloses(s)
  <2>1. x.state \in {"open", "joined"} /\ x.current # None
    BY <1>0, <1>1, <1>5 DEF UpstreamCloses, Live, Sound, Connects
  <2>2. OnItsRoute => Goes(x, Disconnected(x))
    BY <1>1, <2>1, DisconnectedGoes
  <2>3. PICK y : y = Disconnected(x)
    OBVIOUS
  <2>4. session' = [session EXCEPT ![s] = y] /\ faults \subseteq faults'
    BY <1>0, <1>5, <2>3 DEF UpstreamCloses, Happens
  <2> QED BY <1>0, <1>5, <2>1, <2>2, <2>3, <2>4, OneGoesFollow DEF UpstreamCloses, processVars
<1>6. CASE PreparedCloses(s)
  <2>1. x.prepared # None /\ x.prepared \in Prepared
    BY <1>0, <1>1, <1>6 DEF PreparedCloses, GatewaySession
  <2>2. PICK p : p = [x.prepared EXCEPT !.up = "closed"]
    OBVIOUS
  <2>3. p \in Prepared /\ p.route = x.prepared.route /\ p # None
    BY <2>1, <2>2, NoneAssumption DEF Prepared
  <2>4. PICK y : y = [x EXCEPT !.prepared = p]
    OBVIOUS
  <2>5. /\ y.frozen = x.frozen /\ y.prepared = p /\ y.current = x.current
        /\ y.state = x.state
    BY <1>1, <2>4 DEF GatewaySession
  <2>6. session' = [session EXCEPT ![s] = y] /\ faults \subseteq faults'
    BY <1>0, <1>1, <1>6, <2>2, <2>4 DEF PreparedCloses, Happens, GatewaySession
  <2>7. OnItsRoute => Goes(x, y)
    BY <1>1, <2>1, <2>3, <2>5, StaysGoes
  <2> QED BY <1>0, <1>6, <2>5, <2>6, <2>7, OneGoesFollow DEF PreparedCloses, processVars
<1>7. CASE ReplacedCloses(s)
  BY <1>7, ClosesFollow DEF ReplacedCloses, processVars
<1> QED BY <1>2, <1>3, <1>4, <1>5, <1>6, <1>7 DEF Connection

LEMMA ProcessFollow ==
    ASSUME Base, FollowInv, NEW s \in Session, Process(s)
    PROVE  FollowInv'
<1>0. PICK x : x = session[s]
  OBVIOUS
<1>1. /\ Sound(x) /\ x \in GatewaySession
      /\ OnItsRoute => (x.frozen => x.state \in {"open", "joined"})
  BY <1>0, FrozenIsLive DEF Base, TypeOK
<1>2. x.wire # <<>> /\ x.current # None /\ x.state \in {"open", "joined"}
  BY <1>0, <1>1 DEF Process, Processes, Rejects, Sound, Connects, GatewaySession
<1>3. CASE Processes(s)
  <2>1. PICK r : r = IF IsNew(Head(x.wire), game[x.current.route.endpoint][s])
                     THEN Append(game[x.current.route.endpoint][s], Head(x.wire))
                     ELSE game[x.current.route.endpoint][s]
    OBVIOUS
  <2>2. PICK y : y = [x EXCEPT !.wire = Tail(@), !.ack = LastProcessed(r)]
    OBVIOUS
  <2>3. /\ y.frozen = x.frozen /\ y.prepared = x.prepared /\ y.current = x.current
        /\ y.state = x.state
    BY <1>1, <2>2 DEF GatewaySession
  <2>4. session' = [session EXCEPT ![s] = y]
    BY <1>0, <1>3, <2>1, <2>2 DEF Processes
  <2>5. OnItsRoute => Goes(x, y)
    BY <1>1, <2>3, StaysGoes
  <2> QED BY <1>0, <1>2, <1>3, <2>4, <2>5, OneGoesFollow DEF Processes
<1>4. CASE Rejects(s)
  <2>1. OnItsRoute => Goes(x, Disconnected(x))
    BY <1>1, <1>2, DisconnectedGoes
  <2>2. PICK y : y = Disconnected(x)
    OBVIOUS
  <2>3. session' = [session EXCEPT ![s] = y]
    BY <1>0, <1>4, <2>2 DEF Rejects
  <2> QED BY <1>0, <1>2, <1>4, <2>1, <2>2, <2>3, OneGoesFollow DEF Rejects, processVars
<1> QED BY <1>3, <1>4 DEF Process

LEMMA StillGoes ==
    ASSUME Base, session' = session
    PROVE  /\ OnItsRoute => \A s \in Session : Goes(session[s], session'[s])
           /\ \A s \in Session : session[s].state = "closed" => session'[s].state = "closed"
BY FrozenIsLive, StaysGoes

LEMMA PreparedUpGoes ==
    ASSUME NEW x \in GatewaySession, x.prepared # None,
           NEW up \in {"connecting", "open", "closed"}, NEW y,
           y = [x EXCEPT !.prepared.up = up]
    PROVE  /\ y.state = x.state
           /\ (x.frozen => x.state \in {"open", "joined"}) => Goes(x, y)
<1>1. x.prepared \in Prepared
  BY DEF GatewaySession
<1>2. PICK p : p = [x.prepared EXCEPT !.up = up]
  OBVIOUS
<1>3. p.route = x.prepared.route
  BY <1>1, <1>2 DEF Prepared
<1>4. p # None
  BY <1>1, <1>2, NoneAssumption DEF Prepared
<1>5. y = [x EXCEPT !.prepared = p]
  BY <1>2 DEF GatewaySession
<1>6. /\ y.frozen = x.frozen /\ y.prepared = p /\ y.current = x.current
      /\ y.state = x.state
  BY <1>5 DEF GatewaySession
<1> QED BY <1>3, <1>4, <1>6, StaysGoes

LEMMA StutterFollow ==
    ASSUME Base, FollowInv, UNCHANGED vars
    PROVE  FollowInv'
BY StillGoes, GoesFollow DEF vars, roomVars, processVars, Rest

LEMMA SaveFollow ==
    ASSUME Base, FollowInv, NEW o \in Operation, Save(o)
    PROVE  FollowInv'
BY StillGoes, GoesFollow DEF Save, roomVars, Rest

\* The authority moves from the route: no cutover has failed.
LEMMA MoveFollow ==
    ASSUME Base, FollowInv, NEW o \in Operation, NEW a \in Endpoint, NEW b \in Endpoint,
           Move(o, a, b)
    PROVE  FollowInv'
<1>1. Rest
  BY DEF Move, Rest
<1> QED BY <1>1, StillGoes, GoesFollow DEF Move, roomVars

LEMMA VerificationAgesFollow ==
    ASSUME Base, FollowInv, VerificationAges
    PROVE  FollowInv'
BY StillGoes, GoesFollow DEF VerificationAges, processVars, Rest

LEMMA FinalizeFollow ==
    ASSUME Base, FollowInv, Finalize
    PROVE  FollowInv'
<1>1. ASSUME NEW s \in Session
      PROVE  /\ session[s].state = "closed" => session'[s].state = "closed"
             /\ OnItsRoute => Goes(session[s], session'[s])
  <2>1. PICK x : x = session[s]
    OBVIOUS
  <2>2. PICK y : y = session'[s]
    OBVIOUS
  <2>3. y = x \/ y = [x EXCEPT !.verifying = FALSE, !.shadow = {}]
    BY <2>1, <2>2 DEF Finalize, After
  <2>4. x \in GatewaySession
    BY <2>1 DEF Base, TypeOK
  <2>5. /\ y.frozen = x.frozen /\ y.prepared = x.prepared /\ y.current = x.current
        /\ y.state = x.state
    BY <2>3, <2>4 DEF GatewaySession
  <2>6. OnItsRoute => (x.frozen => x.state \in {"open", "joined"})
    BY <2>1, FrozenIsLive
  <2>7. OnItsRoute => Goes(x, y)
    BY <2>5, <2>6, StaysGoes
  <2> QED BY <2>1, <2>2, <2>5, <2>7
<1>2. /\ UNCHANGED <<route, preparation, operation, call, tasks, mover, faults>>
      /\ Rest' = Rest
  BY DEF Finalize, processVars, Rest
<1> QED BY <1>1, <1>2, GoesFollow

\* The prepared connection of a session opens or closes.
LEMMA PreparedUpStays ==
    ASSUME Base, NEW t \in Task, Holds(t),
           NEW up \in {"connecting", "open", "closed"},
           session' = [session EXCEPT ![t.session].prepared.up = up]
    PROVE  /\ OnItsRoute => \A s \in Session : Goes(session[s], session'[s])
           /\ \A s \in Session : session[s].state = "closed" => session'[s].state = "closed"
<1>1. t.session \in Session /\ session \in [Session -> GatewaySession]
  BY DEF Task, Base, TypeOK
<1>2. ASSUME NEW s \in Session
      PROVE  /\ session[s].state = "closed" => session'[s].state = "closed"
             /\ OnItsRoute => Goes(session[s], session'[s])
  <2>1. CASE s # t.session
    <3>1. session'[s] = session[s]
      BY <1>1, <2>1
    <3>2. OnItsRoute => (session[s].frozen => session[s].state \in {"open", "joined"})
      BY FrozenIsLive
    <3>3. OnItsRoute => Goes(session[s], session[s])
      BY <3>2, StaysGoes
    <3> QED BY <3>1, <3>3
  <2>2. CASE s = t.session
    <3>1. PICK x : x = session[s]
      OBVIOUS
    <3>2. PICK y : y = [x EXCEPT !.prepared.up = up]
      OBVIOUS
    <3>3. y = session'[s] /\ x \in GatewaySession /\ x.prepared # None
      BY <1>1, <2>2, <3>1, <3>2 DEF Holds
    <3>4. OnItsRoute => (x.frozen => x.state \in {"open", "joined"})
      BY <3>1, FrozenIsLive
    <3>5. y.state = x.state /\ (OnItsRoute => Goes(x, y))
      BY <3>2, <3>3, <3>4, PreparedUpGoes
    <3> QED BY <3>1, <3>3, <3>5
  <2> QED BY <2>1, <2>2
<1> QED BY <1>2

LEMMA PrepareEndsFollow ==
    ASSUME Base, FollowInv, NEW t \in Task, PrepareEnds(t)
    PROVE  FollowInv'
<1>1. /\ UNCHANGED <<route, preparation, operation, call, mover, faults>>
      /\ Rest' = Rest
      /\ t \in tasks /\ t.phase # "match" /\ tasks' = tasks \ {t}
  BY DEF PrepareEnds, processVars, Rest
<1>2. /\ OnItsRoute => \A s \in Session : Goes(session[s], session'[s])
      /\ \A s \in Session : session[s].state = "closed" => session'[s].state = "closed"
  <2>1. CASE session' = session
    BY <2>1, StillGoes
  <2>2. CASE Holds(t) /\ session' = [session EXCEPT ![t.session].prepared.up = "open"]
    BY <2>2, PreparedUpStays
  <2> QED BY <2>1, <2>2 DEF PrepareEnds
<1> QED BY <1>1, <1>2, GoesFollow

\* A prepared connection is opened, for the only cutover that waits for any.
LEMMA PrepareConnectsFollow ==
    ASSUME Base, FollowInv, NEW t \in Task, PrepareConnects(t)
    PROVE  FollowInv'
<1> SUFFICES ASSUME "timeout" \notin faults
             PROVE  Interrupted' \/ Undisturbed'
  BY DEF FollowInv, PrepareConnects
<1>1. /\ t \in tasks /\ t.op \in Operation /\ t.session \in Session
      /\ operation[t.op] # None /\ operation[t.op].route \in Route
  BY DEF PrepareConnects, Task, Base, Tasks, TypeOK, CutoverOperation
<1>2. PICK p : p = [route |-> operation[t.op].route, op |-> t.op, up |-> "connecting"]
  OBVIOUS
<1>3. p \in Prepared /\ p # None
  BY <1>1, <1>2, NoneAssumption DEF Prepared
<1>4. ASSUME NEW s \in Session
      PROVE  /\ session'[s].state = session[s].state
             /\ session'[s].frozen = session[s].frozen
             /\ session'[s].current = session[s].current
             /\ session'[s].prepared = IF s = t.session THEN p ELSE session[s].prepared
  <2>1. session \in [Session -> GatewaySession] /\ session[s] \in GatewaySession
    BY DEF Base, TypeOK
  <2>2. session' = [session EXCEPT ![t.session].prepared = p]
    BY <1>2 DEF PrepareConnects
  <2> QED BY <1>1, <2>1, <2>2 DEF GatewaySession
<1>5. UNCHANGED <<route, preparation, operation, call, mover, serving, faults>>
  BY DEF PrepareConnects, processVars
<1>6. \A u \in tasks' : \E v \in tasks : u.op = v.op
  <2>1. \A u \in tasks : [u EXCEPT !.phase = "orphan"].op = u.op
    BY DEF Base, TypeOK, Task
  <2>2. [t EXCEPT !.phase = "connect"].op = t.op
    BY DEF Task
  <2> QED BY <1>1, <2>1, <2>2 DEF PrepareConnects
<1>7. \A u \in tasks : u.session # t.session /\ u.phase = "match" => u \in tasks'
  BY DEF PrepareConnects
<1>8. Interrupted \/ Undisturbed
  BY DEF FollowInv
<1>9. CASE Interrupted
  BY <1>4, <1>5, <1>9, StaysInterrupted
<1>10. CASE Undisturbed
  <2>1. Live' = Live
    BY <1>4 DEF Live
  <2>2. OnItsRoute'
    BY <1>4, <1>5, <1>10, <2>1 DEF Undisturbed, OnItsRoute
  <2>3. Stuck'
    BY <1>5, <1>10 DEF Undisturbed, Stuck, Has, Rest
  <2>4. \A u \in tasks' : Has(u.op, "preparing")' \/ Has(u.op, "failed")'
    BY <1>5, <1>6, <1>10 DEF Undisturbed, Has
  <2>5. ASSUME NEW o \in Operation, Has(o, "preparing") PROVE Prepares(o)'
    <3>1. /\ preparation # None /\ preparation.op = o
          /\ Live \subseteq call[o]
          /\ operation[o].sessions = call[o]
      BY <1>10, <2>5 DEF Undisturbed, Prepares
    <3>2. t.op = o
      <4>1. mover = o
        BY <2>5 DEF Base, Cuts, Has
      <4>2. Has(t.op, "preparing") \/ Has(t.op, "failed")
        BY <1>1, <1>10 DEF Undisturbed
      <4> QED BY <1>1, <1>10, <4>1, <4>2, OnePrepares
    <3>3. ASSUME NEW s \in Live
          PROVE  \/ IsPrepared(session'[s], operation[o].route)
                 \/ session'[s].prepared = None /\ WillPrepare(s, o)'
      <4>1. s \in Session
        BY DEF Live
      <4>2. CASE s = t.session
        <5>1. session'[s].prepared = p /\ p.route = operation[o].route
          BY <1>2, <1>4, <3>2, <4>1, <4>2
        <5> QED BY <1>3, <5>1 DEF IsPrepared
      <4>3. CASE s # t.session /\ IsPrepared(session[s], operation[o].route)
        BY <1>4, <4>1, <4>3 DEF IsPrepared
      <4>4. CASE s # t.session /\ session[s].prepared = None /\ WillPrepare(s, o)
        <5>1. PICK u \in tasks : u.op = o /\ u.session = s /\ u.phase = "match"
          BY <4>4 DEF WillPrepare
        <5>2. u \in tasks'
          BY <1>7, <4>4, <5>1
        <5> QED BY <1>4, <4>1, <4>4, <5>1, <5>2 DEF WillPrepare
      <4> QED BY <1>10, <2>5, <4>2, <4>3, <4>4 DEF Undisturbed, Prepares
    <3> QED BY <1>5, <2>1, <3>1, <3>3 DEF Prepares
  <2>6. \A o \in Operation : Prepares(o)' /\ ~Has(o, "registry_committed")'
    BY <1>5, <1>10, <2>5 DEF Undisturbed, Prepares, Has
  <2> QED BY <2>2, <2>3, <2>4, <2>6 DEF Undisturbed
<1> QED BY <1>8, <1>9, <1>10

LEMMA ResumedFields ==
    ASSUME NEW x, Sound(x), NEW y, y = Resumed(x)
    PROVE  /\ y.state = x.state /\ ~y.frozen /\ y.prepared = None
           /\ y.current # None => x.current # None /\ y.current.route = x.current.route
<1>1. PICK z : z = [x EXCEPT !.prepared = None, !.frozen = FALSE]
  OBVIOUS
<1>2. /\ z \in GatewaySession /\ z.state = x.state /\ ~z.frozen /\ z.prepared = None
      /\ z.current = x.current
  BY <1>1 DEF Sound, GatewaySession
<1>3. y = Flushed(z)
  BY <1>1 DEF Resumed
<1>4. CASE z.current = None
  BY <1>2, <1>3, <1>4 DEF Flushed
<1>5. CASE z.current # None
  BY <1>2, <1>3, <1>5, FlushedFields
<1> QED BY <1>4, <1>5

\* A cutover fails while its operation is the mover: all sessions resume, and the
\* authority stays away from the route.
LEMMA CutoverFailsFollow ==
    ASSUME Base, FollowInv, NEW o \in Operation, NEW ss \in SUBSET Session, NEW r \in Route,
           CutoverFails(o, ss, r),
           ~Has(o, "registry_committed"),
           mover = o, ~Rest, Undisturbed => Live \subseteq ss,
           \A t \in tasks' : t \in tasks \/ t.op = o,
           tasks' \subseteq Task,
           faults \subseteq faults'
    PROVE  FollowInv'
<1> SUFFICES ASSUME "timeout" \notin faults'
             PROVE  Interrupted' \/ Undisturbed'
  BY DEF FollowInv
<1>1. PICK c : c = [status |-> "failed", route |-> r, sessions |-> ss]
  OBVIOUS
<1>2. c \in CutoverOperation /\ c.status = "failed"
  BY <1>1 DEF CutoverOperation
<1>3. c # None
  BY <1>2, NoneAssumption
<1>4. \A q \in Operation :
         /\ operation'[q] = IF q = o THEN c ELSE operation[q]
         /\ call'[q] = IF q = o THEN None ELSE call[q]
  BY <1>1 DEF CutoverFails, Base, TypeOK
<1>5. /\ UNCHANGED <<route, mover>> /\ Rest' = Rest /\ preparation' = None
      /\ session' = After(Resumed, ss)
  BY DEF CutoverFails, processVars, Rest
<1>6. ASSUME NEW s \in Session
      PROVE  /\ session'[s].state = session[s].state
             /\ s \in ss => ~session'[s].frozen
             /\ s \notin ss => session'[s] = session[s]
             /\ session'[s].current # None =>
                   session[s].current # None
                   /\ session'[s].current.route = session[s].current.route
  <2>1. Sound(session[s]) /\ session'[s] = IF s \in ss THEN Resumed(session[s]) ELSE session[s]
    BY <1>5 DEF After, Base
  <2> QED BY <2>1, ResumedFields
<1>7. Interrupted \/ Undisturbed
  BY DEF FollowInv
<1>8. CASE Interrupted
  BY <1>4, <1>6, <1>8, StaysInterrupted
<1>9. CASE Undisturbed
  <2>1. OnItsRoute'
    <3>1. \A s \in Session : session[s].frozen => s \in ss
      BY <1>9 DEF Undisturbed, OnItsRoute
    <3>2. \A s \in Session : ~session'[s].frozen
      BY <1>6, <3>1
    <3> QED BY <1>5, <1>6, <1>9, <3>2 DEF Undisturbed, OnItsRoute
  <2>2. \A q \in Operation : q # o => ~Has(q, "preparing") /\ ~Has(q, "failed")
    BY <1>9, OnePrepares
  <2>3. Stuck'
    BY <1>4, <1>5, <2>2 DEF Stuck, Has
  <2>4. \A q \in Operation : Prepares(q)' /\ ~Has(q, "registry_committed")'
    BY <1>2, <1>4, <1>9, <2>2 DEF Undisturbed, Prepares, Has
  <2>5. \A t \in tasks' : t.op = o
    BY <1>9, <2>2 DEF Undisturbed, Base, TypeOK, Task
  <2>6. \A t \in tasks' : Has(t.op, "failed")'
    BY <1>2, <1>3, <1>4, <2>5 DEF Has
  <2> QED BY <2>1, <2>3, <2>4, <2>6 DEF Undisturbed
<1> QED BY <1>7, <1>8, <1>9

LEMMA AskedFollow ==
    ASSUME Base, NEW o \in Operation, NEW e \in Endpoint, AsksCutover(o, e)
    PROVE  Target(o, e) \in Route /\ operation[o] = None /\ mover = o /\ ~Rest
<1>1. serving[e] = route.epoch + 1 /\ Target(o, e) \in Route /\ mover = o
  BY AskedCutover
<1>2. ~Rest
  BY <1>1, MovedAway
<1> QED BY <1>1, <1>2 DEF AsksCutover

LEMMA CutoverUnpreparedFollow ==
    ASSUME Base, FollowInv, NEW o \in Operation, NEW e \in Endpoint,
           CutoverUnprepared(o, e)
    PROVE  FollowInv'
<1>1. PICK r : r = Target(o, e)
  OBVIOUS
<1>2. /\ r \in Route /\ operation[o] = None /\ mover = o /\ ~Rest
      /\ CutoverFails(o, Live, r) /\ tasks' = tasks /\ faults' = faults
  BY <1>1, AskedFollow DEF CutoverUnprepared
<1>3. PICK ss : ss = Live
  OBVIOUS
<1>4. ss \in SUBSET Session /\ CutoverFails(o, ss, r) /\ tasks' \subseteq Task
  BY <1>2, <1>3 DEF Live, Base, TypeOK
<1> QED BY <1>2, <1>3, <1>4, CutoverFailsFollow DEF Has

LEMMA CutoverRefusedFollow ==
    ASSUME Base, FollowInv, NEW o \in Operation, NEW e \in Endpoint,
           CutoverRefused(o, e)
    PROVE  FollowInv'
<1>1. PICK r : r = Target(o, e)
  OBVIOUS
<1>2. PICK ss : ss = preparation.sessions \cap Live
  OBVIOUS
<1>3. /\ r \in Route /\ operation[o] = None /\ mover = o /\ ~Rest
      /\ CutoverFails(o, ss, r) /\ tasks' = tasks \cup Started(o, ss, r)
      /\ faults' = faults /\ preparation # None
  BY <1>1, <1>2, AskedFollow DEF CutoverRefused
<1>4. ss \in SUBSET Session
  BY <1>2 DEF Live
<1>5. /\ tasks' \subseteq Task /\ \A t \in tasks' : t \in tasks \/ t.op = o
  BY <1>3, <1>4, StartedTasks DEF Base, TypeOK
<1>6. Undisturbed => Live \subseteq ss
  BY <1>2, <1>3 DEF Undisturbed, OnItsRoute
<1> QED BY <1>3, <1>4, <1>5, <1>6, CutoverFailsFollow DEF Has

LEMMA PrepareFailsFollow ==
    ASSUME Base, FollowInv, NEW t \in Task, PrepareFails(t)
    PROVE  FollowInv'
<1>1. /\ t \in tasks /\ t.op \in Operation /\ t.session \in Session
      /\ operation[t.op] # None
      /\ tasks' = tasks \ {t} /\ faults \subseteq faults'
      /\ tasks \subseteq Task
  BY DEF PrepareFails, Happens, Task, Base, Tasks, TypeOK
<1>2. PICK o \in Operation : o = t.op
  BY <1>1
<1>3. CASE call[o] # None /\ operation[o].status = "preparing"
  <2>1. PICK ss : ss = call[o]
    OBVIOUS
  <2>2. PICK r : r = operation[o].route
    OBVIOUS
  <2>3. ss \in SUBSET Session /\ r \in Route /\ CutoverFails(o, ss, r)
    BY <1>1, <1>2, <1>3, <2>1, <2>2 DEF PrepareFails, Base, TypeOK, CutoverOperation
  <2>4. mover = o /\ serving[r.endpoint] = route.epoch + 1 /\ r.endpoint \in Endpoint
    BY <1>1, <1>2, <1>3, <2>2, <2>3 DEF Base, Cuts, Route
  <2>5. ~Rest
    BY <2>4, MovedAway
  <2>6. Undisturbed => Live \subseteq ss
    BY <1>1, <1>2, <1>3, <2>1 DEF Undisturbed, Prepares, Has
  <2> QED BY <1>1, <1>2, <1>3, <2>3, <2>4, <2>5, <2>6, CutoverFailsFollow DEF Has
<1>4. CASE ~(call[o] # None /\ operation[o].status = "preparing")
  <2>1. ~Has(o, "preparing")
    BY <1>4 DEF Base, Cuts, Has
  <2>2. /\ UNCHANGED <<route, preparation, operation, mover>> /\ Rest' = Rest
        /\ call' = [call EXCEPT ![o] = None]
        /\ \/ session' = session
           \/ Holds(t) /\ \E up \in {"open", "closed"} :
                 session' = [session EXCEPT ![t.session].prepared.up = up]
    BY <1>2, <1>4 DEF PrepareFails, processVars, Rest
  <2>3. /\ OnItsRoute => \A s \in Session : Goes(session[s], session'[s])
        /\ \A s \in Session : session[s].state = "closed" => session'[s].state = "closed"
    <3>1. CASE session' = session
      BY <3>1, StillGoes
    <3>2. ASSUME Holds(t), NEW up \in {"open", "closed"},
                 session' = [session EXCEPT ![t.session].prepared.up = up]
          PROVE  /\ OnItsRoute => \A s \in Session : Goes(session[s], session'[s])
                 /\ \A s \in Session :
                       session[s].state = "closed" => session'[s].state = "closed"
      BY <3>2, PreparedUpStays
    <3> QED BY <2>2, <3>1, <3>2
  <2>4. \A q \in Operation : call'[q] = IF q = o THEN None ELSE call[q]
    BY <2>2 DEF Base, TypeOK
  <2>5. \A u \in tasks : u.phase = "match" /\ Has(u.op, "preparing") => u \in tasks'
    BY <1>1, <1>2, <2>1
  <2>6. \A q \in Operation : /\ Has(q, "preparing") => call'[q] = call[q]
                             /\ Has(q, "registry_committed") /\ call[q] = None
                                   => call'[q] = None
                             /\ Has(q, "failed") /\ mover = q /\ ~Rest
                                   => mover' = q /\ ~Rest'
    BY <2>1, <2>2, <2>4
  <2>7. tasks' \subseteq tasks
    BY <1>1
  <2> QED BY <1>1, <2>2, <2>3, <2>5, <2>6, <2>7, GoesFollow
<1> QED BY <1>3, <1>4

\* All live sessions are frozen: nobody waits for sessions, since nothing was
\* prepared.
LEMMA FreezeFollow ==
    ASSUME Base, FollowInv, NEW o \in Operation, NEW p \in Operation, Freeze(o, p)
    PROVE  FollowInv'
<1> SUFFICES ASSUME "timeout" \notin faults
             PROVE  Interrupted' \/ Undisturbed'
  BY DEF FollowInv, Freeze
<1>1. /\ preparation = None /\ preparation' = [op |-> o, sessions |-> Live]
      /\ UNCHANGED <<route, operation, call, tasks, mover>> /\ Rest' = Rest
  BY DEF Freeze, processVars, Rest
<1>2. preparation' # None /\ preparation'.sessions = Live
  <2>1. preparation' \in Preparation
    BY <1>1 DEF Preparation, Live
  <2> QED BY <1>1, <2>1, NoneAssumption
<1>3. ASSUME NEW s \in Session
      PROVE  /\ session'[s].state = session[s].state
             /\ session'[s].current = session[s].current
             /\ s \notin Live => session'[s] = session[s]
  <2>1. session[s] \in GatewaySession
    BY DEF Base, TypeOK
  <2>2. session'[s] = IF s \in Live THEN [session[s] EXCEPT !.frozen = TRUE]
                      ELSE session[s]
    BY DEF Freeze, After
  <2> QED BY <2>1, <2>2 DEF GatewaySession
<1>4. Live' = Live
  BY <1>3 DEF Live
<1>5. Interrupted \/ Undisturbed
  BY DEF FollowInv
<1>6. CASE Interrupted
  BY <1>1, <1>3, <1>6, StaysInterrupted
<1>7. CASE Undisturbed
  <2>1. OnItsRoute'
    BY <1>1, <1>2, <1>3, <1>4, <1>7 DEF Undisturbed, OnItsRoute
  <2>2. Stuck'
    BY <1>1, <1>7 DEF Undisturbed, Stuck, Has
  <2>3. \A q \in Operation : ~Has(q, "preparing") /\ ~Has(q, "registry_committed")
    BY <1>1, <1>7 DEF Undisturbed, Prepares
  <2>4. \A q \in Operation : Prepares(q)' /\ ~Has(q, "registry_committed")'
    BY <1>1, <2>3 DEF Prepares, Has
  <2>5. \A t \in tasks' : Has(t.op, "preparing")' \/ Has(t.op, "failed")'
    BY <1>1, <1>7 DEF Undisturbed, Has
  <2> QED BY <2>1, <2>2, <2>4, <2>5 DEF Undisturbed
<1> QED BY <1>5, <1>6, <1>7

\* The preparation ends while no cutover of its operation is in progress: all of
\* its sessions resume.
LEMMA PreparationEndsFollow ==
    ASSUME Base, FollowInv, PreparationEnds
    PROVE  FollowInv'
<1> SUFFICES ASSUME "timeout" \notin faults'
             PROVE  Interrupted' \/ Undisturbed'
  BY DEF FollowInv
<1>1. /\ preparation # None /\ preparation' = None
      /\ session' = After(Resumed, preparation.sessions \cap Live)
      /\ call[preparation.op] = None /\ faults' = faults
      /\ UNCHANGED <<route, operation, call, tasks, mover>> /\ Rest' = Rest
  BY DEF PreparationEnds, AbortPreparation, Interrupts, Happens, processVars, Rest
<1>2. ASSUME NEW s \in Session
      PROVE  /\ session'[s].state = session[s].state
             /\ s \in preparation.sessions \cap Live => ~session'[s].frozen
             /\ s \notin preparation.sessions \cap Live => session'[s] = session[s]
             /\ session'[s].current # None =>
                   session[s].current # None
                   /\ session'[s].current.route = session[s].current.route
  <2>1. /\ Sound(session[s])
        /\ session'[s] = IF s \in preparation.sessions \cap Live
                         THEN Resumed(session[s]) ELSE session[s]
    BY <1>1 DEF After, Base
  <2> QED BY <2>1, ResumedFields
<1>3. Interrupted \/ Undisturbed
  BY <1>1 DEF FollowInv
<1>4. CASE Interrupted
  BY <1>1, <1>2, <1>4, StaysInterrupted
<1>5. CASE Undisturbed
  <2>1. OnItsRoute'
    <3>1. \A s \in Session : session[s].frozen => s \in preparation.sessions \cap Live
      BY <1>1, <1>5 DEF Undisturbed, OnItsRoute
    <3>2. \A s \in Session : ~session'[s].frozen
      BY <1>2, <3>1
    <3> QED BY <1>1, <1>2, <1>5, <3>2 DEF Undisturbed, OnItsRoute
  <2>2. Stuck'
    BY <1>1, <1>5 DEF Undisturbed, Stuck, Has
  <2>3. ASSUME NEW q \in Operation PROVE ~Has(q, "preparing")
    <3>1. ASSUME Has(q, "preparing") PROVE FALSE
      <4>1. preparation.op = q
        BY <1>5, <3>1 DEF Undisturbed, Prepares
      <4>2. call[q] # None
        BY <3>1 DEF Base, Cuts, Has
      <4> QED BY <1>1, <4>1, <4>2
    <3> QED BY <3>1
  <2>4. \A q \in Operation : Prepares(q)' /\ ~Has(q, "registry_committed")'
    BY <1>1, <1>5, <2>3 DEF Undisturbed, Prepares, Has
  <2>5. \A t \in tasks' : Has(t.op, "preparing")' \/ Has(t.op, "failed")'
    BY <1>1, <1>5 DEF Undisturbed, Has
  <2> QED BY <2>1, <2>2, <2>4, <2>5 DEF Undisturbed
<1> QED BY <1>3, <1>4, <1>5

\* A cutover begins: it is the only one that waits for its sessions, and prepares
\* them all, since none of them is on its route yet.
LEMMA CutoverBeginsFollow ==
    ASSUME Base, FollowInv, NEW o \in Operation, NEW e \in Endpoint,
           CutoverBegins(o, e)
    PROVE  FollowInv'
<1> SUFFICES ASSUME "timeout" \notin faults
             PROVE  Interrupted' \/ Undisturbed'
  BY DEF FollowInv, CutoverBegins
<1>1. PICK r : r = Target(o, e)
  OBVIOUS
<1>2. PICK ss : ss = preparation.sessions \cap Live
  OBVIOUS
<1>3. /\ AsksCutover(o, e) /\ preparation # None /\ preparation.op = o
      /\ \A s \in ss : ~RefusesPrepare(session[s], r)
      /\ operation' = [operation EXCEPT ![o] =
              [status |-> "preparing", route |-> r, sessions |-> ss]]
      /\ call' = [call EXCEPT ![o] = ss]
      /\ tasks' = tasks \cup Started(o, ss, r)
      /\ UNCHANGED <<route, session, preparation, mover>> /\ Rest' = Rest
  BY <1>1, <1>2 DEF CutoverBegins, processVars, Rest
<1>4. /\ r \in Route /\ operation[o] = None /\ mover = o
      /\ r.epoch = route.epoch + 1
  BY <1>1, <1>3, AskedFollow, AskedCutover
<1>5. r # route
  BY <1>4, RouteTypes
<1>6. PICK c : c = [status |-> "preparing", route |-> r, sessions |-> ss]
  OBVIOUS
<1>7. c \in CutoverOperation /\ c # None /\ c.status = "preparing" /\ c.route = r
      /\ c.sessions = ss
  BY <1>2, <1>4, <1>6, NoneAssumption DEF CutoverOperation, Live
<1>8. \A q \in Operation :
         /\ operation'[q] = IF q = o THEN c ELSE operation[q]
         /\ call'[q] = IF q = o THEN ss ELSE call[q]
  BY <1>3, <1>6 DEF Base, TypeOK
<1>9. Interrupted \/ Undisturbed
  BY DEF FollowInv
<1>10. CASE Interrupted
  <2>1. \A q \in Operation : Has(q, "registry_committed") => q # o
    BY <1>4 DEF Has
  <2> QED BY <1>3, <1>8, <1>10, <2>1, StaysInterrupted
<1>11. CASE Undisturbed
  <2>1. ~Has(o, "preparing") /\ ~Has(o, "failed")
    BY <1>4 DEF Has
  <2>2. \A q \in Operation : ~Has(q, "preparing") /\ ~Has(q, "failed")
    BY <1>4, <1>11, <2>1, OnePrepares
  <2>3. tasks' = Started(o, ss, r)
    BY <1>3, <1>11, <2>2 DEF Undisturbed, Base, TypeOK, Task
  <2>4. Live' = Live
    BY <1>3 DEF Live
  <2>5. Live \subseteq ss /\ ss \in SUBSET Session
    BY <1>2, <1>3, <1>11 DEF Undisturbed, OnItsRoute, Live
  <2>6. OnItsRoute'
    BY <1>3, <1>11, <2>4 DEF Undisturbed, OnItsRoute
  <2>7. Stuck'
    BY <1>7, <1>8, <2>2 DEF Stuck, Has
  <2>8. ASSUME NEW s \in Live
        PROVE  \/ IsPrepared(session[s], r)
               \/ session[s].prepared = None /\ WillPrepare(s, o)'
    <3>1. s \in Session /\ s \in ss
      BY <2>5
    <3>2. ~OnRoute(session[s], r)
      BY <1>5, <1>11, <3>1 DEF Undisturbed, OnItsRoute, OnRoute
    <3>3. /\ session[s].state = "joined"
          /\ (session[s].prepared = None \/ session[s].prepared.route = r)
      BY <1>3, <3>1, <3>2 DEF RefusesPrepare
    <3>4. CASE session[s].prepared # None
      BY <3>3, <3>4 DEF IsPrepared
    <3>5. CASE session[s].prepared = None
      <4>1. PICK t : t = [op |-> o, session |-> s, phase |-> "match"]
        OBVIOUS
      <4>2. t \in tasks'
        BY <2>3, <3>1, <3>2, <3>3, <3>5, <4>1 DEF Started
      <4> QED BY <3>5, <4>1, <4>2 DEF WillPrepare
    <3> QED BY <3>4, <3>5
  <2>9. Prepares(o)'
    BY <1>3, <1>7, <1>8, <2>4, <2>5, <2>8 DEF Prepares
  <2>10. ASSUME NEW q \in Operation PROVE Prepares(q)' /\ ~Has(q, "registry_committed")'
    <3>1. CASE q = o
      BY <1>7, <1>8, <2>9, <3>1 DEF Has
    <3>2. CASE q # o
      BY <1>8, <1>11, <2>2, <3>2 DEF Undisturbed, Prepares, Has
    <3> QED BY <3>1, <3>2
  <2>11. \A t \in tasks' : Has(t.op, "preparing")'
    <3>1. \A t \in Started(o, ss, r) : t.op = o
      BY <2>5, StartedTasks
    <3> QED BY <1>7, <1>8, <2>3, <3>1 DEF Has
  <2> QED BY <2>6, <2>7, <2>10, <2>11 DEF Undisturbed
<1> QED BY <1>9, <1>10, <1>11

\* Only after an interruption is a cutover asked for again.
LEMMA CutoverAgainFollow ==
    ASSUME Base, FollowInv, NEW o \in Operation, CutoverAgain(o)
    PROVE  FollowInv'
<1>1. /\ Has(o, "registry_committed") /\ operation[o].sessions \subseteq Live
      /\ UNCHANGED <<session, operation, faults>>
      /\ call' = call \/ \E ss : call' = [call EXCEPT ![o] = ss]
  BY DEF CutoverAgain, Has
<1>2. ~Undisturbed
  BY <1>1 DEF Undisturbed
<1>3. \A q \in Operation : q # o => call'[q] = call[q]
  BY <1>1 DEF Base, TypeOK
<1> QED BY <1>1, <1>2, <1>3, StaysInterrupted DEF FollowInv

\* The route of a cutover that has been asked for.
LEMMA CalledCutover ==
    ASSUME Base, NEW o \in Operation, call[o] # None
    PROVE  /\ operation[o] # None /\ operation[o] \in CutoverOperation
           /\ operation[o].route \in Route
           /\ call[o] \in SUBSET Session
           /\ Has(o, "preparing") \/ Has(o, "registry_committed")
<1>1. /\ operation[o] # None
      /\ operation[o].status \in {"preparing", "registry_committed"}
  BY DEF Base, Cuts
<1>2. operation[o] \in CutoverOperation /\ call[o] \in SUBSET Session
  BY <1>1 DEF Base, TypeOK
<1> QED BY <1>1, <1>2 DEF CutoverOperation, Has

\* What a session that is not closed has after its cutover.
LEMMA CommittedFields ==
    ASSUME NEW x, Sound(x), NEW r, NEW y, y = Committed(x, r)
    PROVE  /\ x.frozen /\ y.frozen => OnRoute(x, r) \/ x.state = "closed"
           /\ y.frozen => x.frozen
           /\ y.current # None /\ x.state # "closed" => y.current.route = r
           /\ x.state = "closed" => y.current = x.current
<1>1. CASE OnRoute(x, r)
  BY <1>1 DEF Committed, OnRoute, Sound, Connects
<1>2. CASE ~OnRoute(x, r) /\ x.state = "closed"
  BY <1>2 DEF Committed, Sound, GatewaySession
<1>3. CASE ~OnRoute(x, r) /\ x.state # "closed"
  <2>1. PICK c : c = [route |-> r, adopted |-> TRUE, up |-> x.prepared.up,
                      sent |-> IF Replayed(x) = {} THEN x.acked ELSE x.received]
    OBVIOUS
  <2>2. PICK w : w = IF x.prepared.up = "open" THEN Sorted(Replayed(x)) ELSE <<>>
    OBVIOUS
  <2>3. PICK h : h = Replayed(x)
    OBVIOUS
  <2>4. y = [x EXCEPT !.current = c, !.prepared = None, !.frozen = FALSE,
                      !.wire = w, !.ack = 0, !.shadow = h, !.verifying = TRUE,
                      !.closing = @ \/ (x.current # None /\ x.current.adopted
                                               /\ x.current.up = "open")]
    BY <1>3, <2>1, <2>2, <2>3 DEF Committed
  <2>5. y.current = c /\ ~y.frozen /\ c.route = r
    BY <2>1, <2>4 DEF Sound, GatewaySession
  <2> QED BY <1>3, <2>5
<1> QED BY <1>1, <1>2, <1>3

\* Every live session is moved onto the route that the cutover swaps to.
LEMMA CutoverCommitsFollow ==
    ASSUME Base, FollowInv, NEW o \in Operation, CutoverCommits(o)
    PROVE  FollowInv'
<1> SUFFICES ASSUME "timeout" \notin faults
             PROVE  Interrupted' \/ Undisturbed'
  BY DEF FollowInv, CutoverCommits
<1>1. PICK r : r = operation[o].route
  OBVIOUS
<1>2. PICK ss : ss = call[o]
  OBVIOUS
<1>3. /\ call[o] # None /\ \A t \in tasks : t.op # o
      /\ MaySwap(o, r) /\ \A s \in ss : CanCommit(session[s], r)
      /\ route' = r /\ session' = After(LAMBDA x : Committed(x, r), ss)
      /\ preparation' = None
      /\ operation' = [operation EXCEPT ![o].status = "committed"]
      /\ call' = [call EXCEPT ![o] = None]
      /\ UNCHANGED <<tasks, mover, serving>>
  BY <1>1, <1>2 DEF CutoverCommits, AllPrepared, processVars
<1>4. /\ operation[o] # None /\ operation[o] \in CutoverOperation
      /\ r \in Route /\ ss \in SUBSET Session
      /\ Has(o, "preparing") \/ Has(o, "registry_committed")
  BY <1>1, <1>2, <1>3, CalledCutover
<1>5. \A q \in Operation :
         /\ q # o => operation'[q] = operation[q] /\ call'[q] = call[q]
         /\ operation'[o].status = "committed"
  BY <1>3, <1>4 DEF Base, TypeOK, CutoverOperation
<1>6. \A s \in Session : /\ Sound(session'[s])
                         /\ session'[s].state = session[s].state
  BY <1>3, <1>4, CommittedSessions
<1>7. \A s \in Session :
         session'[s] = IF s \in ss THEN Committed(session[s], r) ELSE session[s]
  BY <1>3 DEF After
<1>8. Interrupted \/ Undisturbed
  BY DEF FollowInv
<1>9. CASE Interrupted
  BY <1>3, <1>5, <1>6, <1>9, StaysInterrupted
<1>10. CASE Undisturbed
  <2>1. Has(o, "preparing")
    BY <1>4, <1>10 DEF Undisturbed
  <2>2. Live \subseteq ss
    BY <1>2, <1>10, <2>1 DEF Undisturbed, Prepares
  <2>3. mover = o /\ r.epoch = route.epoch + 1 /\ route.epoch \in Nat
    BY <1>1, <2>1, RouteTypes DEF Base, Cuts, Has
  <2>4. \A q \in Operation : q # o => ~Has(q, "preparing") /\ ~Has(q, "failed")
    BY <1>10, <2>3, OnePrepares
  <2>5. tasks' = {}
    BY <1>3, <1>10, <2>4 DEF Undisturbed, Base, TypeOK, Task
  <2>6. ASSUME NEW s \in Session
        PROVE  /\ ~session'[s].frozen
               /\ session'[s].current # None => session'[s].current.route = r
    <3>1. Sound(session[s])
      BY DEF Base
    <3>2. CASE s \in Live
      <4>1. /\ session[s].state # "closed" /\ session[s].current # None
            /\ session[s].current.route = route
        BY <1>10, <3>2, LiveStates DEF Undisturbed, OnItsRoute
      <4>2. ~OnRoute(session[s], r)
        BY <2>3, <4>1 DEF OnRoute
      <4>3. session'[s] = Committed(session[s], r)
        BY <1>7, <2>2, <3>2
      <4>4. ~session'[s].frozen \/ ~session[s].frozen
        BY <3>1, <4>1, <4>2, <4>3, CommittedFields
      <4> QED BY <3>1, <4>1, <4>2, <4>3, <4>4, CommittedFields
    <3>3. CASE s \notin Live
      <4>1. ~session[s].frozen
        BY <1>10, <3>3 DEF Undisturbed, OnItsRoute
      <4>2. ~session'[s].frozen
        BY <1>7, <3>1, <4>1, CommittedFields
      <4>3. session'[s].state \in {"new", "closed"}
        BY <1>6, <3>1, <3>3, LiveStates DEF Sound, GatewaySession, Live
      <4>4. session'[s].current = None
        BY <1>6, <4>3 DEF Sound, Connects
      <4> QED BY <4>2, <4>4
    <3> QED BY <3>2, <3>3
  <2>7. OnItsRoute'
    BY <1>3, <2>6 DEF OnItsRoute
  <2>8. \A q \in Operation : ~Has(q, "preparing")' /\ ~Has(q, "failed")'
                             /\ ~Has(q, "registry_committed")'
    BY <1>5, <1>10, <2>4 DEF Undisturbed, Has
  <2>9. Stuck' /\ \A q \in Operation : Prepares(q)'
    BY <2>8 DEF Stuck, Prepares, Has
  <2> QED BY <2>5, <2>7, <2>8, <2>9 DEF Undisturbed
<1> QED BY <1>8, <1>9, <1>10

\* A cutover stops half-way for a session that has ended.
LEMMA CutoverStopsHalfwayFollow ==
    ASSUME Kept, FollowInv, NEW o \in Operation, CutoverStopsHalfway(o)
    PROVE  FollowInv'
<1> SUFFICES ASSUME "timeout" \notin faults
             PROVE  Interrupted'
  BY DEF FollowInv, CutoverStopsHalfway
<1>0. Base
  BY DEF Kept
<1>1. PICK r : r = operation[o].route
  OBVIOUS
<1>2. /\ call[o] # None /\ \A t \in tasks : t.op # o
      /\ \E s \in call[o] : ~CanCommit(session[s], r)
      /\ operation' = [operation EXCEPT ![o].status = "registry_committed"]
      /\ call' = [call EXCEPT ![o] = None]
  BY <1>1 DEF CutoverStopsHalfway, AllPrepared
<1>3. /\ operation[o] # None /\ operation[o] \in CutoverOperation
      /\ r \in Route /\ call[o] \in SUBSET Session
      /\ Has(o, "preparing") \/ Has(o, "registry_committed")
  BY <1>0, <1>1, <1>2, CalledCutover
<1>4. \A q \in Operation :
         /\ q # o => operation'[q] = operation[q] /\ call'[q] = call[q]
         /\ q = o => /\ operation'[q] # None /\ call'[q] = None
                     /\ operation'[q].status = "registry_committed"
                     /\ operation'[q].sessions = operation[q].sessions
  <2>1. PICK c : c = [operation[o] EXCEPT !.status = "registry_committed"]
    OBVIOUS
  <2>2. /\ c \in CutoverOperation /\ c.status = "registry_committed"
        /\ c.sessions = operation[o].sessions
    BY <1>3, <2>1 DEF CutoverOperation
  <2>3. operation' = [operation EXCEPT ![o] = c]
    BY <1>2, <2>1
  <2> QED BY <1>0, <1>2, <2>2, <2>3, NoneAssumption DEF Base, TypeOK
<1>5. \A s \in Session : session'[s].state = session[s].state
  <2>1. PICK ss \in SUBSET {u \in call[o] : CanCommit(session[u], r)} :
            session' = After(LAMBDA x : Committed(x, r), ss)
    BY <1>1 DEF CutoverStopsHalfway, After
  <2> QED BY <1>0, <1>3, <2>1, CommittedSessions
<1>6. Interrupted \/ Undisturbed
  BY DEF FollowInv
<1>7. CASE Interrupted
  BY <1>0, <1>2, <1>4, <1>5, <1>7, StaysInterrupted
<1>8. CASE Undisturbed
  <2>1. Has(o, "preparing")
    BY <1>3, <1>8 DEF Undisturbed
  <2>2. PICK s \in call[o] : ~CanCommit(session[s], r)
    BY <1>2
  <2>3. s \in Session /\ operation[o].sessions = call[o] /\ s \in operation[o].sessions
    BY <1>3, <1>8, <2>1 DEF Undisturbed, Prepares
  <2>4. s \notin Live
    <3>1. ASSUME s \in Live PROVE FALSE
      <4>1. \/ IsPrepared(session[s], r)
            \/ WillPrepare(s, o)
        BY <1>1, <1>8, <2>1, <3>1 DEF Undisturbed, Prepares
      <4>2. ~WillPrepare(s, o)
        BY <1>2 DEF WillPrepare
      <4> QED BY <2>2, <4>1, <4>2 DEF IsPrepared, CanCommit
    <3> QED BY <3>1
  <2>5. session[s].state # "new"
    BY <1>3, <2>3 DEF Kept, Selects, Selected, Moves
  <2>6. session[s].state = "closed"
    BY <1>0, <2>3, <2>4, <2>5, LiveStates
  <2> QED BY <1>4, <1>5, <2>3, <2>6 DEF Interrupted, Has
<1> QED BY <1>6, <1>7, <1>8

LEMMA CutoverConflictsFollow ==
    ASSUME Base, FollowInv, NEW o \in Operation, CutoverConflicts(o)
    PROVE  FollowInv'
<1>1. /\ call[o] # None /\ operation[o].status = "registry_committed"
      /\ UNCHANGED <<session, operation, faults>>
      /\ call' = [call EXCEPT ![o] = None]
  BY DEF CutoverConflicts, AllPrepared
<1>2. Has(o, "registry_committed")
  BY <1>1, CalledCutover DEF Has
<1>3. ~Undisturbed
  BY <1>2 DEF Undisturbed
<1>4. \A q \in Operation : q # o => call'[q] = call[q]
  BY <1>1 DEF Base, TypeOK
<1> QED BY <1>1, <1>3, <1>4, StaysInterrupted DEF FollowInv

LEMMA FollowStep == Kept /\ FollowInv /\ [Next]_vars => FollowInv'
<1> SUFFICES ASSUME Kept, FollowInv, [Next]_vars PROVE FollowInv'
  OBVIOUS
<1>0. Base
  BY DEF Kept
<1>1. ASSUME NEW s \in Session, Browser(s) \/ Connection(s) \/ Process(s)
      PROVE  FollowInv'
  BY <1>0, <1>1, BrowserFollow, ConnectionFollow, ProcessFollow
<1>2. ASSUME NEW o \in Operation, Orchestrator(o) PROVE FollowInv'
  <2>1. ASSUME NEW p \in Operation, Freeze(o, p) PROVE FollowInv'
    BY <1>0, <2>1, FreezeFollow
  <2>2. CASE Save(o)
    BY <1>0, <2>2, SaveFollow
  <2>3. ASSUME NEW a \in Endpoint, NEW b \in Endpoint, Move(o, a, b) PROVE FollowInv'
    BY <1>0, <2>3, MoveFollow
  <2>4. ASSUME NEW e \in Endpoint,
               CutoverUnprepared(o, e) \/ CutoverRefused(o, e) \/ CutoverBegins(o, e)
        PROVE  FollowInv'
    BY <1>0, <2>4, CutoverUnpreparedFollow, CutoverRefusedFollow, CutoverBeginsFollow
  <2>5. CASE CutoverAgain(o)
    BY <1>0, <2>5, CutoverAgainFollow
  <2> QED BY <1>2, <2>1, <2>2, <2>3, <2>4, <2>5 DEF Orchestrator
<1>3. ASSUME NEW o \in Operation, Cutover(o) PROVE FollowInv'
  BY <1>0, <1>3, CutoverCommitsFollow, CutoverStopsHalfwayFollow,
     CutoverConflictsFollow DEF Cutover
<1>4. ASSUME NEW t \in Task, Prepare(t) PROVE FollowInv'
  BY <1>0, <1>4, PrepareConnectsFollow, PrepareEndsFollow, PrepareFailsFollow DEF Prepare
<1>5. CASE PreparationEnds \/ Finalize \/ VerificationAges
  BY <1>0, <1>5, PreparationEndsFollow, FinalizeFollow, VerificationAgesFollow
<1>6. CASE UNCHANGED vars
  BY <1>0, <1>6, StutterFollow
<1> QED BY <1>1, <1>2, <1>3, <1>4, <1>5, <1>6 DEF Next

\* No cutover forgets a session or leaves one behind: a frozen session is one of
\* the preparation, and another is connected to where the route leads, unless a
\* preparation has timed out under its cutover or a cutover has stopped half-way.
THEOREM SessionsFollowRouteAlways == Spec => []SessionsFollowRoute
<1>1. Init => Kept /\ FollowInv
  BY KeptInit, BaseInit, FollowInit
<1>2. Kept /\ FollowInv /\ [Next]_vars => Kept' /\ FollowInv'
  BY KeptStep, FollowStep
<1>3. Kept /\ FollowInv => SessionsFollowRoute
  <2> SUFFICES ASSUME Base, FollowInv, "timeout" \notin faults,
                      \A o \in Operation : ~Has(o, "registry_committed"),
                      NEW s \in Session
               PROVE  IF session[s].frozen
                      THEN preparation # None /\ s \in preparation.sessions
                      ELSE session[s].current # None /\ session[s].current.up = "open"
                              => session[s].current.route = route
    BY DEF Kept, SessionsFollowRoute, Halfway, Has
  <2> QED BY DEF FollowInv, Interrupted, Undisturbed, OnItsRoute
<1> QED BY <1>1, <1>2, <1>3, PTL DEF Spec

=============================================================================
