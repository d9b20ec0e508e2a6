-------------------------- MODULE VersionOrderProofs --------------------------
(***************************************************************************)
(* Proofs about VersionOrder, for all versions, of whatever numbers and    *)
(* identifiers: the comparison is a total order but for padded numerals,   *)
(* and the panel and the runner recognise the same versions.               *)
(***************************************************************************)
EXTENDS VersionOrder, DataLemmas, TLAPS

-----------------------------------------------------------------------------
(* Numbers.                                                                *)

Positions == Nat \ {0}

\* The first number that differs is smaller.
NumbersBelow(a, b) ==
    \E i \in Positions :
        /\ Part(a, i) < Part(b, i)
        /\ \A j \in 1..(i - 1) : Part(a, j) = Part(b, j)

SameNumbers(a, b) == \A i \in Positions : Part(a, i) = Part(b, i)

LEMMA PartType == \A v \in Version, i \in Positions : Part(v, i) \in Nat
  <1>1. SUFFICES ASSUME NEW v \in Version, NEW i \in Positions PROVE Part(v, i) \in Nat
    OBVIOUS
  <1>2. v.nums \in Seq(Nat)
    BY DEF Version
  <1>3. QED
    BY <1>2 DEF Part, Positions

LEMMA NumbersExclusive ==
    ASSUME NEW a \in Version, NEW b \in Version
    PROVE  /\ ~(NumbersBelow(a, b) /\ NumbersBelow(b, a))
           /\ NumbersBelow(a, b) => ~SameNumbers(a, b) /\ ~SameNumbers(b, a)
  <1>1. ASSUME NumbersBelow(a, b), NumbersBelow(b, a)
        PROVE  FALSE
    <2>1. PICK i \in Positions : Part(a, i) < Part(b, i)
                                 /\ \A k \in 1..(i - 1) : Part(a, k) = Part(b, k)
      BY <1>1 DEF NumbersBelow
    <2>2. PICK j \in Positions : Part(b, j) < Part(a, j)
                                 /\ \A k \in 1..(j - 1) : Part(b, k) = Part(a, k)
      BY <1>1 DEF NumbersBelow
    <2>3. Part(a, i) \in Nat /\ Part(b, i) \in Nat /\ Part(a, j) \in Nat /\ Part(b, j) \in Nat
      BY PartType
    <2>4. CASE i < j
      BY <2>1, <2>2, <2>3, <2>4 DEF Positions
    <2>5. CASE j < i
      BY <2>1, <2>2, <2>3, <2>5 DEF Positions
    <2>6. CASE i = j
      BY <2>1, <2>2, <2>3, <2>6
    <2>7. QED
      BY <2>4, <2>5, <2>6 DEF Positions
  <1>2. ASSUME NumbersBelow(a, b), SameNumbers(a, b) \/ SameNumbers(b, a)
        PROVE  FALSE
    BY <1>2, PartType DEF NumbersBelow, SameNumbers
  <1>3. QED
    BY <1>1, <1>2

LEMMA NumbersTransitive ==
    ASSUME NEW a \in Version, NEW b \in Version, NEW c \in Version
    PROVE  /\ NumbersBelow(a, b) /\ NumbersBelow(b, c) => NumbersBelow(a, c)
           /\ NumbersBelow(a, b) /\ SameNumbers(b, c) => NumbersBelow(a, c)
           /\ SameNumbers(a, b) /\ NumbersBelow(b, c) => NumbersBelow(a, c)
           /\ SameNumbers(a, b) /\ SameNumbers(b, c) => SameNumbers(a, c)
  <1>1. ASSUME NumbersBelow(a, b), NumbersBelow(b, c)
        PROVE  NumbersBelow(a, c)
    <2>1. PICK i \in Positions : Part(a, i) < Part(b, i)
                                 /\ \A k \in 1..(i - 1) : Part(a, k) = Part(b, k)
      BY <1>1 DEF NumbersBelow
    <2>2. PICK j \in Positions : Part(b, j) < Part(c, j)
                                 /\ \A k \in 1..(j - 1) : Part(b, k) = Part(c, k)
      BY <1>1 DEF NumbersBelow
    <2>3. /\ Part(a, i) \in Nat /\ Part(b, i) \in Nat /\ Part(c, i) \in Nat
          /\ Part(a, j) \in Nat /\ Part(b, j) \in Nat /\ Part(c, j) \in Nat
      BY PartType
    <2>4. CASE i < j
      <3>1. Part(a, i) < Part(c, i) /\ \A k \in 1..(i - 1) : Part(a, k) = Part(c, k)
        BY <2>1, <2>2, <2>3, <2>4 DEF Positions
      <3>2. QED
        BY <3>1 DEF NumbersBelow
    <2>5. CASE j <= i
      <3>1. Part(a, j) < Part(c, j) /\ \A k \in 1..(j - 1) : Part(a, k) = Part(c, k)
        BY <2>1, <2>2, <2>3, <2>5 DEF Positions
      <3>2. QED
        BY <3>1 DEF NumbersBelow
    <2>6. QED
      BY <2>4, <2>5 DEF Positions
  <1>2. ASSUME NEW i \in Positions, NEW k \in 1..(i - 1)
        PROVE  k \in Positions
    BY DEF Positions
  <1>3. QED
    BY <1>1, <1>2 DEF NumbersBelow, SameNumbers

\* CompareNumbers says which of the three holds.
LEMMA CompareNumbersDecides ==
    ASSUME NEW a \in Version, NEW b \in Version
    PROVE  \/ CompareNumbers(a, b) = 0 /\ SameNumbers(a, b)
           \/ CompareNumbers(a, b) = 1 /\ NumbersBelow(b, a)
           \/ CompareNumbers(a, b) = -1 /\ NumbersBelow(a, b)
  <1> DEFINE longer == IF Len(a.nums) < Len(b.nums) THEN Len(b.nums) ELSE Len(a.nums)
             Order(i) == Sign(Part(a, i), Part(b, i))
             deciding == {i \in 1..longer : Order(i) # 0}
  <1>1. CompareNumbers(a, b) =
          IF \E i \in 1..longer : Order(i) # 0
          THEN Order(CHOOSE i \in 1..longer : Order(i) # 0 /\ \A j \in 1..(i - 1) : Order(j) = 0)
          ELSE 0
    BY DEF CompareNumbers, ByFirstDifference
  <1>2. longer \in Nat /\ Len(a.nums) <= longer /\ Len(b.nums) <= longer
    BY DEF Version
  <1> HIDE DEF longer
  <1>3. \A i \in Positions : /\ Part(a, i) \in Nat /\ Part(b, i) \in Nat
                             /\ Order(i) = 0 <=> Part(a, i) = Part(b, i)
    BY PartType DEF Sign
  <1>4. \A i \in Positions : i > longer => Part(a, i) = Part(b, i)
    BY <1>2 DEF Part, Positions, Version
  <1>5. 1..longer \subseteq Positions
    BY DEF Positions
  <1>6. CASE deciding = {}
    <2>1. \A i \in 1..longer : Order(i) = 0
      BY <1>6
    <2>2. CompareNumbers(a, b) = 0
      BY <1>1, <2>1
    <2>3. ASSUME NEW i \in Positions
          PROVE  Part(a, i) = Part(b, i)
      <3> HIDE DEF Order
      <3>1. CASE i \in 1..longer
        BY <1>3, <2>1, <3>1
      <3>2. CASE i \notin 1..longer
        BY <1>2, <1>4, <3>2 DEF Positions
      <3>3. QED
        BY <3>1, <3>2
    <2>4. QED
      BY <2>2, <2>3 DEF SameNumbers
  <1>7. CASE deciding # {}
    <2>1. PICK m \in deciding : \A k \in deciding : m <= k
      <3>1. deciding \in SUBSET Nat
        OBVIOUS
      <3> HIDE DEF deciding
      <3>2. QED
        BY <1>7, <3>1, LeastElement
    <2>2. m \in 1..longer /\ Order(m) # 0 /\ \A j \in 1..(m - 1) : Order(j) = 0
      BY <1>2, <2>1
    <2>3. PICK i \in 1..longer : /\ Order(i) # 0 /\ \A j \in 1..(i - 1) : Order(j) = 0
                                 /\ CompareNumbers(a, b) = Order(i)
      BY <1>1, <2>2
    <2>4. \A j \in 1..(i - 1) : Part(a, j) = Part(b, j)
      BY <1>2, <1>3, <2>3 DEF Positions
    <2>5. i \in Positions /\ Part(a, i) \in Nat /\ Part(b, i) \in Nat
      BY <1>3, <1>5
    <2>6. QED
      BY <2>3, <2>4, <2>5 DEF NumbersBelow, Sign
  <1>8. QED
    BY <1>6, <1>7

-----------------------------------------------------------------------------
(* Identifiers of pre-releases.                                            *)

LEMMA IdentifierFields ==
    ASSUME NEW a \in Identifier
    PROVE  /\ a.word \in BOOLEAN /\ a.value \in Nat /\ a.zeros \in Nat
           /\ a.word => a.zeros = 0
           /\ a = [word |-> a.word, value |-> a.value, zeros |-> a.zeros]
  <1>1. CASE a \in [word : {TRUE}, value : Nat, zeros : {0}]
    <2>1. a.word \in {TRUE} /\ a.value \in Nat /\ a.zeros = 0
      BY <1>1
    <2>2. a = [word |-> a.word, value |-> a.value, zeros |-> a.zeros]
      BY <1>1
    <2>3. /\ a.word \in BOOLEAN /\ a.value \in Nat /\ a.zeros \in Nat
          /\ a.word => a.zeros = 0
      <3>1. a.word \in BOOLEAN
        BY <2>1, Zenon
      <3>2. a.zeros \in Nat
        BY <2>1
      <3>3. QED
        BY <2>1, <3>1, <3>2
    <2>4. QED
      BY <2>2, <2>3
  <1>2. CASE a \in [word : {FALSE}, value : Nat, zeros : Nat]
    BY <1>2
  <1>3. QED
    BY <1>1, <1>2 DEF Identifier

LEMMA IdentifierOrder ==
    ASSUME NEW a \in Identifier, NEW b \in Identifier
    PROVE  /\ CompareIdentifier(a, b) \in {-1, 0, 1}
           /\ CompareIdentifier(a, b) = 0 <=> a = b
           /\ a \in UnpaddedIdentifier /\ b \in UnpaddedIdentifier =>
                  CompareIdentifier(a, b) = -1 <=> CompareIdentifier(b, a) = 1
  <1>1. /\ a.word \in BOOLEAN /\ a.value \in Nat /\ a.zeros \in Nat
        /\ b.word \in BOOLEAN /\ b.value \in Nat /\ b.zeros \in Nat
        /\ a.word => a.zeros = 0
        /\ b.word => b.zeros = 0
        /\ a.word = b.word /\ a.value = b.value /\ a.zeros = b.zeros => a = b
    <2>1. /\ a = [word |-> a.word, value |-> a.value, zeros |-> a.zeros]
          /\ b = [word |-> b.word, value |-> b.value, zeros |-> b.zeros]
      BY IdentifierFields
    <2>2. a.word = b.word /\ a.value = b.value /\ a.zeros = b.zeros => a = b
      BY <2>1
    <2>3. QED
      BY <2>2, IdentifierFields
  <1>2. CASE a = b
    <2>1. CompareIdentifier(a, b) = 0 /\ CompareIdentifier(b, a) = 0
      BY <1>2 DEF CompareIdentifier
    <2>2. QED
      BY <1>2, <2>1
  <1>3. CASE a # b /\ a.word /\ b.word
    BY <1>1, <1>3 DEF CompareIdentifier, Sign
  <1>4. CASE a # b /\ ~a.word /\ ~b.word
    <2>1. /\ CompareIdentifier(a, b) = IF a.value < b.value THEN -1 ELSE 1
          /\ CompareIdentifier(b, a) = IF b.value < a.value THEN -1 ELSE 1
      BY <1>4 DEF CompareIdentifier
    <2>2. a \in UnpaddedIdentifier /\ b \in UnpaddedIdentifier => a.value # b.value
      BY <1>1, <1>4 DEF UnpaddedIdentifier
    <2>3. QED
      BY <1>1, <1>4, <2>1, <2>2
  <1>5. CASE a.word # b.word
    BY <1>1, <1>5 DEF CompareIdentifier
  <1>6. QED
    BY <1>1, <1>2, <1>3, <1>4, <1>5

LEMMA IdentifierTransitive ==
    ASSUME NEW a \in UnpaddedIdentifier, NEW b \in UnpaddedIdentifier,
           NEW c \in UnpaddedIdentifier,
           CompareIdentifier(a, b) = -1, CompareIdentifier(b, c) = -1
    PROVE  CompareIdentifier(a, c) = -1
  <1>1. /\ a.word \in BOOLEAN /\ a.value \in Nat /\ a.zeros = 0
        /\ b.word \in BOOLEAN /\ b.value \in Nat /\ b.zeros = 0
        /\ c.word \in BOOLEAN /\ c.value \in Nat /\ c.zeros = 0
    BY IdentifierFields DEF UnpaddedIdentifier
  <1>2. /\ a # b /\ ~(a.word = b.word /\ a.value = b.value)
        /\ b # c /\ ~(b.word = c.word /\ b.value = c.value)
    <2>1. a # b /\ b # c
      BY IdentifierOrder DEF UnpaddedIdentifier
    <2>2. /\ a = [word |-> a.word, value |-> a.value, zeros |-> 0]
          /\ b = [word |-> b.word, value |-> b.value, zeros |-> 0]
          /\ c = [word |-> c.word, value |-> c.value, zeros |-> 0]
      BY <1>1, IdentifierFields DEF UnpaddedIdentifier
    <2>3. QED
      BY <2>1, <2>2
  <1>3. /\ a.word /\ b.word => a.value < b.value
        /\ ~a.word /\ ~b.word => a.value < b.value
        /\ a.word => b.word
    BY <1>1, <1>2 DEF CompareIdentifier, Sign
  <1>4. /\ b.word /\ c.word => b.value < c.value
        /\ ~b.word /\ ~c.word => b.value < c.value
        /\ b.word => c.word
    BY <1>1, <1>2 DEF CompareIdentifier, Sign
  <1>5. /\ a # c
        /\ a.word /\ c.word => a.value < c.value
        /\ ~a.word /\ ~c.word => a.value < c.value
        /\ a.word => c.word
    BY <1>1, <1>3, <1>4
  <1>6. QED
    BY <1>1, <1>5 DEF CompareIdentifier, Sign

-----------------------------------------------------------------------------
(* Pre-releases.                                                           *)

IdentifiersBelow(p, q) ==
    \E i \in 1..Len(p) :
        /\ i <= Len(q) /\ CompareIdentifier(p[i], q[i]) = -1
        /\ \A j \in 1..(i - 1) : p[j] = q[j]

ProperPrefix(p, q) == Len(p) < Len(q) /\ \A j \in 1..Len(p) : p[j] = q[j]

\* A pre-release comes before the release, and before those that only add to it.
PreBelow(p, q) ==
    p # <<>> /\ (q = <<>> \/ IdentifiersBelow(p, q) \/ ProperPrefix(p, q))

LEMMA ComparePrereleaseDecides ==
    ASSUME NEW p \in Seq(Identifier), NEW q \in Seq(Identifier)
    PROVE  \/ ComparePrerelease(p, q) = 0 /\ p = q
           \/ ComparePrerelease(p, q) = -1 /\ p # q /\ PreBelow(p, q)
           \/ /\ ComparePrerelease(p, q) = 1 /\ p # q
              /\ p \in Seq(UnpaddedIdentifier) /\ q \in Seq(UnpaddedIdentifier)
                    => PreBelow(q, p)
  <1> DEFINE shorter == IF Len(p) < Len(q) THEN Len(p) ELSE Len(q)
             Order(i) == CompareIdentifier(p[i], q[i])
             deciding == {i \in 1..shorter : Order(i) # 0}
             decided == IF \E i \in 1..shorter : Order(i) # 0
                        THEN Order(CHOOSE i \in 1..shorter :
                                       Order(i) # 0 /\ \A j \in 1..(i - 1) : Order(j) = 0)
                        ELSE 0
  <1>1. CASE p = q
    BY <1>1 DEF ComparePrerelease
  <1>2. CASE p # q /\ (p = <<>> \/ q = <<>>)
    BY <1>2 DEF ComparePrerelease, PreBelow
  <1>3. CASE p # q /\ p # <<>> /\ q # <<>>
    <2>1. ComparePrerelease(p, q) = IF decided # 0 THEN decided
                                    ELSE IF Len(p) < Len(q) THEN -1 ELSE 1
      BY <1>3 DEF ComparePrerelease, ByFirstDifference
    <2>2. /\ shorter \in Nat /\ shorter <= Len(p) /\ shorter <= Len(q)
          /\ shorter = Len(p) \/ shorter = Len(q)
          /\ Len(p) \in Nat /\ Len(q) \in Nat
      OBVIOUS
    <2> HIDE DEF shorter
    <2>3. \A i \in 1..shorter : p[i] \in Identifier /\ q[i] \in Identifier
      BY <2>2
    <2>4. \A i \in 1..shorter : Order(i) \in {-1, 0, 1} /\ (Order(i) = 0 <=> p[i] = q[i])
      BY <2>3, IdentifierOrder
    <2>5. CASE deciding = {}
      <3>1. decided = 0 /\ \A i \in 1..shorter : p[i] = q[i]
        BY <2>4, <2>5
      <3>2. Len(p) # Len(q)
        BY <1>3, <2>2, <3>1
      <3>3. CASE Len(p) < Len(q)
        BY <1>3, <2>1, <2>2, <3>1, <3>3 DEF PreBelow, ProperPrefix
      <3>4. CASE Len(q) < Len(p)
        <4>1. ComparePrerelease(p, q) = 1
          BY <2>1, <2>2, <3>1, <3>4
        <4>2. ProperPrefix(q, p)
          BY <2>2, <3>1, <3>4 DEF ProperPrefix
        <4>3. QED
          BY <1>3, <4>1, <4>2 DEF PreBelow
      <3>5. QED
        BY <2>2, <3>2, <3>3, <3>4
    <2>6. CASE deciding # {}
      <3>1. PICK m \in deciding : \A k \in deciding : m <= k
        <4>1. deciding \in SUBSET Nat
          BY <2>2
        <4> HIDE DEF deciding
        <4>2. QED
          BY <2>6, <4>1, LeastElement
      <3>2. m \in 1..shorter /\ Order(m) # 0 /\ \A j \in 1..(m - 1) : Order(j) = 0
        BY <2>2, <3>1
      <3>3. PICK i \in 1..shorter : /\ Order(i) # 0 /\ \A j \in 1..(i - 1) : Order(j) = 0
                                    /\ decided = Order(i)
        BY <3>2
      <3> HIDE DEF decided
      <3>4. i \in Nat /\ i <= Len(p) /\ i <= Len(q) /\ i \in 1..Len(p) /\ i \in 1..Len(q)
        BY <2>2
      <3>5. \A j \in 1..(i - 1) : p[j] = q[j] /\ q[j] = p[j]
        BY <2>2, <2>4, <3>3
      <3>6. ComparePrerelease(p, q) = Order(i) /\ Order(i) \in {-1, 1}
        BY <2>1, <2>4, <3>3
      <3>7. CASE Order(i) = -1
        BY <1>3, <3>4, <3>5, <3>6, <3>7 DEF PreBelow, IdentifiersBelow
      <3>8. CASE Order(i) = 1
        <4>1. ASSUME p \in Seq(UnpaddedIdentifier), q \in Seq(UnpaddedIdentifier)
              PROVE  PreBelow(q, p)
          <5>1. p[i] \in UnpaddedIdentifier /\ q[i] \in UnpaddedIdentifier
            BY <3>4, <4>1
          <5>2. CompareIdentifier(q[i], p[i]) = -1
            BY <3>8, <5>1, IdentifierOrder DEF UnpaddedIdentifier
          <5>3. QED
            BY <1>3, <3>4, <3>5, <5>2 DEF PreBelow, IdentifiersBelow
        <4>2. QED
          BY <1>3, <3>6, <3>8, <4>1
      <3>9. QED
        BY <3>6, <3>7, <3>8
    <2>7. QED
      BY <2>5, <2>6
  <1>4. QED
    BY <1>1, <1>2, <1>3

LEMMA PreExclusive ==
    ASSUME NEW p \in Seq(UnpaddedIdentifier), NEW q \in Seq(UnpaddedIdentifier),
           PreBelow(p, q), PreBelow(q, p)
    PROVE  FALSE
  <1>1. /\ \A i \in 1..Len(p) : p[i] \in UnpaddedIdentifier
        /\ \A i \in 1..Len(q) : q[i] \in UnpaddedIdentifier
        /\ Len(p) \in Nat /\ Len(q) \in Nat
    OBVIOUS
  <1>2. /\ IdentifiersBelow(p, q) \/ ProperPrefix(p, q)
        /\ IdentifiersBelow(q, p) \/ ProperPrefix(q, p)
    BY DEF PreBelow
  <1>3. \A i \in 1..Len(p) : i <= Len(q) =>
            /\ CompareIdentifier(p[i], q[i]) = -1 => CompareIdentifier(q[i], p[i]) = 1
            /\ CompareIdentifier(q[i], p[i]) = -1 => CompareIdentifier(p[i], q[i]) = 1
            /\ p[i] = q[i] => CompareIdentifier(p[i], q[i]) = 0
                              /\ CompareIdentifier(q[i], p[i]) = 0
    <2>1. SUFFICES ASSUME NEW i \in 1..Len(p), i <= Len(q)
                   PROVE  /\ CompareIdentifier(p[i], q[i]) = -1
                                => CompareIdentifier(q[i], p[i]) = 1
                          /\ CompareIdentifier(q[i], p[i]) = -1
                                => CompareIdentifier(p[i], q[i]) = 1
                          /\ p[i] = q[i] => CompareIdentifier(p[i], q[i]) = 0
                                            /\ CompareIdentifier(q[i], p[i]) = 0
      OBVIOUS
    <2>2. p[i] \in UnpaddedIdentifier /\ q[i] \in UnpaddedIdentifier
      BY <1>1, <2>1
    <2>3. p[i] \in Identifier /\ q[i] \in Identifier
      BY <2>2 DEF UnpaddedIdentifier
    <2>4. QED
      BY <2>2, <2>3, IdentifierOrder
  <1>4. ASSUME IdentifiersBelow(p, q), IdentifiersBelow(q, p)
        PROVE  FALSE
    <2>1. PICK i \in 1..Len(p) : /\ i <= Len(q) /\ CompareIdentifier(p[i], q[i]) = -1
                                 /\ \A k \in 1..(i - 1) : p[k] = q[k]
      BY <1>4 DEF IdentifiersBelow
    <2>2. PICK j \in 1..Len(q) : /\ j <= Len(p) /\ CompareIdentifier(q[j], p[j]) = -1
                                 /\ \A k \in 1..(j - 1) : q[k] = p[k]
      BY <1>4 DEF IdentifiersBelow
    <2>3. CASE i < j
      BY <1>1, <1>3, <2>1, <2>2, <2>3
    <2>4. CASE j < i
      BY <1>1, <1>3, <2>1, <2>2, <2>4
    <2>5. CASE i = j
      BY <1>1, <1>3, <2>1, <2>2, <2>5
    <2>6. QED
      BY <2>3, <2>4, <2>5
  <1>5. ASSUME IdentifiersBelow(p, q), ProperPrefix(q, p)
        PROVE  FALSE
    BY <1>1, <1>3, <1>5 DEF IdentifiersBelow, ProperPrefix
  <1>6. ASSUME ProperPrefix(p, q), IdentifiersBelow(q, p)
        PROVE  FALSE
    BY <1>1, <1>3, <1>6 DEF IdentifiersBelow, ProperPrefix
  <1>7. ASSUME ProperPrefix(p, q), ProperPrefix(q, p)
        PROVE  FALSE
    BY <1>1, <1>7 DEF ProperPrefix
  <1>8. QED
    BY <1>2, <1>4, <1>5, <1>6, <1>7

LEMMA PreTransitive ==
    ASSUME NEW p \in Seq(UnpaddedIdentifier), NEW q \in Seq(UnpaddedIdentifier),
           NEW r \in Seq(UnpaddedIdentifier), PreBelow(p, q), PreBelow(q, r)
    PROVE  PreBelow(p, r)
  <1>1. /\ \A i \in 1..Len(p) : p[i] \in UnpaddedIdentifier
        /\ \A i \in 1..Len(q) : q[i] \in UnpaddedIdentifier
        /\ \A i \in 1..Len(r) : r[i] \in UnpaddedIdentifier
        /\ Len(p) \in Nat /\ Len(q) \in Nat /\ Len(r) \in Nat
    OBVIOUS
  <1>2. /\ p # <<>>
        /\ IdentifiersBelow(p, q) \/ ProperPrefix(p, q)
        /\ r = <<>> \/ IdentifiersBelow(q, r) \/ ProperPrefix(q, r)
    BY DEF PreBelow
  <1>3. ASSUME IdentifiersBelow(p, q), IdentifiersBelow(q, r)
        PROVE  IdentifiersBelow(p, r)
    <2>1. PICK i \in 1..Len(p) : /\ i <= Len(q) /\ CompareIdentifier(p[i], q[i]) = -1
                                 /\ \A k \in 1..(i - 1) : p[k] = q[k]
      BY <1>3 DEF IdentifiersBelow
    <2>2. PICK j \in 1..Len(q) : /\ j <= Len(r) /\ CompareIdentifier(q[j], r[j]) = -1
                                 /\ \A k \in 1..(j - 1) : q[k] = r[k]
      BY <1>3 DEF IdentifiersBelow
    <2>3. CASE i < j
      <3>1. i \in 1..Len(p) /\ i <= Len(r) /\ CompareIdentifier(p[i], r[i]) = -1
            /\ \A k \in 1..(i - 1) : p[k] = r[k]
        BY <1>1, <2>1, <2>2, <2>3
      <3>2. QED
        BY <3>1 DEF IdentifiersBelow
    <2>4. CASE j < i
      <3>1. j \in 1..Len(p) /\ j <= Len(r) /\ CompareIdentifier(p[j], r[j]) = -1
            /\ \A k \in 1..(j - 1) : p[k] = r[k]
        BY <1>1, <2>1, <2>2, <2>4
      <3>2. QED
        BY <3>1 DEF IdentifiersBelow
    <2>5. CASE i = j
      <3>1. p[i] \in UnpaddedIdentifier /\ q[i] \in UnpaddedIdentifier
            /\ r[i] \in UnpaddedIdentifier /\ CompareIdentifier(q[i], r[i]) = -1
        BY <1>1, <2>1, <2>2, <2>5
      <3>2. CompareIdentifier(p[i], r[i]) = -1
        BY <2>1, <3>1, IdentifierTransitive
      <3>3. i <= Len(r) /\ \A k \in 1..(i - 1) : p[k] = r[k]
        BY <1>1, <2>1, <2>2, <2>5
      <3>4. QED
        BY <3>2, <3>3 DEF IdentifiersBelow
    <2>6. QED
      BY <2>3, <2>4, <2>5
  <1>4. ASSUME IdentifiersBelow(p, q), ProperPrefix(q, r)
        PROVE  IdentifiersBelow(p, r)
    <2>1. PICK i \in 1..Len(p) : /\ i <= Len(q) /\ CompareIdentifier(p[i], q[i]) = -1
                                 /\ \A k \in 1..(i - 1) : p[k] = q[k]
      BY <1>4 DEF IdentifiersBelow
    <2>2. i <= Len(r) /\ CompareIdentifier(p[i], r[i]) = -1
          /\ \A k \in 1..(i - 1) : p[k] = r[k]
      BY <1>1, <1>4, <2>1 DEF ProperPrefix
    <2>3. QED
      BY <2>2 DEF IdentifiersBelow
  <1>5. ASSUME ProperPrefix(p, q), IdentifiersBelow(q, r)
        PROVE  IdentifiersBelow(p, r) \/ ProperPrefix(p, r)
    <2>1. PICK j \in 1..Len(q) : /\ j <= Len(r) /\ CompareIdentifier(q[j], r[j]) = -1
                                 /\ \A k \in 1..(j - 1) : q[k] = r[k]
      BY <1>5 DEF IdentifiersBelow
    <2>2. CASE j <= Len(p)
      <3>1. j \in 1..Len(p) /\ CompareIdentifier(p[j], r[j]) = -1
            /\ \A k \in 1..(j - 1) : p[k] = r[k]
        BY <1>1, <1>5, <2>1, <2>2 DEF ProperPrefix
      <3>2. QED
        BY <2>1, <3>1 DEF IdentifiersBelow
    <2>3. CASE Len(p) < j
      BY <1>1, <1>5, <2>1, <2>3 DEF ProperPrefix
    <2>4. QED
      BY <1>1, <2>2, <2>3
  <1>6. ASSUME ProperPrefix(p, q), ProperPrefix(q, r)
        PROVE  ProperPrefix(p, r)
    BY <1>1, <1>6 DEF ProperPrefix
  <1>7. QED
    BY <1>2, <1>3, <1>4, <1>5, <1>6 DEF PreBelow

-----------------------------------------------------------------------------
(* Versions.                                                               *)

LEMMA SameVersion ==
    ASSUME NEW a \in Version, NEW b \in Version
    PROVE  CompareSemantic(a, b) = 0 <=> SameNumbers(a, b) /\ a.pre = b.pre
  <1>1. a.pre \in Seq(Identifier) /\ b.pre \in Seq(Identifier)
    BY DEF Version
  <1>2. ComparePrerelease(a.pre, b.pre) = 0 <=> a.pre = b.pre
    BY <1>1, ComparePrereleaseDecides
  <1>3. CompareNumbers(a, b) = 0 <=> SameNumbers(a, b)
    BY CompareNumbersDecides, NumbersExclusive
  <1>4. QED
    BY <1>2, <1>3 DEF CompareSemantic

(* The panel, which compares with the order of versions, and the runner's  *)
(* script, with a parser of its own, recognise a target in the same        *)
(* answers, padded numerals and missing numbers included: neither takes a  *)
(* version for the target that the other does not.  (versionMatchesTarget, *)
(* the health check of the runner's script)                                *)
THEOREM ParsersAgree ==
    ASSUME NEW current \in Version, NEW target \in Version
    PROVE  VersionMatchesTarget(current, target) <=> RunnerRecognises(current, target)
  <1>1. SUFFICES ASSUME ParsesSemantic(current), ParsesSemantic(target)
                 PROVE  SameNumbers(current, target)
                          <=> \A i \in 1..3 : Part(current, i) = Part(target, i)
    BY SameVersion DEF VersionMatchesTarget, RunnerRecognises
  <1>2. \A i \in Positions : i > 3 => Part(current, i) = 0 /\ Part(target, i) = 0
    BY <1>1 DEF ParsesSemantic, Part, Positions
  <1>3. ASSUME \A i \in 1..3 : Part(current, i) = Part(target, i), NEW i \in Positions
        PROVE  Part(current, i) = Part(target, i)
    <2>1. CASE i \in 1..3
      BY <1>3, <2>1
    <2>2. CASE i > 3
      BY <1>2, <2>2
    <2>3. QED
      BY <2>1, <2>2 DEF Positions
  <1>4. QED
    BY <1>3 DEF SameNumbers, Positions

Below(a, b) ==
    NumbersBelow(a, b) \/ (SameNumbers(a, b) /\ PreBelow(a.pre, b.pre))

LEMMA CompareDecides ==
    ASSUME NEW a \in Ordered, NEW b \in Ordered
    PROVE  \/ ComparePanelVersions(a, b) = 0 /\ SameNumbers(a, b) /\ a.pre = b.pre
           \/ ComparePanelVersions(a, b) = 1 /\ Below(b, a)
           \/ ComparePanelVersions(a, b) = -1 /\ Below(a, b)
  <1>1. /\ a \in Version /\ a.pre \in Seq(UnpaddedIdentifier) /\ a.pre \in Seq(Identifier)
        /\ b \in Version /\ b.pre \in Seq(UnpaddedIdentifier) /\ b.pre \in Seq(Identifier)
    BY DEF Ordered, Version
  <1>2. ComparePanelVersions(a, b) = CompareSemantic(a, b)
    BY DEF Ordered, ComparePanelVersions
  <1>3. \/ CompareNumbers(a, b) = 0 /\ SameNumbers(a, b)
        \/ CompareNumbers(a, b) = 1 /\ NumbersBelow(b, a)
        \/ CompareNumbers(a, b) = -1 /\ NumbersBelow(a, b)
    BY <1>1, CompareNumbersDecides
  <1>4. \/ ComparePrerelease(a.pre, b.pre) = 0 /\ a.pre = b.pre
        \/ ComparePrerelease(a.pre, b.pre) = 1 /\ PreBelow(b.pre, a.pre)
        \/ ComparePrerelease(a.pre, b.pre) = -1 /\ PreBelow(a.pre, b.pre)
    BY <1>1, ComparePrereleaseDecides
  <1>5. SameNumbers(a, b) => SameNumbers(b, a)
    BY DEF SameNumbers
  <1>6. QED
    BY <1>2, <1>3, <1>4, <1>5 DEF CompareSemantic, Below

LEMMA BelowExclusive ==
    ASSUME NEW a \in Ordered, NEW b \in Ordered, Below(a, b)
    PROVE  /\ ~Below(b, a)
           /\ ~(SameNumbers(a, b) /\ a.pre = b.pre) /\ ~(SameNumbers(b, a) /\ b.pre = a.pre)
  <1>1. /\ a \in Version /\ a.pre \in Seq(UnpaddedIdentifier)
        /\ b \in Version /\ b.pre \in Seq(UnpaddedIdentifier)
    BY DEF Ordered
  <1>2. ~(PreBelow(a.pre, b.pre) /\ PreBelow(b.pre, a.pre))
    BY <1>1, PreExclusive
  <1>3. SameNumbers(a, b) <=> SameNumbers(b, a)
    BY DEF SameNumbers
  <1>4. QED
    BY <1>1, <1>2, <1>3, NumbersExclusive DEF Below

(* Of two semantic versions without padded numerals, either both are one   *)
(* version or just one is the newer.  (comparePanelVersions,               *)
(* compareSemanticVersion)                                                 *)
THEOREM NewerIsAsymmetric ==
    ASSUME NEW a \in Ordered, NEW b \in Ordered
    PROVE  ComparePanelVersions(a, b) = -ComparePanelVersions(b, a)
  <1>1. SameNumbers(a, b) <=> SameNumbers(b, a)
    BY DEF SameNumbers
  <1>2. QED
    BY <1>1, CompareDecides, BelowExclusive

(* A version that is newer than a newer version is newer: the update check *)
(* orders semantic versions without padded numerals.                       *)
(* (isRemoteVersionNewer, comparePanelVersions)                            *)
THEOREM NewerIsTransitive ==
    ASSUME NEW a \in Ordered, NEW b \in Ordered, NEW c \in Ordered,
           IsRemoteVersionNewer(a, b), IsRemoteVersionNewer(b, c)
    PROVE  IsRemoteVersionNewer(a, c)
  <1>1. /\ a \in Version /\ a.pre \in Seq(UnpaddedIdentifier)
        /\ b \in Version /\ b.pre \in Seq(UnpaddedIdentifier)
        /\ c \in Version /\ c.pre \in Seq(UnpaddedIdentifier)
    BY DEF Ordered
  <1>2. Below(b, a) /\ Below(c, b)
    BY CompareDecides DEF IsRemoteVersionNewer
  <1>3. PreBelow(c.pre, b.pre) /\ PreBelow(b.pre, a.pre) => PreBelow(c.pre, a.pre)
    BY <1>1, PreTransitive
  <1>4. Below(c, a)
    BY <1>1, <1>2, <1>3, NumbersTransitive DEF Below
  <1>5. ~Below(a, c) /\ ~(SameNumbers(a, c) /\ a.pre = c.pre)
    BY <1>4, BelowExclusive
  <1>6. QED
    BY <1>5, CompareDecides DEF IsRemoteVersionNewer
=============================================================================
