------------------------------ MODULE DataLemmas ------------------------------
(***************************************************************************)
(* Facts about data that the proofs share: least numbers, and the sum of a *)
(* function over a finite set.                                             *)
(***************************************************************************)
EXTENDS Integers, Functions, FiniteSetTheorems, TLAPS

(* Every set of numbers with a member has a least one.                     *)
LEMMA LeastElement ==
    ASSUME NEW S \in SUBSET Nat, S # {}
    PROVE  \E m \in S : \A k \in S : m <= k
<1>. DEFINE R == OpToRel(<, Nat)
<1>1. IsWellFoundedOn(R, Nat)
  BY NatLessThanWellFounded
<1>2. \A x, y \in Nat : <<y, x>> \in R <=> y < x
  BY DEF OpToRel
<1>. HIDE DEF R
<1>3. PICK m \in S : \A k \in S : ~(<<k, m>> \in R)
  BY <1>1, WFMin
<1>4. ASSUME NEW k \in S PROVE m <= k
  <2>1. m \in Nat /\ k \in Nat /\ ~(k < m)
    BY <1>2, <1>3
  <2>. QED
    BY <2>1
<1>. QED
  BY <1>4

-----------------------------------------------------------------------------
(* SumFunction adds the values in the order in which CHOOSE takes the      *)
(* elements of the domain; what it is defined by is a function on subsets. *)

Taken(s) == CHOOSE x \in s : TRUE

Rest(s) == s \ {Taken(s)}

\* What the sum of f over s is, when g has the sums over smaller sets.
SumBy(f, g, s) == IF s = {} THEN 0 ELSE f[Taken(s)] + g[Rest(s)]

LEMMA TakenFacts ==
    ASSUME NEW s, s # {}, IsFiniteSet(s)
    PROVE  /\ Taken(s) \in s /\ Taken(s) \notin Rest(s)
           /\ s = Rest(s) \cup {Taken(s)}
           /\ IsFiniteSet(Rest(s)) /\ Rest(s) \subseteq s
           /\ Cardinality(s) \in Nat /\ Cardinality(Rest(s)) \in Nat
           /\ Cardinality(Rest(s)) < Cardinality(s)
<1>1. Taken(s) \in s
  BY DEF Taken
<1>2. IsFiniteSet(Rest(s)) /\ Cardinality(Rest(s)) = Cardinality(s) - 1
  BY <1>1, FS_RemoveElement DEF Rest
<1>3. Cardinality(s) \in Nat /\ Cardinality(Rest(s)) \in Nat
  BY <1>2, FS_CardinalityType
<1>. QED
  BY <1>1, <1>2, <1>3 DEF Rest

(* A function with these sums exists: one that is right on the sets of at  *)
(* most n elements makes one that is right on the sets of n + 1.           *)
LEMMA SumsExist ==
    ASSUME NEW S, IsFiniteSet(S), NEW f \in [S -> Nat]
    PROVE  \E g \in [SUBSET S -> Nat] : \A s \in SUBSET S : g[s] = SumBy(f, g, s)
<1>. DEFINE Right(g, n) == \A s \in SUBSET S : Cardinality(s) <= n => g[s] = SumBy(f, g, s)
            Bad == {n \in Nat : ~\E g \in [SUBSET S -> Nat] : Right(g, n)}
<1>1. \A s \in SUBSET S : IsFiniteSet(s) /\ Cardinality(s) \in Nat
  BY FS_Subset, FS_CardinalityType
<1>2. 0 \notin Bad
  <2>. DEFINE g == [s \in SUBSET S |-> 0]
  <2>1. g \in [SUBSET S -> Nat]
    OBVIOUS
  <2>2. ASSUME NEW s \in SUBSET S, Cardinality(s) <= 0 PROVE s = {}
    BY <1>1, <2>2, FS_EmptySet
  <2>3. Right(g, 0)
    BY <2>2 DEF SumBy
  <2>. QED
    BY <2>1, <2>3
<1>3. ASSUME NEW n \in Nat, n \notin Bad PROVE n + 1 \notin Bad
  <2>1. PICK g \in [SUBSET S -> Nat] : Right(g, n)
    BY <1>3
  <2>. DEFINE h == [s \in SUBSET S |-> SumBy(f, g, s)]
  <2>2. ASSUME NEW s \in SUBSET S PROVE SumBy(f, g, s) \in Nat
    BY <1>1, TakenFacts DEF SumBy
  <2>3. h \in [SUBSET S -> Nat]
    BY <2>2
  <2>4. ASSUME NEW s \in SUBSET S, Cardinality(s) <= n + 1 PROVE h[s] = SumBy(f, h, s)
    <3>1. CASE s = {}
      BY <3>1 DEF SumBy
    <3>2. CASE s # {}
      <4>1. Rest(s) \in SUBSET S /\ Cardinality(Rest(s)) <= n
        BY <1>1, <2>4, <3>2, TakenFacts
      <4>2. h[Rest(s)] = g[Rest(s)]
        BY <2>1, <4>1
      <4>3. h[s] = f[Taken(s)] + g[Rest(s)]
        BY <3>2 DEF SumBy
      <4>. QED
        BY <3>2, <4>2, <4>3 DEF SumBy
    <3>. QED
      BY <3>1, <3>2
  <2>5. Right(h, n + 1)
    BY <2>4
  <2>. HIDE DEF h
  <2>. QED
    BY <2>3, <2>5
<1>4. Bad = {}
  <2>1. SUFFICES ASSUME Bad # {} PROVE FALSE
    OBVIOUS
  <2>2. Bad \in SUBSET Nat
    OBVIOUS
  <2>. HIDE DEF Bad
  <2>3. PICK m \in Bad : \A k \in Bad : m <= k
    BY <2>1, <2>2, LeastElement
  <2>4. m \in Nat /\ m # 0
    BY <1>2, <2>2, <2>3
  <2>5. m - 1 \in Nat /\ m - 1 \notin Bad /\ (m - 1) + 1 = m
    BY <2>3, <2>4
  <2>. QED
    BY <1>3, <2>3, <2>5
<1>5. Cardinality(S) \in Nat
  BY FS_CardinalityType
<1>6. PICK g \in [SUBSET S -> Nat] : Right(g, Cardinality(S))
  BY <1>4, <1>5
<1>7. ASSUME NEW s \in SUBSET S PROVE Cardinality(s) <= Cardinality(S)
  BY FS_Subset
<1>. QED
  BY <1>6, <1>7


\* The partial sums by which SumFunction is defined.
Sums(f) == CHOOSE g : g = [s \in SUBSET DOMAIN f |-> SumBy(f, g, s)]

(* The partial sums exist and are the only ones, so that what CHOOSE takes *)
(* has them.                                                               *)
LEMMA SumsFacts ==
    ASSUME NEW S, IsFiniteSet(S), NEW f \in [S -> Nat]
    PROVE  \E g \in [SUBSET S -> Nat] :
              /\ \A s \in SUBSET S : g[s] = SumBy(f, g, s)
              /\ SumFunction(f) = g[S]
<1>0. PICK g \in [SUBSET S -> Nat] : \A s \in SUBSET S : g[s] = SumBy(f, g, s)
  BY SumsExist
<1>1. g = [s \in SUBSET S |-> SumBy(f, g, s)]
  BY <1>0
<1>2. Sums(f) = [s \in SUBSET S |-> SumBy(f, Sums(f), s)]
  BY <1>1 DEF Sums
<1>3. ASSUME NEW h, h = [s \in SUBSET S |-> SumBy(f, h, s)]
      PROVE  h = g
  <2>1. \A n \in Nat : \A s \in SUBSET S : Cardinality(s) = n => h[s] = g[s]
    <3>. DEFINE Bad == {n \in Nat : \E s \in SUBSET S : Cardinality(s) = n /\ h[s] # g[s]}
    <3>1. SUFFICES ASSUME Bad # {} PROVE FALSE
      OBVIOUS
    <3>2. PICK m \in Bad : \A k \in Bad : m <= k
      BY <3>1, LeastElement
    <3>3. PICK s \in SUBSET S : Cardinality(s) = m /\ h[s] # g[s]
      BY <3>2
    <3>4. h[s] = SumBy(f, h, s) /\ g[s] = SumBy(f, g, s)
      BY <1>1, <1>3
    <3>5. IsFiniteSet(s) /\ s # {}
      BY <3>3, <3>4, FS_Subset DEF SumBy
    <3>6. h[Rest(s)] # g[Rest(s)]
      BY <3>3, <3>4, <3>5 DEF SumBy
    <3>7. Rest(s) \in SUBSET S /\ Cardinality(Rest(s)) \in Nat /\ Cardinality(Rest(s)) < m
          /\ m \in Nat
      BY <3>3, <3>5, TakenFacts
    <3>8. Cardinality(Rest(s)) \in Bad
      BY <3>6, <3>7
    <3>. QED
      BY <3>2, <3>7, <3>8
  <2>2. \A s \in SUBSET S : Cardinality(s) \in Nat
    BY FS_Subset, FS_CardinalityType
  <2>. QED
    BY <1>1, <1>3, <2>1, <2>2
<1>4. Sums(f) = g
  BY <1>2, <1>3
<1>5. SumFunction(f) = (CHOOSE h : h = [s \in SUBSET S |->
                           IF s = {} THEN 0
                           ELSE LET x == CHOOSE y \in s : TRUE
                                IN  f[x] + h[s \ {x}]])[S]
  BY DEF SumFunction, SumFunctionOnSet, FoldFunction, FoldFunctionOnSet, MapThenFoldSet
<1>6. SumFunction(f) = (CHOOSE h : h = [s \in SUBSET S |-> SumBy(f, h, s)])[S]
  BY <1>5 DEF SumBy, Taken, Rest
<1>7. SumFunction(f) = Sums(f)[S]
  BY <1>6 DEF Sums
<1>. QED
  BY <1>0, <1>4, <1>7


(* Raising one value by d raises the sum by d: by induction on the size of *)
(* a set, its sum is raised by d if the raised value is one of its own.    *)
LEMMA SumRaised ==
    ASSUME NEW S, IsFiniteSet(S), NEW f \in [S -> Nat], NEW x \in S, NEW d \in Nat,
           NEW more, more = [f EXCEPT ![x] = @ + d]
    PROVE  SumFunction(more) = SumFunction(f) + d
<1>1. more \in [S -> Nat] /\ \A y \in S : more[y] = f[y] + (IF y = x THEN d ELSE 0)
  OBVIOUS
<1>2. PICK g \in [SUBSET S -> Nat] :
          /\ \A s \in SUBSET S : g[s] = SumBy(f, g, s)
          /\ SumFunction(f) = g[S]
  BY SumsFacts
<1>3. PICK h \in [SUBSET S -> Nat] :
          /\ \A s \in SUBSET S : h[s] = SumBy(more, h, s)
          /\ SumFunction(more) = h[S]
  BY <1>1, SumsFacts
<1>. DEFINE Extra(s) == IF x \in s THEN d ELSE 0
            Bad == {n \in Nat : \E s \in SUBSET S : Cardinality(s) = n /\ h[s] # g[s] + Extra(s)}
<1>4. ASSUME Bad # {} PROVE FALSE
  <2>1. PICK m \in Bad : \A k \in Bad : m <= k
    BY <1>4, LeastElement
  <2>2. PICK s \in SUBSET S : Cardinality(s) = m /\ h[s] # g[s] + Extra(s)
    BY <2>1
  <2>3. s # {}
    <3>1. g[{}] = 0 /\ h[{}] = 0 /\ Extra({}) = 0
      BY <1>2, <1>3 DEF SumBy
    <3>2. h[{}] = g[{}] + Extra({})
      BY <3>1
    <3>. HIDE DEF Extra
    <3>. QED
      BY <2>2, <3>2
  <2>4. /\ Taken(s) \in S /\ Taken(s) \notin Rest(s) /\ s = Rest(s) \cup {Taken(s)}
        /\ Rest(s) \in SUBSET S /\ Cardinality(Rest(s)) \in Nat /\ Cardinality(Rest(s)) < m
        /\ m \in Nat
    BY <2>2, <2>3, FS_Subset, TakenFacts
  <2>5. h[Rest(s)] = g[Rest(s)] + Extra(Rest(s))
    BY <2>1, <2>4
  <2>6. /\ g[s] = f[Taken(s)] + g[Rest(s)]
        /\ h[s] = f[Taken(s)] + (IF Taken(s) = x THEN d ELSE 0) + h[Rest(s)]
    BY <1>1, <1>2, <1>3, <2>3, <2>4 DEF SumBy
  <2>7. Extra(s) = Extra(Rest(s)) + (IF Taken(s) = x THEN d ELSE 0)
    BY <2>4
  <2>8. f[Taken(s)] \in Nat /\ g[Rest(s)] \in Nat /\ Extra(Rest(s)) \in Nat
    BY <1>2, <1>3, <2>4
  <2>. HIDE DEF Extra
  <2>. QED
    BY <2>2, <2>5, <2>6, <2>7, <2>8
<1>5. Cardinality(S) \in Nat
  BY FS_CardinalityType
<1>6. h[S] = g[S] + Extra(S)
  BY <1>4, <1>5
<1>. QED
  BY <1>2, <1>3, <1>6

(* Zeros add up to zero.                                                   *)
LEMMA SumOfZeros ==
    ASSUME NEW S, IsFiniteSet(S), NEW f, f = [s \in S |-> 0]
    PROVE  SumFunction(f) = 0
<1>0. f \in [S -> Nat]
  OBVIOUS
<1>1. PICK g \in [SUBSET S -> Nat] :
          /\ \A s \in SUBSET S : g[s] = SumBy(f, g, s)
          /\ SumFunction(f) = g[S]
  BY <1>0, SumsFacts
<1>. DEFINE Bad == {n \in Nat : \E s \in SUBSET S : Cardinality(s) = n /\ g[s] # 0}
<1>2. ASSUME Bad # {} PROVE FALSE
  <2>1. PICK m \in Bad : \A k \in Bad : m <= k
    BY <1>2, LeastElement
  <2>2. PICK s \in SUBSET S : Cardinality(s) = m /\ g[s] # 0
    BY <2>1
  <2>3. s # {}
    BY <1>1, <2>2 DEF SumBy
  <2>4. /\ Taken(s) \in S /\ Rest(s) \in SUBSET S
        /\ Cardinality(Rest(s)) \in Nat /\ Cardinality(Rest(s)) < m /\ m \in Nat
    BY <2>2, <2>3, FS_Subset, TakenFacts
  <2>5. g[Rest(s)] = 0
    BY <2>1, <2>4
  <2>6. g[s] = f[Taken(s)] + g[Rest(s)] /\ f[Taken(s)] = 0
    BY <1>1, <2>3, <2>4 DEF SumBy
  <2>. QED
    BY <2>2, <2>5, <2>6
<1>3. Cardinality(S) \in Nat
  BY FS_CardinalityType
<1>. QED
  BY <1>1, <1>2, <1>3

(* A sum of numbers is a number.                                           *)
LEMMA SumIsNumber ==
    ASSUME NEW S, IsFiniteSet(S), NEW f \in [S -> Nat]
    PROVE  SumFunction(f) \in Nat
<1>1. PICK g \in [SUBSET S -> Nat] : SumFunction(f) = g[S]
  BY SumsFacts
<1>. QED
  BY <1>1
===============================================================================
