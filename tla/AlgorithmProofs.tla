--------------------------- MODULE AlgorithmProofs ---------------------------
(***************************************************************************)
(* Theorems about the pure algorithms, for every input: a bill is split to  *)
(* the last cent and fairly, the months of a horizon are counted right, a   *)
(* break-even month is where the series turns, what is planned from a       *)
(* bank's file is the whole of it, and what is claimed of a ledger or found *)
(* to recur in an export is what its rows support.                          *)
(***************************************************************************)
EXTENDS MCAlgorithms, FiniteSetTheorems, SequenceTheorems, WellFoundedInduction, TLAPS

-----------------------------------------------------------------------------
(* Induction *)

\* A nonempty set of naturals has a least element.
LEMMA LeastNatural ==
  ASSUME NEW T \in SUBSET Nat, T # {}
  PROVE  \E m \in T : \A y \in T : m <= y
<1>1. PICK m \in T : \A y \in T : ~(<<y, m>> \in OpToRel(<, Nat))
  BY WFMin, NatLessThanWellFounded, Zenon
<1>2. \A y \in T : ~(y < m)
  BY <1>1 DEF OpToRel
<1> QED BY <1>2

\* Induction, over a set instead of a predicate.
LEMMA NaturalInduction ==
  ASSUME NEW T, 0 \in T, \A n \in Nat : n \in T => n + 1 \in T
  PROVE  \A n \in Nat : n \in T
<1> DEFINE Rest == {n \in Nat : n \notin T}
<1>1. SUFFICES ASSUME Rest # {} PROVE FALSE
  OBVIOUS
<1>2. PICK n \in Rest : \A m \in Rest : n <= m
  BY <1>1, LeastNatural
<1>3. n # 0 /\ n - 1 \in Nat
  BY <1>2
<1>4. n - 1 \in T
  BY <1>2, <1>3
<1>5. (n - 1) + 1 = n
  BY <1>2
<1> QED BY <1>2, <1>3, <1>4, <1>5

\* Induction over the subsets of a finite set, by one element more.
LEMMA SubsetInduction ==
  ASSUME NEW D, IsFiniteSet(D), NEW P, {} \in P,
         \A s \in SUBSET D : \A x \in D \ s : s \in P => s \cup {x} \in P
  PROVE  \A s \in SUBSET D : s \in P
<1> DEFINE T == {n \in Nat : \A s \in SUBSET D : Cardinality(s) = n => s \in P}
<1>1. \A s \in SUBSET D : IsFiniteSet(s) /\ Cardinality(s) \in Nat
  BY FS_Subset, FS_CardinalityType
<1>2. 0 \in T
  <2>1. \A s \in SUBSET D : Cardinality(s) = 0 => s = {}
    BY <1>1, FS_EmptySet
  <2> QED BY <2>1
<1>3. ASSUME NEW n \in Nat, n \in T PROVE n + 1 \in T
  <2> SUFFICES ASSUME NEW s \in SUBSET D, Cardinality(s) = n + 1 PROVE s \in P
    OBVIOUS
  <2>2. s # {}
    <3>1. Cardinality({}) = 0 /\ n + 1 # 0
      BY FS_EmptySet
    <3> QED BY <3>1
  <2>3. PICK x : x \in s
    BY <2>2
  <2>4. IsFiniteSet(s) /\ Cardinality(s \ {x}) = Cardinality(s) - 1
    BY <1>1, <2>3, FS_RemoveElement
  <2>5. s \ {x} \in P /\ s \ {x} \in SUBSET D /\ x \in D \ (s \ {x})
    BY <1>3, <2>3, <2>4
  <2>6. (s \ {x}) \cup {x} = s
    BY <2>3
  <2>7. (s \ {x}) \cup {x} \in P
    BY <2>5
  <2> QED BY <2>6, <2>7
<1> HIDE DEF T
<1>4. \A n \in Nat : n \in T
  BY <1>2, <1>3, NaturalInduction
<1>5. TAKE s \in SUBSET D
<1>6. Cardinality(s) \in Nat /\ Cardinality(s) \in T
  BY <1>1, <1>4
<1> QED BY <1>6 DEF T

-----------------------------------------------------------------------------
(* Sums *)

OneOf(s) == CHOOSE x \in s : TRUE

LEMMA OneOfIsIn ==
  ASSUME NEW s, s # {}
  PROVE  OneOf(s) \in s
BY DEF OneOf

\* The recursion of SumFunctionOnSet, which takes its elements in any order.
Sums(iter, f, D) ==
  iter = [s \in SUBSET D |-> IF s = {} THEN 0 ELSE f[OneOf(s)] + iter[s \ {OneOf(s)}]]

\* Sums, up to a number of elements.
SumsTo(iter, f, D, n) ==
  /\ DOMAIN iter = SUBSET D
  /\ \A s \in SUBSET D : Cardinality(s) <= n =>
       iter[s] = IF s = {} THEN 0 ELSE f[OneOf(s)] + iter[s \ {OneOf(s)}]

LEMMA SumExists ==
  ASSUME NEW D, IsFiniteSet(D), NEW f
  PROVE  \E iter : Sums(iter, f, D)
<1>1. \A s \in SUBSET D : IsFiniteSet(s) /\ Cardinality(s) \in Nat /\ Cardinality(s) <= Cardinality(D)
  BY FS_Subset, FS_CardinalityType
<1>2. \A s \in SUBSET D : s # {} =>
        OneOf(s) \in s /\ s \ {OneOf(s)} \in SUBSET D /\ Cardinality(s \ {OneOf(s)}) = Cardinality(s) - 1
  BY <1>1, OneOfIsIn, FS_RemoveElement
<1> DEFINE T == {n \in Nat : \E iter : SumsTo(iter, f, D, n)}
<1>3. 0 \in T
  <2> DEFINE g == [s \in SUBSET D |-> 0]
  <2>1. \A s \in SUBSET D : Cardinality(s) <= 0 => s = {}
    BY <1>1, FS_EmptySet
  <2>2. SumsTo(g, f, D, 0)
    BY <2>1 DEF SumsTo
  <2> QED BY <2>2
<1>4. ASSUME NEW n \in Nat, n \in T PROVE n + 1 \in T
  <2>1. PICK g : SumsTo(g, f, D, n)
    BY <1>4
  <2> DEFINE h == [s \in SUBSET D |-> IF Cardinality(s) <= n THEN g[s]
                                      ELSE f[OneOf(s)] + g[s \ {OneOf(s)}]]
  <2>2. ASSUME NEW s \in SUBSET D, Cardinality(s) <= n + 1
        PROVE  h[s] = IF s = {} THEN 0 ELSE f[OneOf(s)] + h[s \ {OneOf(s)}]
    <3>1. CASE s = {}
      <4>1. Cardinality(s) = 0
        BY <3>1, FS_EmptySet
      <4>2. h[s] = g[s]
        BY <4>1
      <4>3. g[s] = 0
        BY <2>1, <3>1, <4>1 DEF SumsTo
      <4> QED BY <3>1, <4>2, <4>3
    <3>2. CASE s # {}
      <4> DEFINE r == s \ {OneOf(s)}
      <4>1. r \in SUBSET D /\ Cardinality(r) <= n
        BY <1>1, <1>2, <2>2, <3>2
      <4>2. h[r] = g[r]
        BY <4>1
      <4>3. h[s] = f[OneOf(s)] + g[r]
        <5>1. CASE Cardinality(s) <= n
          BY <2>1, <3>2, <5>1 DEF SumsTo
        <5>2. CASE ~(Cardinality(s) <= n)
          BY <5>2
        <5> QED BY <5>1, <5>2
      <4> QED BY <3>2, <4>2, <4>3
    <3> QED BY <3>1, <3>2
  <2> HIDE DEF h
  <2>3. DOMAIN h = SUBSET D
    BY DEF h
  <2>4. SumsTo(h, f, D, n + 1)
    BY <2>2, <2>3 DEF SumsTo
  <2> QED BY <2>4
<1> HIDE DEF T
<1>5. Cardinality(D) \in T
  BY <1>1, <1>3, <1>4, NaturalInduction
<1>6. PICK g : SumsTo(g, f, D, Cardinality(D))
  BY <1>5 DEF T
<1> DEFINE k == [s \in SUBSET D |-> g[s]]
<1>7. ASSUME NEW s \in SUBSET D
      PROVE  k[s] = IF s = {} THEN 0 ELSE f[OneOf(s)] + k[s \ {OneOf(s)}]
  <2>1. s # {} => k[s \ {OneOf(s)}] = g[s \ {OneOf(s)}]
    BY <1>2
  <2>2. g[s] = IF s = {} THEN 0 ELSE f[OneOf(s)] + g[s \ {OneOf(s)}]
    BY <1>1, <1>6 DEF SumsTo
  <2> QED BY <2>1, <2>2
<1> DEFINE again == [s \in SUBSET D |-> IF s = {} THEN 0 ELSE f[OneOf(s)] + k[s \ {OneOf(s)}]]
<1>8. k = again
  <2>1. \A s \in SUBSET D : k[s] = again[s]
    <3> HIDE DEF k
    <3> QED BY <1>7
  <2> QED BY <2>1
<1>9. Sums(k, f, D)
  BY <1>8 DEF Sums
<1> QED BY <1>9

LEMMA SumUnfolds ==
  ASSUME NEW D, IsFiniteSet(D), NEW f
  PROVE  \E iter : Sums(iter, f, D) /\ SumFunctionOnSet(f, D) = iter[D]
<1> DEFINE iter == CHOOSE iter : iter = [s \in SUBSET D |->
                     IF s = {} THEN 0 ELSE f[CHOOSE x \in s : TRUE] + iter[s \ {CHOOSE x \in s : TRUE}]]
<1>1. SumFunctionOnSet(f, D) = iter[D]
  BY DEF SumFunctionOnSet, FoldFunctionOnSet, MapThenFoldSet
<1>2. iter = CHOOSE g : Sums(g, f, D)
  BY DEF Sums, OneOf
<1> HIDE DEF iter
<1>3. Sums(iter, f, D)
  BY <1>2, SumExists
<1> QED BY <1>1, <1>3

\* Two such recursions agree on the sets they share.
LEMMA SumsAgree ==
  ASSUME NEW A, NEW B, IsFiniteSet(A), A \subseteq B, NEW f, NEW g, NEW h, NEW k,
         Sums(g, f, A), Sums(h, k, B), \A x \in A : f[x] = k[x]
  PROVE  \A s \in SUBSET A : g[s] = h[s]
<1>1. \A s \in SUBSET A : g[s] = IF s = {} THEN 0 ELSE f[OneOf(s)] + g[s \ {OneOf(s)}]
  BY DEF Sums
<1>2. \A s \in SUBSET A : h[s] = IF s = {} THEN 0 ELSE k[OneOf(s)] + h[s \ {OneOf(s)}]
  <2>1. \A s \in SUBSET B : h[s] = IF s = {} THEN 0 ELSE k[OneOf(s)] + h[s \ {OneOf(s)}]
    BY DEF Sums
  <2>2. \A s \in SUBSET A : s \in SUBSET B
    OBVIOUS
  <2> QED BY <2>1, <2>2
<1>3. \A s \in SUBSET A : IsFiniteSet(s) /\ Cardinality(s) \in Nat
  BY FS_Subset, FS_CardinalityType
<1> DEFINE T == {n \in Nat : \A s \in SUBSET A : Cardinality(s) = n => g[s] = h[s]}
<1>4. 0 \in T
  <2>1. ASSUME NEW s \in SUBSET A, Cardinality(s) = 0 PROVE g[s] = h[s]
    <3>1. s = {}
      BY <1>3, <2>1, FS_EmptySet
    <3> QED BY <1>1, <1>2, <3>1
  <2> QED BY <2>1
<1>5. ASSUME NEW n \in Nat, n \in T PROVE n + 1 \in T
  <2>1. ASSUME NEW s \in SUBSET A, Cardinality(s) = n + 1 PROVE g[s] = h[s]
    <3>1. s # {}
      BY <2>1, FS_EmptySet
    <3>2. OneOf(s) \in s
      BY <3>1, OneOfIsIn
    <3>3. Cardinality(s \ {OneOf(s)}) = n /\ s \ {OneOf(s)} \in SUBSET A
      <4>1. Cardinality(s \ {OneOf(s)}) = Cardinality(s) - 1
        BY <1>3, <3>2, FS_RemoveElement
      <4> QED BY <2>1, <4>1
    <3>4. g[s \ {OneOf(s)}] = h[s \ {OneOf(s)}]
      BY <1>5, <3>3
    <3>5. f[OneOf(s)] = k[OneOf(s)]
      BY <3>2
    <3> QED BY <1>1, <1>2, <3>1, <3>4, <3>5
  <2> QED BY <2>1
<1> HIDE DEF T
<1>6. \A n \in Nat : n \in T
  BY <1>4, <1>5, NaturalInduction
<1> QED BY <1>3, <1>6 DEF T

\* A sum is of the values, taken in any order.
LEMMA SumsRemove ==
  ASSUME NEW D, IsFiniteSet(D), NEW f, \A x \in D : f[x] \in Int, NEW g, Sums(g, f, D),
         NEW whole \in SUBSET D
  PROVE  g[whole] \in Int /\ \A x \in whole : g[whole] = f[x] + g[whole \ {x}]
<1>1. \A s \in SUBSET D : g[s] = IF s = {} THEN 0 ELSE f[OneOf(s)] + g[s \ {OneOf(s)}]
  BY DEF Sums
<1>2. \A s \in SUBSET D : IsFiniteSet(s) /\ Cardinality(s) \in Nat
  BY FS_Subset, FS_CardinalityType
<1> DEFINE Good(s) == g[s] \in Int /\ \A x \in s : g[s] = f[x] + g[s \ {x}]
           T == {n \in Nat : \A s \in SUBSET D : Cardinality(s) <= n => Good(s)}
<1>3. Good({})
  <2>1. g[{}] = 0
    BY <1>1
  <2> QED BY <2>1
<1>4. 0 \in T
  <2>1. \A s \in SUBSET D : Cardinality(s) <= 0 => s = {}
    BY <1>2, FS_EmptySet
  <2> HIDE DEF Good
  <2> QED BY <1>3, <2>1
<1>5. ASSUME NEW n \in Nat, n \in T PROVE n + 1 \in T
  <2>1. ASSUME NEW s \in SUBSET D, Cardinality(s) <= n + 1, s # {} PROVE Good(s)
    <3> DEFINE o == OneOf(s)
    <3>1. o \in s
      BY <2>1, OneOfIsIn
    <3>2. ASSUME NEW x \in s PROVE Good(s \ {x})
      <4>1. Cardinality(s \ {x}) = Cardinality(s) - 1
        BY <1>2, FS_RemoveElement
      <4>2. Cardinality(s \ {x}) <= n /\ s \ {x} \in SUBSET D
        BY <1>2, <2>1, <4>1
      <4> QED BY <1>5, <4>2
    <3>3. g[s] = f[o] + g[s \ {o}] /\ f[o] \in Int /\ g[s \ {o}] \in Int
      BY <1>1, <2>1, <3>1, <3>2
    <3>4. ASSUME NEW x \in s, x # o PROVE g[s] = f[x] + g[s \ {x}]
      <4> DEFINE r == (s \ {o}) \ {x}
      <4>1. g[s \ {o}] = f[x] + g[r]
        BY <3>1, <3>2, <3>4
      <4>2. o \in s \ {x} /\ (s \ {x}) \ {o} = r
        BY <3>1, <3>4
      <4>3. g[s \ {x}] = f[o] + g[r]
        BY <3>2, <4>2
      <4>4. g[r] \in Int
        <5>1. Cardinality(s \ {x}) = Cardinality(s) - 1 /\ IsFiniteSet(s \ {x})
          BY <1>2, FS_RemoveElement
        <5>2. Cardinality((s \ {x}) \ {o}) = Cardinality(s \ {x}) - 1
          <6> HIDE DEF o, r
          <6> QED BY <4>2, <5>1, FS_RemoveElement
        <5>4. r \in SUBSET D
          OBVIOUS
        <5>5. Cardinality(r) = Cardinality(s \ {x}) - 1
          BY <4>2, <5>2, Zenon
        <5>6. Cardinality(s) \in Nat
          BY <1>2
        <5>3. Cardinality(r) <= n
          <6> HIDE DEF o, r
          <6> QED BY <2>1, <5>1, <5>5, <5>6
        <5> QED BY <1>5, <5>4, <5>3
      <4>5. f[x] \in Int
        OBVIOUS
      <4> HIDE DEF o, r
      <4> QED BY <3>3, <4>1, <4>3, <4>4, <4>5
    <3>5. g[s] \in Int
      BY <3>3
    <3> QED BY <3>3, <3>4, <3>5
  <2> HIDE DEF Good
  <2> QED BY <1>3, <2>1
<1> HIDE DEF T
<1>6. \A n \in Nat : n \in T
  BY <1>4, <1>5, NaturalInduction
<1>7. Good(whole)
  BY <1>2, <1>6 DEF T
<1> QED BY <1>7

\* What a sum is, one element at a time.
LEMMA SumOfNone ==
  ASSUME NEW f
  PROVE  SumFunctionOnSet(f, {}) = 0
<1>1. PICK g : Sums(g, f, {}) /\ SumFunctionOnSet(f, {}) = g[{}]
  BY SumUnfolds, FS_EmptySet
<1> QED BY <1>1 DEF Sums

LEMMA SumOfOneMore ==
  ASSUME NEW s, IsFiniteSet(s), NEW x, x \notin s, NEW f, \A y \in s \cup {x} : f[y] \in Int
  PROVE  SumFunctionOnSet(f, s \cup {x}) = f[x] + SumFunctionOnSet(f, s)
<1> DEFINE D == s \cup {x}
<1>1. IsFiniteSet(D)
  BY FS_AddElement
<1>2. PICK g : Sums(g, f, D) /\ SumFunctionOnSet(f, D) = g[D]
  BY <1>1, SumUnfolds
<1>3. PICK h : Sums(h, f, s) /\ SumFunctionOnSet(f, s) = h[s]
  BY SumUnfolds
<1>4. g[D] = f[x] + g[D \ {x}]
  <2>1. \A y \in D : f[y] \in Int
    OBVIOUS
  <2>2. x \in D
    OBVIOUS
  <2> HIDE DEF D
  <2>3. \A y \in D : g[D] = f[y] + g[D \ {y}]
    <3>1. IsFiniteSet(D) /\ Sums(g, f, D)
      BY <1>1, <1>2
    <3> QED BY <2>1, <3>1, SumsRemove
  <2> QED BY <2>2, <2>3
<1>5. D \ {x} = s
  OBVIOUS
<1>6. \A t \in SUBSET s : h[t] = g[t]
  <2>1. s \subseteq D /\ \A y \in s : f[y] = f[y]
    OBVIOUS
  <2> HIDE DEF D
  <2> QED BY <1>2, <1>3, <2>1, SumsAgree
<1>7. h[s] = g[s]
  BY <1>6
<1> QED BY <1>2, <1>3, <1>4, <1>5, <1>7

LEMMA SumIsWhole ==
  ASSUME NEW s, IsFiniteSet(s), NEW f, \A y \in s : f[y] \in Int
  PROVE  SumFunctionOnSet(f, s) \in Int
<1>1. PICK g : Sums(g, f, s) /\ SumFunctionOnSet(f, s) = g[s]
  BY SumUnfolds
<1>2. g[s] \in Int
  BY <1>1, SumsRemove
<1> QED BY <1>1, <1>2

\* A sum of sums.
LEMMA SumOfSums ==
  ASSUME NEW D, IsFiniteSet(D), NEW f, NEW g, NEW h,
         \A x \in D : f[x] \in Int /\ g[x] \in Int /\ h[x] = f[x] + g[x]
  PROVE  SumFunctionOnSet(h, D) = SumFunctionOnSet(f, D) + SumFunctionOnSet(g, D)
<1> DEFINE F(s) == SumFunctionOnSet(f, s)
           G(s) == SumFunctionOnSet(g, s)
           H(s) == SumFunctionOnSet(h, s)
           P == {s \in SUBSET D : H(s) = F(s) + G(s)}
<1>1. {} \in P
  BY SumOfNone
<1>2. ASSUME NEW s \in SUBSET D, NEW x \in D \ s, s \in P PROVE s \cup {x} \in P
  <2>1. IsFiniteSet(s)
    BY FS_Subset
  <2>2. F(s) \in Int /\ G(s) \in Int /\ H(s) = F(s) + G(s)
    BY <1>2, <2>1, SumIsWhole
  <2>3. F(s \cup {x}) = f[x] + F(s) /\ G(s \cup {x}) = g[x] + G(s) /\ H(s \cup {x}) = h[x] + H(s)
    <3>1. \A y \in s \cup {x} : f[y] \in Int /\ g[y] \in Int /\ h[y] \in Int
      OBVIOUS
    <3> QED BY <2>1, <3>1, SumOfOneMore
  <2>4. f[x] \in Int /\ g[x] \in Int /\ h[x] = f[x] + g[x]
    OBVIOUS
  <2> HIDE DEF F, G, H
  <2>5. H(s \cup {x}) = F(s \cup {x}) + G(s \cup {x})
    BY <2>2, <2>3, <2>4
  <2> QED BY <2>5
<1> HIDE DEF P
<1>3. D \in P
  BY <1>1, <1>2, SubsetInduction
<1> QED BY <1>3 DEF P

LEMMA SumsEqual ==
  ASSUME NEW D, IsFiniteSet(D), NEW f, NEW g, \A x \in D : f[x] = g[x]
  PROVE  SumFunctionOnSet(f, D) = SumFunctionOnSet(g, D)
<1>1. PICK h : Sums(h, f, D) /\ SumFunctionOnSet(f, D) = h[D]
  BY SumUnfolds
<1>2. PICK k : Sums(k, g, D) /\ SumFunctionOnSet(g, D) = k[D]
  BY SumUnfolds
<1>3. \A s \in SUBSET D : h[s] = k[s]
  <2>1. D \subseteq D
    OBVIOUS
  <2> QED BY <1>1, <1>2, <2>1, SumsAgree
<1> QED BY <1>1, <1>2, <1>3

\* A sum of nothing but zeros is twice itself.
LEMMA SumOfZeros ==
  ASSUME NEW D, IsFiniteSet(D), NEW f, \A x \in D : f[x] = 0
  PROVE  SumFunctionOnSet(f, D) = 0
<1>1. SumFunctionOnSet(f, D) \in Int
  BY SumIsWhole
<1>2. \A x \in D : f[x] \in Int /\ f[x] \in Int /\ f[x] = f[x] + f[x]
  OBVIOUS
<1> DEFINE whole == SumFunctionOnSet(f, D)
<1>3. whole = whole + whole /\ whole \in Int
  BY <1>1, <1>2, SumOfSums
<1> HIDE DEF whole
<1>4. whole = 0
  BY <1>3
<1> QED BY <1>4 DEF whole

\* Elements that add nothing may be left out.
LEMMA SumOnSubset ==
  ASSUME NEW D, IsFiniteSet(D), NEW A \in SUBSET D, NEW f, NEW g,
         \A x \in D : f[x] \in Int, \A x \in A : g[x] = f[x], \A x \in D \ A : f[x] = 0
  PROVE  SumFunctionOnSet(g, A) = SumFunctionOnSet(f, D)
<1> DEFINE R == D \ A
           P == {s \in SUBSET R : SumFunctionOnSet(f, A \cup s) = SumFunctionOnSet(f, A)}
<1>1. IsFiniteSet(A) /\ IsFiniteSet(R)
  BY FS_Subset
<1>2. {} \in P
  <2>1. A \cup {} = A
    OBVIOUS
  <2> QED BY <2>1
<1>3. ASSUME NEW s \in SUBSET R, NEW x \in R \ s, s \in P PROVE s \cup {x} \in P
  <2>1. IsFiniteSet(A \cup s) /\ x \notin A \cup s
    <3>1. A \cup s \in SUBSET D
      OBVIOUS
    <3> QED BY <3>1, FS_Subset
  <2>2. \A y \in (A \cup s) \cup {x} : f[y] \in Int
    OBVIOUS
  <2>3. SumFunctionOnSet(f, (A \cup s) \cup {x}) = f[x] + SumFunctionOnSet(f, A \cup s)
    BY <2>1, <2>2, SumOfOneMore
  <2>4. SumFunctionOnSet(f, A \cup s) \in Int /\ f[x] = 0
    BY <2>1, <2>2, SumIsWhole
  <2>5. (A \cup s) \cup {x} = A \cup (s \cup {x})
    OBVIOUS
  <2>6. SumFunctionOnSet(f, (A \cup s) \cup {x}) = SumFunctionOnSet(f, A \cup s)
    <3> DEFINE before == SumFunctionOnSet(f, A \cup s)
               after == SumFunctionOnSet(f, (A \cup s) \cup {x})
    <3>1. after = f[x] + before /\ before \in Int /\ f[x] = 0
      BY <2>3, <2>4
    <3> HIDE DEF before, after
    <3>2. after = before
      BY <3>1
    <3> QED BY <3>2 DEF before, after
  <2>7. SumFunctionOnSet(f, A \cup s) = SumFunctionOnSet(f, A)
    BY <1>3
  <2>8. SumFunctionOnSet(f, A \cup (s \cup {x})) = SumFunctionOnSet(f, A)
    BY <2>5, <2>6, <2>7
  <2> QED BY <2>8
<1> HIDE DEF P
<1>4. R \in P
  <2> HIDE DEF R
  <2>1. \A s \in SUBSET R : s \in P
    BY <1>1, <1>2, <1>3, SubsetInduction
  <2> QED BY <2>1
<1>5. A \cup R = D
  OBVIOUS
<1>6. SumFunctionOnSet(g, A) = SumFunctionOnSet(f, A)
  BY <1>1, SumsEqual
<1> QED BY <1>4, <1>5, <1>6 DEF P

\* What is summed is split by class, and the classes hold whatever counts.
Splits(part, class, g, S, C) ==
  /\ \A x \in S : g[x] \in Int /\ (g[x] # 0 => class[x] \in C)
  /\ \A c \in C : \A x \in S : part[c][x] = IF class[x] = c THEN g[x] ELSE 0

\* A sum may be taken class by class.
LEMMA SumByClass ==
  ASSUME NEW S, IsFiniteSet(S), NEW C, IsFiniteSet(C), NEW g, NEW class, NEW part, NEW t,
         Splits(part, class, g, S, C),
         \A c \in C : t[c] = SumFunctionOnSet(part[c], S)
  PROVE  SumFunctionOnSet(t, C) = SumFunctionOnSet(g, S)
<1> DEFINE OfClasses(s) == [x \in S |-> IF class[x] \in s THEN g[x] ELSE 0]
           P == {s \in SUBSET C : SumFunctionOnSet(t, s) = SumFunctionOnSet(OfClasses(s), S)}
<1>1. {} \in P
  <2>1. \A x \in S : OfClasses({})[x] = 0
    OBVIOUS
  <2> HIDE DEF OfClasses
  <2>2. SumFunctionOnSet(OfClasses({}), S) = 0
    BY <2>1, SumOfZeros
  <2> QED BY <2>2, SumOfNone
<1>4. \A c \in C : t[c] \in Int
  <2> TAKE c \in C
  <2>1. \A x \in S : part[c][x] \in Int
    BY DEF Splits
  <2>2. SumFunctionOnSet(part[c], S) \in Int
    BY <2>1, SumIsWhole
  <2> QED BY <2>2
<1>5. ASSUME NEW s \in SUBSET C, NEW c \in C \ s, s \in P PROVE s \cup {c} \in P
  <2> DEFINE one == part[c]
             some == OfClasses(s)
             more == OfClasses(s \cup {c})
  <2>1. \A x \in S : one[x] \in Int /\ some[x] \in Int /\ more[x] = one[x] + some[x]
    BY DEF Splits
  <2>2. IsFiniteSet(s) /\ c \notin s
    BY FS_Subset
  <2>3. t[c] = SumFunctionOnSet(one, S)
    OBVIOUS
  <2>4. SumFunctionOnSet(t, s) = SumFunctionOnSet(some, S)
    BY <1>5
  <2>5. \A d \in s \cup {c} : t[d] \in Int
    BY <1>4
  <2> HIDE DEF one, some, more
  <2>6. SumFunctionOnSet(more, S) = SumFunctionOnSet(one, S) + SumFunctionOnSet(some, S)
    BY <2>1, SumOfSums
  <2>7. SumFunctionOnSet(t, s \cup {c}) = t[c] + SumFunctionOnSet(t, s)
    BY <2>2, <2>5, SumOfOneMore
  <2>8. SumFunctionOnSet(t, s \cup {c}) = SumFunctionOnSet(more, S)
    BY <2>3, <2>4, <2>6, <2>7
  <2> QED BY <2>8 DEF more
<1>6. \A x \in S : OfClasses(C)[x] = g[x]
  BY DEF Splits
<1> HIDE DEF P
<1>7. C \in P
  <2>1. \A s \in SUBSET C : s \in P
    BY <1>1, <1>5, SubsetInduction
  <2> QED BY <2>1
<1>8. SumFunctionOnSet(t, C) = SumFunctionOnSet(OfClasses(C), S)
  BY <1>7 DEF P
<1> HIDE DEF OfClasses
<1>9. SumFunctionOnSet(OfClasses(C), S) = SumFunctionOnSet(g, S)
  BY <1>6, SumsEqual
<1> QED BY <1>8, <1>9

\* Arithmetic, kept from the provers where only these facts about it matter.
Times(a, b) == a * b
Quotient(a, b) == a \div b
Remainder(a, b) == a % b

LEMMA ProductIsWhole ==
  ASSUME NEW a \in Int, NEW b \in Int
  PROVE  Times(a, b) \in Int
BY DEF Times

LEMMA ProductIsNatural ==
  ASSUME NEW a \in Nat, NEW b \in Nat
  PROVE  Times(a, b) \in Nat
BY DEF Times

LEMMA ProductsCommute ==
  ASSUME NEW a \in Int, NEW b \in Int
  PROVE  Times(a, b) = Times(b, a)
BY DEF Times

LEMMA ProductOfSum ==
  ASSUME NEW a \in Int, NEW b \in Int, NEW c \in Int
  PROVE  Times(a, b + c) = Times(a, b) + Times(a, c)
BY DEF Times

LEMMA ProductWithOne ==
  ASSUME NEW a \in Int
  PROVE  Times(a, 0) = 0 /\ Times(a, 1) = a
BY DEF Times

LEMMA ProductsAreOrdered ==
  ASSUME NEW a \in Nat, NEW b \in Int, NEW c \in Int, b <= c
  PROVE  Times(a, b) <= Times(a, c)
BY DEF Times

LEMMA FactorsAreOrdered ==
  ASSUME NEW a \in Nat \ {0}, NEW b \in Int, NEW c \in Int, Times(a, b) <= Times(a, c)
  PROVE  b <= c
BY DEF Times

LEMMA Division ==
  ASSUME NEW a \in Int, NEW b \in Nat \ {0}
  PROVE  Quotient(a, b) \in Int /\ Remainder(a, b) \in 0..(b - 1)
         /\ a = Times(b, Quotient(a, b)) + Remainder(a, b)
BY DEF Times, Quotient, Remainder

LEMMA DivisionIsNatural ==
  ASSUME NEW a \in Nat, NEW b \in Nat \ {0}
  PROVE  Quotient(a, b) \in Nat
BY DEF Quotient

LEMMA SumOfMultiples ==
  ASSUME NEW D, IsFiniteSet(D), NEW f, NEW h, NEW c \in Int,
         \A x \in D : f[x] \in Int /\ h[x] = Times(c, f[x])
  PROVE  SumFunctionOnSet(h, D) = Times(c, SumFunctionOnSet(f, D))
<1> DEFINE F(s) == SumFunctionOnSet(f, s)
           H(s) == SumFunctionOnSet(h, s)
           P == {s \in SUBSET D : H(s) = Times(c, F(s))}
<1>1. {} \in P
  BY SumOfNone, ProductWithOne
<1>2. ASSUME NEW s \in SUBSET D, NEW x \in D \ s, s \in P PROVE s \cup {x} \in P
  <2>1. IsFiniteSet(s)
    BY FS_Subset
  <2>2. F(s) \in Int /\ H(s) = Times(c, F(s))
    BY <1>2, <2>1, SumIsWhole
  <2>3. f[x] \in Int /\ h[x] = Times(c, f[x])
    OBVIOUS
  <2>4. F(s \cup {x}) = f[x] + F(s)
    BY <2>1, SumOfOneMore
  <2>5. \A y \in s \cup {x} : h[y] \in Int
    BY ProductIsWhole
  <2>6. H(s \cup {x}) = h[x] + H(s)
    BY <2>1, <2>5, SumOfOneMore
  <2> HIDE DEF F, H
  <2>7. H(s \cup {x}) = Times(c, F(s \cup {x}))
    <3>1. Times(c, f[x] + F(s)) = Times(c, f[x]) + Times(c, F(s))
      BY <2>2, <2>3, ProductOfSum
    <3> QED BY <2>2, <2>3, <2>4, <2>6, <3>1
  <2> QED BY <2>7
<1> HIDE DEF P
<1>3. D \in P
  BY <1>1, <1>2, SubsetInduction
<1> QED BY <1>3 DEF P

LEMMA SumsAreOrdered ==
  ASSUME NEW D, IsFiniteSet(D), NEW f, NEW h,
         \A x \in D : f[x] \in Int /\ h[x] \in Int /\ f[x] <= h[x]
  PROVE  SumFunctionOnSet(f, D) <= SumFunctionOnSet(h, D)
<1> DEFINE F(s) == SumFunctionOnSet(f, s)
           H(s) == SumFunctionOnSet(h, s)
           P == {s \in SUBSET D : F(s) <= H(s)}
<1>1. {} \in P
  BY SumOfNone
<1>2. ASSUME NEW s \in SUBSET D, NEW x \in D \ s, s \in P PROVE s \cup {x} \in P
  <2>1. IsFiniteSet(s)
    BY FS_Subset
  <2>2. F(s) \in Int /\ H(s) \in Int /\ F(s) <= H(s)
    BY <1>2, <2>1, SumIsWhole
  <2>3. F(s \cup {x}) = f[x] + F(s) /\ H(s \cup {x}) = h[x] + H(s)
    BY <2>1, SumOfOneMore
  <2>4. f[x] \in Int /\ h[x] \in Int /\ f[x] <= h[x]
    OBVIOUS
  <2> HIDE DEF F, H
  <2>5. F(s \cup {x}) <= H(s \cup {x})
    BY <2>2, <2>3, <2>4
  <2> QED BY <2>5
<1> HIDE DEF P
<1>3. D \in P
  BY <1>1, <1>2, SubsetInduction
<1> QED BY <1>3 DEF P

\* A sum of ones and zeroes counts the ones.
LEMMA SumOfOnes ==
  ASSUME NEW D, IsFiniteSet(D), NEW f, \A x \in D : f[x] \in 0..1
  PROVE  SumFunctionOnSet(f, D) = Cardinality({x \in D : f[x] = 1})
<1> DEFINE F(s) == SumFunctionOnSet(f, s)
           Ones(s) == {x \in s : f[x] = 1}
           P == {s \in SUBSET D : F(s) = Cardinality(Ones(s))}
<1>1. {} \in P
  <2>1. Ones({}) = {}
    OBVIOUS
  <2>2. F({}) = 0
    BY SumOfNone
  <2> HIDE DEF F, Ones
  <2> QED BY <2>1, <2>2, FS_EmptySet
<1>2. ASSUME NEW s \in SUBSET D, NEW x \in D \ s, s \in P PROVE s \cup {x} \in P
  <2>1. IsFiniteSet(s) /\ IsFiniteSet(Ones(s))
    BY FS_Subset
  <2>2. F(s \cup {x}) = f[x] + F(s) /\ F(s) = Cardinality(Ones(s)) /\ Cardinality(Ones(s)) \in Nat
    <3>1. \A y \in s \cup {x} : f[y] \in Int
      OBVIOUS
    <3>2. F(s \cup {x}) = f[x] + F(s)
      BY <2>1, <3>1, SumOfOneMore
    <3>3. F(s) = Cardinality(Ones(s))
      BY <1>2
    <3>4. Cardinality(Ones(s)) \in Nat
      BY <2>1, FS_CardinalityType
    <3> QED BY <3>2, <3>3, <3>4
  <2>3. CASE f[x] = 1
    <3>1. Ones(s \cup {x}) = Ones(s) \cup {x} /\ x \notin Ones(s)
      BY <2>3
    <3>2. Cardinality(Ones(s) \cup {x}) = Cardinality(Ones(s)) + 1
      <4> HIDE DEF Ones
      <4> QED BY <2>1, <3>1, FS_AddElement
    <3>3. F(s \cup {x}) = Cardinality(Ones(s \cup {x}))
      <4>1. F(s \cup {x}) = 1 + Cardinality(Ones(s))
        BY <2>2, <2>3
      <4>2. Cardinality(Ones(s \cup {x})) = Cardinality(Ones(s)) + 1
        BY <3>1, <3>2
      <4> HIDE DEF F, Ones
      <4> QED BY <2>2, <4>1, <4>2
    <3> QED BY <3>3
  <2>4. CASE f[x] = 0
    <3>1. Ones(s \cup {x}) = Ones(s)
      BY <2>4
    <3>2. F(s \cup {x}) = Cardinality(Ones(s \cup {x}))
      <4> HIDE DEF F, Ones
      <4> QED BY <2>2, <2>4, <3>1
    <3> QED BY <3>2
  <2>5. f[x] = 0 \/ f[x] = 1
    <3>1. f[x] \in 0..1
      OBVIOUS
    <3> QED BY <3>1
  <2> QED BY <2>3, <2>4, <2>5
<1> HIDE DEF P
<1>3. D \in P
  BY <1>1, <1>2, SubsetInduction
<1> QED BY <1>3 DEF P

-----------------------------------------------------------------------------
(* Places *)

\* What comes before a share when cents are handed out.
Ahead(lost, i) == {j \in DOMAIN lost : lost[j] > lost[i] \/ (lost[j] = lost[i] /\ j < i)}

LEMMA AheadIsFinite ==
  ASSUME NEW n \in Nat, NEW lost \in [1..n -> Int], NEW i \in 1..n
  PROVE  /\ Ahead(lost, i) \in SUBSET (1..n) /\ i \notin Ahead(lost, i)
         /\ IsFiniteSet(Ahead(lost, i))
         /\ PlaceOf(lost, i) = Cardinality(Ahead(lost, i)) /\ PlaceOf(lost, i) \in 0..(n - 1)
<1>1. Ahead(lost, i) \in SUBSET (1..n) /\ i \notin Ahead(lost, i)
  BY DEF Ahead
<1>2. IsFiniteSet(1..n) /\ Cardinality(1..n) = n
  BY FS_Interval
<1>3. IsFiniteSet((1..n) \ {i}) /\ Cardinality((1..n) \ {i}) = n - 1
  BY <1>2, FS_RemoveElement
<1>4. Ahead(lost, i) \in SUBSET ((1..n) \ {i})
  BY <1>1
<1>5. IsFiniteSet(Ahead(lost, i)) /\ Cardinality(Ahead(lost, i)) <= n - 1
  BY <1>3, <1>4, FS_Subset
<1>6. Cardinality(Ahead(lost, i)) \in Nat
  BY <1>5, FS_CardinalityType
<1>7. PlaceOf(lost, i) = Cardinality(Ahead(lost, i))
  BY DEF PlaceOf, Ahead
<1> QED BY <1>1, <1>5, <1>6, <1>7

\* Who comes first has the earlier place.
LEMMA PlacesAreOrdered ==
  ASSUME NEW n \in Nat, NEW lost \in [1..n -> Int], NEW i \in 1..n, NEW j \in Ahead(lost, i)
  PROVE  PlaceOf(lost, j) < PlaceOf(lost, i)
<1>1. j \in 1..n
  BY AheadIsFinite
<1>2. Ahead(lost, j) \cup {j} \in SUBSET Ahead(lost, i)
  <2>1. \A k \in 1..n : lost[k] \in Int
    OBVIOUS
  <2>2. lost[j] > lost[i] \/ (lost[j] = lost[i] /\ j < i)
    BY DEF Ahead
  <2>3. ASSUME NEW k \in Ahead(lost, j) PROVE k \in Ahead(lost, i)
    <3>1. k \in 1..n /\ (lost[k] > lost[j] \/ (lost[k] = lost[j] /\ k < j))
      BY DEF Ahead
    <3>2. lost[k] > lost[i] \/ (lost[k] = lost[i] /\ k < i)
      BY <1>1, <2>1, <2>2, <3>1
    <3> QED BY <3>1, <3>2 DEF Ahead
  <2> QED BY <2>3
<1>3. IsFiniteSet(Ahead(lost, j)) /\ j \notin Ahead(lost, j) /\ PlaceOf(lost, j) = Cardinality(Ahead(lost, j))
      /\ PlaceOf(lost, j) \in Nat
  BY <1>1, AheadIsFinite
<1>4. IsFiniteSet(Ahead(lost, i)) /\ PlaceOf(lost, i) = Cardinality(Ahead(lost, i)) /\ PlaceOf(lost, i) \in Nat
  BY AheadIsFinite
<1>5. Cardinality(Ahead(lost, j) \cup {j}) = Cardinality(Ahead(lost, j)) + 1
  BY <1>3, FS_AddElement
<1>6. Cardinality(Ahead(lost, j) \cup {j}) <= Cardinality(Ahead(lost, i))
  BY <1>2, <1>4, FS_Subset
<1> QED BY <1>3, <1>4, <1>5, <1>6

\* Places are 0, 1, ..., so that as many are served as there are cents.
LEMMA PlacesAreTaken ==
  ASSUME NEW n \in Nat, NEW lost \in [1..n -> Int], NEW k \in 0..n
  PROVE  Cardinality({i \in 1..n : PlaceOf(lost, i) < k}) = k
<1> DEFINE place == [i \in 1..n |-> PlaceOf(lost, i)]
           served == {i \in 1..n : PlaceOf(lost, i) < k}
           first == [i \in served |-> PlaceOf(lost, i)]
<1>1. \A i \in 1..n : PlaceOf(lost, i) \in 0..(n - 1)
  BY AheadIsFinite
<1>2. ASSUME NEW i \in 1..n, NEW j \in 1..n, i # j PROVE PlaceOf(lost, i) # PlaceOf(lost, j)
  <2>1. j \in Ahead(lost, i) \/ i \in Ahead(lost, j)
    <3>1. lost[i] \in Int /\ lost[j] \in Int
      OBVIOUS
    <3> QED BY <1>2, <3>1 DEF Ahead
  <2>2. PlaceOf(lost, i) < PlaceOf(lost, j) \/ PlaceOf(lost, j) < PlaceOf(lost, i)
    BY <2>1, PlacesAreOrdered
  <2> QED BY <1>1, <2>2
<1>3. place \in Injection(1..n, 0..(n - 1))
  BY <1>1, <1>2 DEF Injection, IsInjective
<1>4. IsFiniteSet(1..n) /\ IsFiniteSet(0..(n - 1)) /\ Cardinality(1..n) = n /\ Cardinality(0..(n - 1)) = n
  BY FS_Interval
<1>5. place \in Surjection(1..n, 0..(n - 1))
  <2> HIDE DEF place
  <2> QED BY <1>3, <1>4, FS_Injection
<1>6. first \in Bijection(served, 0..(k - 1))
  <2>1. first \in [served -> 0..(k - 1)]
    BY <1>1
  <2>2. \A i, j \in served : first[i] = first[j] => i = j
    BY <1>2
  <2>3. ASSUME NEW m \in 0..(k - 1) PROVE \E i \in served : first[i] = m
    <3>1. m \in 0..(n - 1)
      OBVIOUS
    <3>2. PICK i \in 1..n : place[i] = m
      BY <1>5, <3>1 DEF Surjection
    <3>3. i \in served
      BY <3>2
    <3> QED BY <3>2, <3>3
  <2> HIDE DEF first, served
  <2> QED BY <2>1, <2>2, <2>3 DEF Bijection, Injection, Surjection, IsInjective
<1>7. ExistsBijection(served, 0..(k - 1))
  BY <1>6 DEF ExistsBijection
<1>8. IsFiniteSet(served)
  BY <1>4, FS_Subset
<1>9. Cardinality(0..(k - 1)) = Cardinality(served)
  <2> HIDE DEF served
  <2> QED BY <1>7, <1>8, FS_Bijection
<1>10. Cardinality(0..(k - 1)) = k
  BY FS_Interval
<1> QED BY <1>9, <1>10

\* Fewer who lost anything than cents left over would have nobody to serve.
LEMMA OnlyLosersAreServed ==
  ASSUME NEW n \in Nat, NEW lost \in [1..n -> Nat], NEW left \in Nat,
         left <= Cardinality({j \in 1..n : lost[j] > 0}),
         NEW i \in 1..n, PlaceOf(lost, i) < left
  PROVE  lost[i] > 0
<1> SUFFICES ASSUME lost[i] = 0 PROVE FALSE
  <2>1. lost[i] \in Nat
    OBVIOUS
  <2> QED BY <2>1
<1>1. lost \in [1..n -> Int]
  OBVIOUS
<1>2. {j \in 1..n : lost[j] > 0} \in SUBSET Ahead(lost, i)
  BY DEF Ahead
<1>3. IsFiniteSet(Ahead(lost, i)) /\ PlaceOf(lost, i) = Cardinality(Ahead(lost, i)) /\ PlaceOf(lost, i) \in Nat
  BY <1>1, AheadIsFinite
<1>4. Cardinality({j \in 1..n : lost[j] > 0}) <= PlaceOf(lost, i)
  BY <1>2, <1>3, FS_Subset
<1>5. Cardinality({j \in 1..n : lost[j] > 0}) \in Nat
  BY <1>2, <1>3, FS_Subset, FS_CardinalityType
<1> QED BY <1>3, <1>4, <1>5

-----------------------------------------------------------------------------
(* Splitting a bill *)

\* What SharesOf computes before it hands out the cents left over.
Floors(cents, weights) == [i \in DOMAIN weights |-> (cents * weights[i]) \div SumFunction(weights)]
Losses(cents, weights) == [i \in DOMAIN weights |-> (cents * weights[i]) % SumFunction(weights)]
LeftOver(cents, weights) == cents - SumFunction(Floors(cents, weights))
Served(cents, weights) ==
  [i \in DOMAIN weights |->
     IF PlaceOf(Losses(cents, weights), i) < LeftOver(cents, weights) THEN 1 ELSE 0]

LEMMA SharesAreServed ==
  ASSUME NEW cents, NEW weights
  PROVE  SharesOf(cents, weights) =
           [i \in DOMAIN weights |-> Floors(cents, weights)[i] + Served(cents, weights)[i]]
<1>1. SharesOf(cents, weights) =
        [i \in DOMAIN weights |-> Floors(cents, weights)[i]
           + IF PlaceOf(Losses(cents, weights), i) < LeftOver(cents, weights) THEN 1 ELSE 0]
  BY Zenon DEF SharesOf, Floors, Losses, LeftOver
<1> QED BY <1>1 DEF Served

\* Every share is floored and loses less than one cent's worth.
LEMMA FloorsAndLosses ==
  ASSUME NEW D, IsFiniteSet(D), NEW weights \in [D -> Nat], NEW cents \in Nat, SumFunction(weights) > 0
  PROVE  /\ SumFunction(weights) \in Nat \ {0}
         /\ Floors(cents, weights) \in [D -> Nat]
         /\ Losses(cents, weights) \in [D -> 0..(SumFunction(weights) - 1)]
         /\ \A i \in D : Times(cents, weights[i]) =
              Times(SumFunction(weights), Floors(cents, weights)[i]) + Losses(cents, weights)[i]
<1> DEFINE total == SumFunction(weights)
<1>1. total \in Nat \ {0}
  <2>1. SumFunctionOnSet(weights, D) \in Int
    <3>1. \A i \in D : weights[i] \in Int
      OBVIOUS
    <3> QED BY <3>1, SumIsWhole
  <2>2. total \in Int
    BY <2>1 DEF SumFunction
  <2> HIDE DEF total
  <2>3. total > 0
    BY DEF total
  <2> QED BY <2>2, <2>3
<1> HIDE DEF total
<1>2. ASSUME NEW i \in D
      PROVE  /\ Quotient(Times(cents, weights[i]), total) \in Nat
             /\ Remainder(Times(cents, weights[i]), total) \in 0..(total - 1)
             /\ Times(cents, weights[i]) = Times(total, Quotient(Times(cents, weights[i]), total))
                                           + Remainder(Times(cents, weights[i]), total)
  <2>1. Times(cents, weights[i]) \in Nat
    BY ProductIsNatural
  <2> DEFINE a == Times(cents, weights[i])
  <2>2. a \in Nat /\ a \in Int
    BY <2>1
  <2> HIDE DEF a
  <2>3. Quotient(a, total) \in Nat
    BY <1>1, <2>2, DivisionIsNatural
  <2>4. Remainder(a, total) \in 0..(total - 1) /\ a = Times(total, Quotient(a, total)) + Remainder(a, total)
    BY <1>1, <2>2, Division
  <2> QED BY <2>3, <2>4 DEF a
<1>3. /\ Floors(cents, weights) = [i \in D |-> Quotient(Times(cents, weights[i]), total)]
      /\ Losses(cents, weights) = [i \in D |-> Remainder(Times(cents, weights[i]), total)]
  BY DEF Floors, Losses, total, Times, Quotient, Remainder
<1>4. total \in Nat \ {0} /\ Floors(cents, weights) \in [D -> Nat]
      /\ Losses(cents, weights) \in [D -> 0..(total - 1)]
  BY <1>1, <1>2, <1>3
<1>5. \A i \in D : Times(cents, weights[i]) = Times(total, Floors(cents, weights)[i]) + Losses(cents, weights)[i]
  BY <1>2, <1>3
<1> QED BY <1>4, <1>5 DEF total

\* The cents left over are what was lost, and fewer than lost something.
IsASplit(D, cents, total, weights, floor, lost, left) ==
  /\ cents \in Nat /\ total \in Nat \ {0} /\ left \in Int
  /\ weights \in [D -> Nat] /\ floor \in [D -> Nat] /\ lost \in [D -> 0..(total - 1)]
  /\ \A i \in D : Times(cents, weights[i]) = Times(total, floor[i]) + lost[i]
  /\ total = SumFunctionOnSet(weights, D) /\ left = cents - SumFunctionOnSet(floor, D)

LEMMA FewerAreLeft ==
  ASSUME NEW D, IsFiniteSet(D), NEW cents, NEW total, NEW weights, NEW floor, NEW lost, NEW left,
         IsASplit(D, cents, total, weights, floor, lost, left)
  PROVE  left \in Nat /\ left <= Cardinality(D) /\ left <= Cardinality({i \in D : lost[i] > 0})
<1> USE DEF IsASplit
<1> DEFINE whole == [i \in D |-> Times(cents, weights[i])]
           floored == [i \in D |-> Times(total, floor[i])]
           one == [i \in D |-> IF lost[i] > 0 THEN 1 ELSE 0]
           most == [i \in D |-> Times(total, one[i])]
           Sum(f) == SumFunctionOnSet(f, D)
<1>3. IsFiniteSet(D)
  OBVIOUS
<1>4. Sum(floor) \in Int /\ Sum(lost) \in Int
  <2>1. \A i \in D : floor[i] \in Int /\ lost[i] \in Int
    OBVIOUS
  <2> QED BY <1>3, <2>1, SumIsWhole
<1>5. Sum(whole) = Times(cents, total)
  <2>1. \A i \in D : weights[i] \in Int /\ whole[i] = Times(cents, weights[i])
    OBVIOUS
  <2> HIDE DEF whole
  <2> QED BY <1>3, <2>1, SumOfMultiples
<1>6. Sum(floored) = Times(total, Sum(floor))
  <2>1. \A i \in D : floor[i] \in Int /\ floored[i] = Times(total, floor[i])
    OBVIOUS
  <2> HIDE DEF floored
  <2> QED BY <1>3, <2>1, SumOfMultiples
<1>7. Sum(whole) = Sum(floored) + Sum(lost)
  <2>1. ASSUME NEW i \in D
        PROVE  floored[i] \in Int /\ lost[i] \in Int /\ whole[i] = floored[i] + lost[i]
    <3>1. floor[i] \in Int /\ lost[i] \in Int /\ Times(cents, weights[i]) = Times(total, floor[i]) + lost[i]
      OBVIOUS
    <3>2. floored[i] = Times(total, floor[i]) /\ whole[i] = Times(cents, weights[i])
      OBVIOUS
    <3>3. Times(total, floor[i]) \in Int
      BY <3>1, ProductIsWhole
    <3> QED BY <3>1, <3>2, <3>3
  <2> HIDE DEF floored, whole
  <2> QED BY <1>3, <2>1, SumOfSums
<1>8. Times(total, left) = Sum(lost)
  <2>1. Times(cents, total) = Times(total, Sum(floor)) + Sum(lost)
    BY <1>5, <1>6, <1>7
  <2> DEFINE sum == Sum(floor)
             loss == Sum(lost)
  <2>2. sum \in Int /\ loss \in Int /\ left = cents - sum /\ Times(cents, total) = Times(total, sum) + loss
    BY <1>4, <2>1
  <2> HIDE DEF sum, loss
  <2>3. Times(total, sum + left) = Times(total, sum) + Times(total, left) /\ sum + left = cents
        /\ Times(total, cents) = Times(cents, total) /\ Times(total, left) \in Int
        /\ Times(total, sum) \in Int
    <3>1. Times(total, sum + left) = Times(total, sum) + Times(total, left)
      BY <2>2, ProductOfSum
    <3>2. Times(total, cents) = Times(cents, total)
      BY ProductsCommute
    <3>3. Times(total, left) \in Int /\ Times(total, sum) \in Int
      BY <2>2, ProductIsWhole
    <3> QED BY <2>2, <3>1, <3>2, <3>3
  <2>4. Times(total, left) = loss
    BY <2>2, <2>3
  <2> QED BY <2>4 DEF loss
<1>9. Sum(lost) >= 0
  <2> DEFINE none == [i \in D |-> 0]
  <2>1. \A i \in D : none[i] \in 0..1 /\ none[i] # 1
    OBVIOUS
  <2>2. Sum(none) = 0
    <3>1. {i \in D : none[i] = 1} = {}
      OBVIOUS
    <3>2. Sum(none) = Cardinality({i \in D : none[i] = 1})
      BY <1>3, <2>1, SumOfOnes
    <3> QED BY <3>1, <3>2, FS_EmptySet
  <2>3. \A i \in D : none[i] \in Int /\ lost[i] \in Int /\ none[i] <= lost[i]
    OBVIOUS
  <2> HIDE DEF none
  <2>4. Sum(none) <= Sum(lost)
    BY <1>3, <2>3, SumsAreOrdered
  <2> QED BY <2>2, <2>4
<1>10. Sum(one) = Cardinality({i \in D : lost[i] > 0})
  <2>1. \A i \in D : one[i] \in 0..1
    OBVIOUS
  <2>2. {i \in D : one[i] = 1} = {i \in D : lost[i] > 0}
    OBVIOUS
  <2> HIDE DEF one
  <2> QED BY <1>3, <2>1, <2>2, SumOfOnes
<1>11. Sum(one) \in Nat /\ Sum(one) <= Cardinality(D)
  <2>1. {i \in D : lost[i] > 0} \in SUBSET D
    OBVIOUS
  <2> QED BY <1>3, <1>10, <2>1, FS_Subset, FS_CardinalityType
<1>12. Sum(most) = Times(total, Sum(one))
  <2>1. \A i \in D : one[i] \in Int /\ most[i] = Times(total, one[i])
    OBVIOUS
  <2> HIDE DEF most, one
  <2> QED BY <1>3, <2>1, SumOfMultiples
<1>13. Sum(lost) <= Sum(most)
  <2>1. ASSUME NEW i \in D PROVE lost[i] \in Int /\ most[i] \in Int /\ lost[i] <= most[i]
    <3>1. lost[i] \in 0..(total - 1)
      OBVIOUS
    <3>2. most[i] = Times(total, IF lost[i] > 0 THEN 1 ELSE 0)
      OBVIOUS
    <3> QED BY <3>1, <3>2, ProductWithOne
  <2> HIDE DEF most
  <2> QED BY <1>3, <2>1, SumsAreOrdered
<1>14. left >= 0 /\ left <= Sum(one)
  <2> DEFINE loss == Sum(lost)
             bound == Sum(one)
  <2>1. loss \in Int /\ bound \in Int /\ Times(total, left) = loss /\ loss >= 0 /\ loss <= Times(total, bound)
    BY <1>4, <1>8, <1>9, <1>11, <1>12, <1>13
  <2> HIDE DEF loss, bound
  <2>2. left >= 0
    <3>1. Times(total, 0) <= Times(total, left)
      BY <2>1, ProductWithOne
    <3> QED BY <3>1, FactorsAreOrdered
  <2>3. left <= bound
    <3>1. Times(total, left) <= Times(total, bound)
      BY <2>1
    <3> QED BY <2>1, <3>1, FactorsAreOrdered
  <2> QED BY <2>2, <2>3 DEF bound
<1>15. left \in Nat /\ left <= Cardinality(D)
  <2>1. Cardinality(D) \in Nat
    BY FS_CardinalityType
  <2> DEFINE bound == Sum(one)
  <2>2. bound \in Nat /\ bound <= Cardinality(D) /\ left >= 0 /\ left <= bound
    BY <1>11, <1>14
  <2> HIDE DEF bound
  <2> QED BY <2>1, <2>2
<1>16. left <= Cardinality({i \in D : lost[i] > 0})
  BY <1>10, <1>14
<1> QED BY <1>15, <1>16

LEMMA LeftOverIsLost ==
  ASSUME NEW D, IsFiniteSet(D), NEW weights \in [D -> Nat], NEW cents \in Nat, SumFunction(weights) > 0
  PROVE  /\ LeftOver(cents, weights) \in Nat /\ LeftOver(cents, weights) <= Cardinality(D)
         /\ LeftOver(cents, weights) <= Cardinality({i \in D : Losses(cents, weights)[i] > 0})
<1> DEFINE total == SumFunction(weights)
           floor == Floors(cents, weights)
           lost == Losses(cents, weights)
<1>1. /\ total \in Nat \ {0} /\ floor \in [D -> Nat] /\ lost \in [D -> 0..(total - 1)]
      /\ \A i \in D : Times(cents, weights[i]) = Times(total, floor[i]) + lost[i]
  BY FloorsAndLosses
<1>2. total = SumFunctionOnSet(weights, D)
  BY DEF SumFunction
<1>3. LeftOver(cents, weights) = cents - SumFunctionOnSet(floor, D)
  BY <1>1 DEF LeftOver, SumFunction
<1> HIDE DEF total, floor, lost
<1>4. LeftOver(cents, weights) \in Int
  <2>1. SumFunctionOnSet(floor, D) \in Int
    <3>1. \A i \in D : floor[i] \in Int
      BY <1>1
    <3> QED BY <3>1, SumIsWhole
  <2> QED BY <1>3, <2>1
<1>5. /\ LeftOver(cents, weights) \in Nat /\ LeftOver(cents, weights) <= Cardinality(D)
      /\ LeftOver(cents, weights) <= Cardinality({i \in D : lost[i] > 0})
  <2>1. total \in Nat \ {0} /\ floor \in [D -> Nat] /\ lost \in [D -> 0..(total - 1)]
    BY <1>1
  <2>2. \A i \in D : Times(cents, weights[i]) = Times(total, floor[i]) + lost[i]
    BY <1>1
  <2> DEFINE left == LeftOver(cents, weights)
  <2>3. left \in Int /\ left = cents - SumFunctionOnSet(floor, D)
    BY <1>3, <1>4
  <2> HIDE DEF left
  <2>4. left \in Nat /\ left <= Cardinality(D) /\ left <= Cardinality({i \in D : lost[i] > 0})
    <3>1. IsASplit(D, cents, total, weights, floor, lost, left)
      BY <1>2, <2>1, <2>2, <2>3 DEF IsASplit
    <3> QED BY <3>1, FewerAreLeft
  <2> QED BY <2>4 DEF left
<1> QED BY <1>5 DEF lost

\* Nobody is served who lost nothing, and just as many as there are cents left.
LEMMA ServedAreLosers ==
  ASSUME NEW n \in Nat, NEW weights \in [1..n -> Nat], NEW cents \in Nat, SumFunction(weights) > 0
  PROVE  /\ Served(cents, weights) \in [1..n -> 0..1]
         /\ \A i \in 1..n : Served(cents, weights)[i] = 1 =>
              Losses(cents, weights)[i] > 0
         /\ \A i, j \in 1..n :
              Served(cents, weights)[j] = 1 /\ Losses(cents, weights)[i] > Losses(cents, weights)[j] =>
                Served(cents, weights)[i] = 1
         /\ SumFunctionOnSet(Served(cents, weights), 1..n) = LeftOver(cents, weights)
<1> DEFINE lost == Losses(cents, weights)
           left == LeftOver(cents, weights)
           served == Served(cents, weights)
<1>1. IsFiniteSet(1..n) /\ Cardinality(1..n) = n
  BY FS_Interval
<1>2. lost \in [1..n -> Nat] /\ lost \in [1..n -> Int]
  <2>1. lost \in [1..n -> 0..(SumFunction(weights) - 1)]
    BY <1>1, FloorsAndLosses
  <2> HIDE DEF lost
  <2> QED BY <2>1
<1>3. left \in Nat /\ left <= n /\ left <= Cardinality({i \in 1..n : lost[i] > 0})
  BY <1>1, LeftOverIsLost
<1>4. served = [i \in 1..n |-> IF PlaceOf(lost, i) < left THEN 1 ELSE 0]
  BY DEF Served
<1> HIDE DEF lost, left, served
<1>5. served \in [1..n -> 0..1]
  BY <1>4
<1>6. ASSUME NEW i \in 1..n, served[i] = 1 PROVE lost[i] > 0
  <2>1. PlaceOf(lost, i) < left
    BY <1>4, <1>6
  <2> QED BY <1>2, <1>3, <2>1, OnlyLosersAreServed
<1>7. ASSUME NEW i \in 1..n, NEW j \in 1..n, served[j] = 1, lost[i] > lost[j] PROVE served[i] = 1
  <2>1. PlaceOf(lost, j) < left
    BY <1>4, <1>7
  <2>2. i \in Ahead(lost, j)
    BY <1>2, <1>7 DEF Ahead
  <2>3. PlaceOf(lost, i) < PlaceOf(lost, j)
    BY <1>2, <2>2, PlacesAreOrdered
  <2>4. PlaceOf(lost, i) \in Nat /\ PlaceOf(lost, j) \in Nat
    BY <1>2, AheadIsFinite
  <2>5. PlaceOf(lost, i) < left
    BY <1>3, <2>1, <2>3, <2>4
  <2> QED BY <1>4, <2>5
<1>8. SumFunctionOnSet(served, 1..n) = left
  <2>1. \A i \in 1..n : served[i] \in 0..1
    BY <1>5
  <2>2. SumFunctionOnSet(served, 1..n) = Cardinality({i \in 1..n : served[i] = 1})
    BY <1>1, <2>1, SumOfOnes
  <2>3. {i \in 1..n : served[i] = 1} = {i \in 1..n : PlaceOf(lost, i) < left}
    BY <1>4
  <2>4. left \in 0..n
    BY <1>3
  <2>5. Cardinality({i \in 1..n : PlaceOf(lost, i) < left}) = left
    BY <1>2, <2>4, PlacesAreTaken
  <2> QED BY <2>2, <2>3, <2>5
<1> QED BY <1>5, <1>6, <1>7, <1>8 DEF lost, left, served

\* Shares in cents: every cent is handed out, and everybody's is fair.
LEMMA SharesAddUp ==
  ASSUME NEW n \in Nat, NEW weights \in [1..n -> Nat], NEW cents \in Nat, SumFunction(weights) > 0
  PROVE  /\ SharesOf(cents, weights) \in [1..n -> Nat]
         /\ SumFunctionOnSet(SharesOf(cents, weights), 1..n) = cents
<1> DEFINE floor == Floors(cents, weights)
           left == LeftOver(cents, weights)
           served == Served(cents, weights)
           shares == SharesOf(cents, weights)
<1>1. IsFiniteSet(1..n)
  BY FS_Interval
<1>2. floor \in [1..n -> Nat]
  BY <1>1, FloorsAndLosses
<1>3. served \in [1..n -> 0..1] /\ SumFunctionOnSet(served, 1..n) = left
  BY ServedAreLosers
<1>4. shares = [i \in 1..n |-> floor[i] + served[i]]
  BY SharesAreServed
<1>5. left = cents - SumFunctionOnSet(floor, 1..n)
  BY <1>2 DEF LeftOver, SumFunction
<1> HIDE DEF floor, left, served, shares
<1>6. \A i \in 1..n : floor[i] \in Nat /\ served[i] \in 0..1 /\ shares[i] = floor[i] + served[i]
  BY <1>2, <1>3, <1>4
<1>7. shares \in [1..n -> Nat]
  <2>1. \A i \in 1..n : floor[i] + served[i] \in Nat
    BY <1>6
  <2> QED BY <1>4, <2>1
<1>8. SumFunctionOnSet(shares, 1..n) = SumFunctionOnSet(floor, 1..n) + SumFunctionOnSet(served, 1..n)
  <2>1. \A i \in 1..n : floor[i] \in Int /\ served[i] \in Int /\ shares[i] = floor[i] + served[i]
    BY <1>6
  <2> QED BY <1>1, <2>1, SumOfSums
<1>9. SumFunctionOnSet(floor, 1..n) \in Int
  <2>1. \A i \in 1..n : floor[i] \in Int
    BY <1>6
  <2> QED BY <1>1, <2>1, SumIsWhole
<1>10. SumFunctionOnSet(shares, 1..n) = cents
  <2> DEFINE sum == SumFunctionOnSet(floor, 1..n)
  <2>1. sum \in Int /\ SumFunctionOnSet(shares, 1..n) = sum + (cents - sum)
    BY <1>3, <1>5, <1>8, <1>9
  <2> HIDE DEF sum
  <2> QED BY <2>1
<1> QED BY <1>7, <1>10 DEF shares

\* A share: its weight, its whole cents, what it lost and whether it is served.
IsAShare(total, cents, weight, floor, lost, served) ==
  /\ total \in Nat \ {0} /\ cents \in Nat /\ weight \in Nat
  /\ floor \in Nat /\ lost \in 0..(total - 1) /\ served \in 0..1
  /\ served = 1 => lost > 0
  /\ Times(cents, weight) = Times(total, floor) + lost

LEMMA NothingOfNothing ==
  ASSUME NEW total, NEW cents, NEW weight, NEW floor, NEW lost, NEW served,
         IsAShare(total, cents, weight, floor, lost, served), Times(cents, weight) = 0
  PROVE  floor = 0 /\ lost = 0 /\ served = 0
<1> USE DEF IsAShare
<1>1. Times(total, floor) \in Nat
  BY ProductIsNatural
<1>2. lost = 0 /\ Times(total, floor) = 0
  BY <1>1
<1>3. Times(total, floor) <= Times(total, 0)
  BY <1>2, ProductWithOne
<1>4. floor <= 0
  BY <1>3, FactorsAreOrdered
<1> QED BY <1>2, <1>4

LEMMA OneShare ==
  ASSUME NEW total, NEW cents, NEW weight, NEW floor, NEW lost, NEW served,
         IsAShare(total, cents, weight, floor, lost, served)
  PROVE  /\ Times(total, floor + served) - Times(cents, weight) \in (1 - total)..(total - 1)
         /\ weight = 0 => floor + served = 0
<1> USE DEF IsAShare
<1>1. Times(total, floor) \in Int /\ Times(cents, weight) \in Int
  BY ProductIsWhole
<1>2. Times(total, floor + served) = Times(total, floor) + Times(total, served)
  BY ProductOfSum
<1>3. Times(total, floor + served) - Times(cents, weight) \in (1 - total)..(total - 1)
  <2>1. CASE served = 1
    <3>1. lost > 0 /\ Times(total, served) = total
      BY <2>1, ProductWithOne
    <3> QED BY <1>1, <1>2, <3>1
  <2>2. CASE served = 0
    <3>1. Times(total, served) = 0
      BY <2>2, ProductWithOne
    <3> QED BY <1>1, <1>2, <3>1
  <2> QED BY <2>1, <2>2
<1>4. ASSUME weight = 0 PROVE floor + served = 0
  <2>1. Times(cents, weight) = 0
    BY <1>4, ProductWithOne
  <2>2. floor = 0 /\ served = 0
    BY <2>1, NothingOfNothing
  <2> QED BY <2>2
<1> QED BY <1>3, <1>4

LEMMA TwoShares ==
  ASSUME NEW total, NEW cents,
         NEW more, NEW f, NEW l, NEW s, IsAShare(total, cents, more, f, l, s),
         NEW fewer, NEW g, NEW k, NEW t, IsAShare(total, cents, fewer, g, k, t),
         fewer < more, t = 1 /\ l > k => s = 1
  PROVE  f + s >= g + t
<1>1. /\ total \in Nat \ {0} /\ cents \in Nat /\ more \in Nat /\ fewer \in Nat
      /\ f \in Nat /\ g \in Nat /\ l \in 0..(total - 1) /\ k \in 0..(total - 1)
      /\ s \in 0..1 /\ t \in 0..1 /\ (t = 1 => k > 0)
      /\ Times(cents, more) = Times(total, f) + l /\ Times(cents, fewer) = Times(total, g) + k
  BY DEF IsAShare
<1>2. Times(total, f) \in Int /\ Times(total, g) \in Int
  BY <1>1, ProductIsWhole
<1>3. Times(cents, fewer) <= Times(cents, more)
  BY <1>1, ProductsAreOrdered
<1>4. ~(f < g)
  <2> SUFFICES ASSUME f + 1 <= g PROVE FALSE
    BY <1>1
  <2>1. Times(total, f + 1) <= Times(total, g)
    BY <1>1, ProductsAreOrdered
  <2>2. Times(total, f + 1) = Times(total, f) + Times(total, 1) /\ Times(total, 1) = total
    BY <1>1, ProductOfSum, ProductWithOne
  <2> QED BY <1>1, <1>2, <1>3, <2>1, <2>2
<1>5. CASE f > g
  BY <1>1, <1>5
<1>6. CASE f = g /\ t = 0
  BY <1>1, <1>6
<1>7. CASE f = g /\ t = 1
  <2>1. k > 0 /\ l >= k
    BY <1>1, <1>2, <1>3, <1>7
  <2>2. l # k
    <3> SUFFICES ASSUME l = k PROVE FALSE
      OBVIOUS
    <3>1. Times(cents, more) <= Times(cents, fewer)
      BY <1>1, <1>2, <1>7
    <3>2. cents = 0
      <4> SUFFICES ASSUME cents # 0 PROVE FALSE
        OBVIOUS
      <4>1. more <= fewer
        BY <1>1, <3>1, FactorsAreOrdered
      <4> QED BY <1>1, <4>1
    <3>3. Times(cents, fewer) = Times(fewer, cents)
      BY <1>1, ProductsCommute
    <3>4. Times(fewer, cents) = 0
      BY <1>1, <3>2, ProductWithOne
    <3>5. k = 0
      BY <3>3, <3>4, NothingOfNothing
    <3> QED BY <2>1, <3>5
  <2>3. s = 1
    BY <1>1, <1>7, <2>1, <2>2
  <2> QED BY <1>1, <1>7, <2>3
<1> QED BY <1>1, <1>4, <1>5, <1>6, <1>7

LEMMA SharesAreFair ==
  ASSUME NEW n \in Nat, NEW weights \in [1..n -> Nat], NEW cents \in Nat, SumFunction(weights) > 0,
         NEW i \in 1..n
  PROVE  LET total == SumFunction(weights)
             shares == SharesOf(cents, weights)
         IN /\ Times(total, shares[i]) - Times(cents, weights[i]) \in (1 - total)..(total - 1)
            /\ weights[i] = 0 => shares[i] = 0
            /\ \A j \in 1..n : weights[i] > weights[j] => shares[i] >= shares[j]
<1> DEFINE total == SumFunction(weights)
           floor == Floors(cents, weights)
           lost == Losses(cents, weights)
           served == Served(cents, weights)
           shares == SharesOf(cents, weights)
<1>1. /\ total \in Nat \ {0}
      /\ \A j \in 1..n : floor[j] \in Nat /\ lost[j] \in 0..(total - 1)
                         /\ Times(cents, weights[j]) = Times(total, floor[j]) + lost[j]
  <2> DEFINE D == 1..n
  <2>1. IsFiniteSet(D) /\ weights \in [D -> Nat]
    BY FS_Interval
  <2> HIDE DEF D
  <2>2. /\ total \in Nat \ {0} /\ floor \in [D -> Nat] /\ lost \in [D -> 0..(total - 1)]
        /\ \A j \in D : Times(cents, weights[j]) = Times(total, floor[j]) + lost[j]
    BY <2>1, FloorsAndLosses
  <2> HIDE DEF total, floor, lost
  <2>3. \A j \in D : floor[j] \in Nat /\ lost[j] \in 0..(total - 1)
    BY <2>2
  <2> QED BY <2>2, <2>3 DEF D
<1>2. /\ \A j \in 1..n : served[j] \in 0..1 /\ (served[j] = 1 => lost[j] > 0)
      /\ \A j, k \in 1..n : served[k] = 1 /\ lost[j] > lost[k] => served[j] = 1
  <2>1. served \in [1..n -> 0..1]
    BY ServedAreLosers
  <2>2. \A j \in 1..n : served[j] = 1 => lost[j] > 0
    BY ServedAreLosers
  <2>3. \A j, k \in 1..n : served[k] = 1 /\ lost[j] > lost[k] => served[j] = 1
    BY ServedAreLosers
  <2> HIDE DEF served, lost
  <2> QED BY <2>1, <2>2, <2>3
<1>3. \A j \in 1..n : shares[j] = floor[j] + served[j]
  BY SharesAreServed
<1> HIDE DEF total, floor, lost, served, shares
<1>4. \A j \in 1..n : IsAShare(total, cents, weights[j], floor[j], lost[j], served[j])
  <2>1. \A j \in 1..n : weights[j] \in Nat
    OBVIOUS
  <2> QED BY <1>1, <1>2, <2>1 DEF IsAShare
<1>5. IsAShare(total, cents, weights[i], floor[i], lost[i], served[i]) /\ shares[i] = floor[i] + served[i]
  BY <1>3, <1>4
<1>6. /\ Times(total, shares[i]) - Times(cents, weights[i]) \in (1 - total)..(total - 1)
      /\ weights[i] = 0 => shares[i] = 0
  BY <1>5, OneShare
<1>7. ASSUME NEW j \in 1..n, weights[i] > weights[j] PROVE shares[i] >= shares[j]
  <2>1. IsAShare(total, cents, weights[j], floor[j], lost[j], served[j]) /\ shares[j] = floor[j] + served[j]
    BY <1>3, <1>4
  <2>2. served[j] = 1 /\ lost[i] > lost[j] => served[i] = 1
    BY <1>2
  <2>3. weights[j] < weights[i]
    BY <1>7
  <2>4. floor[i] + served[i] >= floor[j] + served[j]
    BY <1>5, <2>1, <2>2, <2>3, TwoShares
  <2> QED BY <1>5, <2>1, <2>4
<1> QED BY <1>6, <1>7 DEF total, shares

\* From cents to units of an amount, and back to its sign.
LEMMA UnitsOfShares ==
  ASSUME NEW c \in Nat \ {0}, NEW total \in Nat \ {0}, NEW share \in Int, NEW cents \in Int, NEW weight \in Int,
         Times(total, share) - Times(cents, weight) \in (1 - total)..(total - 1),
         NEW sign \in {c, -c}
  PROVE  Magnitude(Times(sign, share) * total - Times(sign, cents) * weight) < c * total
<1> DEFINE gap == total * share - cents * weight
<1>1. gap \in Int /\ 1 - total <= gap /\ gap <= total - 1
  BY DEF Times
<1>2. (c * share) * total - (c * cents) * weight = c * gap
  OBVIOUS
<1>3. ((-c) * share) * total - ((-c) * cents) * weight = -(c * gap)
  OBVIOUS
<1> HIDE DEF gap
<1>4. c * gap <= c * (total - 1) /\ c * (1 - total) <= c * gap
  BY <1>1
<1>5. c * (total - 1) = c * total - c /\ c * (1 - total) = c - c * total
  OBVIOUS
<1>6. c * gap \in Int /\ c * total \in Int
  BY <1>1
<1>7. -(c * total) < c * gap /\ c * gap < c * total
  BY <1>4, <1>5, <1>6
<1> DEFINE scaled == c * gap
           all == c * total
<1>8. scaled \in Int /\ all \in Int /\ -all < scaled /\ scaled < all
  BY <1>6, <1>7
<1>9. Times(sign, share) * total - Times(sign, cents) * weight \in {scaled, -scaled}
  BY <1>2, <1>3 DEF Times
<1> HIDE DEF scaled
<1>10. Magnitude(Times(sign, share) * total - Times(sign, cents) * weight) < all
  <2> HIDE DEF all
  <2> QED BY <1>8, <1>9 DEF Magnitude
<1> QED BY <1>10

(* Money.allocate, for any amount that can be allocated and any weights:    *)
(* the shares add up to the bill, nobody's differs from the exact           *)
(* proportion by a cent or more, a larger weight never gets less, and       *)
(* someone with no weight pays nothing.                                     *)
THEOREM AllocationIsExact ==
  ASSUME NEW amount \in Int, NEW weights \in Seq(Int), CanAllocate(amount, weights)
  PROVE  SplitsExactly(amount, weights)
<1> DEFINE n == Len(weights)
           total == SumFunction(weights)
           cents == Magnitude(amount) \div Cent
           sign == IF amount < 0 THEN -Cent ELSE Cent
           share == SharesOf(cents, weights)
           shares == Allocate(amount, weights)
<1>1. n \in Nat /\ weights \in [1..n -> Nat] /\ DOMAIN weights = 1..n /\ total > 0
  BY DEF CanAllocate
<1>2. Cent \in Nat \ {0} /\ Cent \in Int /\ sign \in Int /\ sign \in {Cent, -Cent}
  BY SharesAssumption
<1>3. Magnitude(amount) \in Nat /\ Magnitude(amount) % Cent = 0
  BY DEF Magnitude, CanAllocate
<1>4. cents \in Nat /\ Times(Cent, cents) = Magnitude(amount)
  <2> DEFINE m == Magnitude(amount)
  <2>1. m \in Nat /\ m \in Int /\ Remainder(m, Cent) = 0 /\ cents = Quotient(m, Cent)
    BY <1>3 DEF Remainder, Quotient
  <2> HIDE DEF m, cents
  <2>2. cents \in Nat
    BY <1>2, <2>1, DivisionIsNatural
  <2>3. m = Times(Cent, Quotient(m, Cent)) + Remainder(m, Cent) /\ Times(Cent, cents) \in Int
    BY <1>2, <2>1, <2>2, Division, ProductIsWhole
  <2>4. m = Times(Cent, cents)
    BY <2>1, <2>3
  <2> QED BY <2>2, <2>4 DEF m
<1>5. Times(sign, cents) = amount
  <2>1. CASE amount < 0
    BY <1>2, <1>4, <2>1 DEF Times, Magnitude
  <2>2. CASE ~(amount < 0)
    BY <1>2, <1>4, <2>2 DEF Times, Magnitude
  <2> QED BY <2>1, <2>2
<1> HIDE DEF cents
<1>6. share \in [1..n -> Nat] /\ SumFunctionOnSet(share, 1..n) = cents
  <2> HIDE DEF n
  <2> QED BY <1>1, <1>4, SharesAddUp
<1>7. shares = [i \in 1..n |-> Times(sign, share[i])]
  <2>1. shares = [i \in 1..n |-> Signed(amount, share[i] * Cent)]
    BY <1>1 DEF Allocate, cents
  <2>2. ASSUME NEW i \in 1..n PROVE Signed(amount, share[i] * Cent) = Times(sign, share[i])
    <3>1. share[i] \in Nat
      BY <1>6
    <3> DEFINE k == share[i]
    <3> HIDE DEF k
    <3>2. k \in Nat
      BY <3>1 DEF k
    <3>3. Signed(amount, k * Cent) = Times(sign, k)
      BY <1>2, <3>2 DEF Signed, Times
    <3> QED BY <3>3 DEF k
  <2> HIDE DEF shares, share, n, sign
  <2> QED BY <2>1, <2>2
<1> HIDE DEF shares, share, sign, n, total
<1>8. \A i \in 1..n : share[i] \in Nat /\ weights[i] \in Nat /\ shares[i] = Times(sign, share[i])
  BY <1>1, <1>6, <1>7
<1>9. SumFunction(shares) = amount
  <2>1. \A i \in 1..n : share[i] \in Int /\ shares[i] = Times(sign, share[i])
    BY <1>8
  <2>2. IsFiniteSet(1..n)
    BY <1>1, FS_Interval
  <2>3. SumFunctionOnSet(shares, 1..n) = Times(sign, SumFunctionOnSet(share, 1..n))
    BY <1>2, <2>1, <2>2, SumOfMultiples
  <2>4. SumFunction(shares) = SumFunctionOnSet(shares, 1..n)
    BY <1>7 DEF SumFunction
  <2> QED BY <1>5, <1>6, <2>3, <2>4
<1>10. total \in Nat \ {0}
  <2>1. IsFiniteSet(1..n)
    BY <1>1, FS_Interval
  <2> QED BY <1>1, <1>4, <2>1, FloorsAndLosses DEF total
<1>11. ASSUME NEW i \in 1..n
       PROVE  /\ Magnitude(shares[i] * total - amount * weights[i]) < Cent * total
              /\ weights[i] = 0 => shares[i] = 0
              /\ \A j \in 1..n : weights[i] > weights[j] => Magnitude(shares[i]) >= Magnitude(shares[j])
  <2>1. /\ Times(total, share[i]) - Times(cents, weights[i]) \in (1 - total)..(total - 1)
        /\ weights[i] = 0 => share[i] = 0
        /\ \A j \in 1..n : weights[i] > weights[j] => share[i] >= share[j]
    BY <1>1, <1>4, SharesAreFair DEF total, share
  <2>2. Magnitude(shares[i] * total - amount * weights[i]) < Cent * total
    <3>1. shares[i] = Times(sign, share[i]) /\ amount = Times(sign, cents)
      BY <1>5, <1>8
    <3>2. share[i] \in Int /\ weights[i] \in Int /\ cents \in Int
      BY <1>4, <1>8
    <3>3. Magnitude(Times(sign, share[i]) * total - Times(sign, cents) * weights[i]) < Cent * total
      BY <1>2, <1>10, <2>1, <3>2, UnitsOfShares
    <3> QED BY <3>1, <3>3
  <2>3. ASSUME weights[i] = 0 PROVE shares[i] = 0
    <3>1. share[i] = 0
      BY <2>1, <2>3
    <3> QED BY <1>2, <1>8, <3>1, ProductWithOne
  <2>4. \A j \in 1..n : Magnitude(shares[j]) = Times(Cent, share[j])
    <3> SUFFICES ASSUME NEW j \in 1..n PROVE Magnitude(shares[j]) = Times(Cent, share[j])
      OBVIOUS
    <3> DEFINE k == share[j]
    <3>1. k \in Nat /\ shares[j] = Times(sign, k)
      BY <1>8
    <3> HIDE DEF k
    <3>2. Magnitude(shares[j]) = Times(Cent, k)
      <4>1. CASE sign = Cent
        BY <1>2, <3>1, <4>1 DEF Times, Magnitude
      <4>2. CASE sign = -Cent
        BY <1>2, <3>1, <4>2 DEF Times, Magnitude
      <4> QED BY <1>2, <4>1, <4>2
    <3> QED BY <3>2 DEF k
  <2>5. ASSUME NEW j \in 1..n, weights[i] > weights[j] PROVE Magnitude(shares[i]) >= Magnitude(shares[j])
    <3> DEFINE k == share[i]
               m == share[j]
    <3>1. k \in Nat /\ m \in Nat /\ k \in Int /\ m \in Int
      BY <1>8
    <3>2. m <= k
      BY <2>1, <2>5, <3>1
    <3>3. Magnitude(shares[i]) = Times(Cent, k) /\ Magnitude(shares[j]) = Times(Cent, m)
      BY <2>4
    <3> HIDE DEF k, m
    <3>4. Cent \in Nat
      BY <1>2
    <3>5. Times(Cent, m) <= Times(Cent, k)
      BY <3>1, <3>2, <3>4, ProductsAreOrdered
    <3>6. Times(Cent, m) \in Nat /\ Times(Cent, k) \in Nat
      BY <3>1, <3>4, ProductIsNatural
    <3> QED BY <3>3, <3>5, <3>6
  <2> QED BY <2>2, <2>3, <2>5
<1>12. \A i \in DOMAIN weights :
         /\ Magnitude(shares[i] * total - amount * weights[i]) < Cent * total
         /\ weights[i] = 0 => shares[i] = 0
         /\ \A j \in DOMAIN weights : weights[i] > weights[j] => Magnitude(shares[i]) >= Magnitude(shares[j])
  BY <1>1, <1>11, Zenon
<1>13. SplitsExactly(amount, weights) <=>
         /\ SumFunction(shares) = amount
         /\ \A i \in DOMAIN weights :
              /\ Magnitude(shares[i] * total - amount * weights[i]) < Cent * total
              /\ weights[i] = 0 => shares[i] = 0
              /\ \A j \in DOMAIN weights : weights[i] > weights[j] => Magnitude(shares[i]) >= Magnitude(shares[j])
  BY Zenon DEF SplitsExactly, shares, total
<1> QED BY <1>9, <1>12, <1>13, Zenon

-----------------------------------------------------------------------------
(* Splitting a household's bill *)

\* A part is at most the whole, where nothing is negative.
LEMMA PartOfSum ==
  ASSUME NEW D, IsFiniteSet(D), NEW f, \A x \in D : f[x] \in Nat, NEW y \in D
  PROVE  f[y] \in 0..SumFunctionOnSet(f, D)
<1> DEFINE rest == D \ {y}
           none == [x \in rest |-> 0]
<1>1. IsFiniteSet(rest) /\ y \notin rest /\ rest \cup {y} = D
  BY FS_RemoveElement
<1>2. \A x \in rest : none[x] \in 0..1 /\ none[x] # 1 /\ none[x] \in Int /\ f[x] \in Int /\ none[x] <= f[x]
  OBVIOUS
<1>3. {x \in rest : none[x] = 1} = {}
  BY <1>2
<1> HIDE DEF none, rest
<1>4. SumFunctionOnSet(none, rest) = 0
  <2>1. SumFunctionOnSet(none, rest) = Cardinality({x \in rest : none[x] = 1})
    BY <1>1, <1>2, SumOfOnes
  <2> QED BY <1>3, <2>1, FS_EmptySet
<1>5. SumFunctionOnSet(none, rest) <= SumFunctionOnSet(f, rest)
  BY <1>1, <1>2, SumsAreOrdered
<1>6. \A x \in rest \cup {y} : f[x] \in Int
  BY <1>1
<1>7. SumFunctionOnSet(f, rest \cup {y}) = f[y] + SumFunctionOnSet(f, rest)
  BY <1>1, <1>6, SumOfOneMore
<1>8. SumFunctionOnSet(f, rest) \in Int /\ f[y] \in Nat
  BY <1>1, <1>2, SumIsWhole
<1> DEFINE whole == SumFunctionOnSet(f, D)
           others == SumFunctionOnSet(f, rest)
<1>9. whole = f[y] + others /\ others \in Int /\ 0 <= others /\ f[y] \in Nat
  BY <1>1, <1>4, <1>5, <1>7, <1>8
<1> HIDE DEF whole, others
<1>10. f[y] \in 0..whole
  BY <1>9
<1> QED BY <1>10 DEF whole

Ones(n) == [i \in 1..n |-> 1]

LEMMA SumOfAllOnes ==
  ASSUME NEW n \in Nat
  PROVE  SumFunction(Ones(n)) = n /\ SumFunctionOnSet(Ones(n), 1..n) = n /\ Ones(n) \in [1..n -> Nat]
<1>1. IsFiniteSet(1..n) /\ Cardinality(1..n) = n
  BY FS_Interval
<1>2. \A i \in 1..n : Ones(n)[i] \in 0..1
  BY DEF Ones
<1>3. {i \in 1..n : Ones(n)[i] = 1} = 1..n
  BY DEF Ones
<1>4. SumFunctionOnSet(Ones(n), 1..n) = n
  BY <1>1, <1>2, <1>3, SumOfOnes
<1>5. DOMAIN Ones(n) = 1..n /\ Ones(n) \in [1..n -> Nat]
  BY DEF Ones
<1> QED BY <1>4, <1>5 DEF SumFunction

\* Among equal shares the first gets the cent left over, if there is one.
LEMMA EvenShare ==
  ASSUME NEW n \in Nat \ {0}, NEW cents \in Nat
  PROVE  Times(n, SharesOf(cents, Ones(n))[1]) \in cents..(cents + (n - 1))
<1> DEFINE w == Ones(n)
           floor == Floors(cents, w)
           lost == Losses(cents, w)
           left == LeftOver(cents, w)
           quotient == Quotient(cents, n)
           rest == Remainder(cents, n)
           share == SharesOf(cents, w)[1]
<1>1. SumFunction(w) = n /\ SumFunctionOnSet(w, 1..n) = n /\ w \in [1..n -> Nat] /\ SumFunction(w) > 0
  BY SumOfAllOnes
<1>2. quotient \in Nat /\ rest \in 0..(n - 1) /\ cents = Times(n, quotient) + rest
  <2>1. cents \in Int
    OBVIOUS
  <2> QED BY <2>1, Division, DivisionIsNatural
<1>3. floor = [i \in 1..n |-> quotient] /\ lost = [i \in 1..n |-> rest]
  <2>1. DOMAIN w = 1..n /\ \A i \in 1..n : cents * w[i] = cents
    BY DEF Ones
  <2>2. floor = [i \in 1..n |-> (cents * w[i]) \div n] /\ lost = [i \in 1..n |-> (cents * w[i]) % n]
    BY <1>1, <2>1 DEF Floors, Losses
  <2> HIDE DEF w, floor, lost
  <2> QED BY <2>1, <2>2 DEF Quotient, Remainder
<1>4. left = rest
  <2>1. \A i \in 1..n : w[i] \in Int /\ floor[i] = Times(quotient, w[i])
    <3>1. \A i \in 1..n : w[i] = 1
      BY DEF Ones
    <3> HIDE DEF w, floor
    <3> QED BY <1>2, <1>3, <3>1, ProductWithOne
  <2>2. IsFiniteSet(1..n) /\ quotient \in Int
    BY <1>2, FS_Interval
  <2>3. SumFunction(floor) = SumFunctionOnSet(floor, 1..n)
    BY <1>3 DEF SumFunction
  <2>4. left = cents - SumFunctionOnSet(floor, 1..n)
    BY <2>3 DEF LeftOver
  <2> HIDE DEF w, floor, left, quotient, rest
  <2>5. SumFunctionOnSet(floor, 1..n) = Times(quotient, n)
    <3>1. SumFunctionOnSet(floor, 1..n) = Times(quotient, SumFunctionOnSet(w, 1..n))
      BY <2>1, <2>2, SumOfMultiples
    <3> QED BY <1>1, <3>1
  <2>6. Times(quotient, n) = Times(n, quotient) /\ Times(n, quotient) \in Int
    <3>1. n \in Int /\ quotient \in Int
      BY <2>2
    <3> QED BY <3>1, ProductsCommute, ProductIsWhole
  <2> QED BY <1>2, <2>4, <2>5, <2>6
<1>5. 1 \in 1..n
  OBVIOUS
<1>6. PlaceOf(lost, 1) = 0
  <2>1. Ahead(lost, 1) = {}
    <3> HIDE DEF lost, rest
    <3>1. \A j \in 1..n : lost[j] = rest /\ ~(rest > rest) /\ ~(j < 1)
      BY <1>2, <1>3
    <3>2. DOMAIN lost = 1..n
      BY <1>3
    <3> QED BY <1>5, <3>1, <3>2 DEF Ahead
  <2>2. lost \in [1..n -> Int]
    <3> HIDE DEF lost, rest
    <3> QED BY <1>2, <1>3
  <2>3. PlaceOf(lost, 1) = Cardinality(Ahead(lost, 1))
    BY <2>2, <1>5, AheadIsFinite
  <2> QED BY <2>1, <2>3, FS_EmptySet
<1>7. Served(cents, w)[1] = IF rest > 0 THEN 1 ELSE 0
  <2>1. DOMAIN w = 1..n
    BY DEF Ones
  <2>2. Served(cents, w)[1] = IF PlaceOf(lost, 1) < left THEN 1 ELSE 0
    BY <1>5, <2>1 DEF Served
  <2> HIDE DEF w, lost, left, rest
  <2> QED BY <1>2, <1>4, <1>6, <2>2
<1>8. share = quotient + IF rest > 0 THEN 1 ELSE 0
  <2>1. DOMAIN w = 1..n
    BY DEF Ones
  <2>2. share = floor[1] + Served(cents, w)[1]
    BY <1>5, <2>1, SharesAreServed
  <2>3. floor[1] = quotient
    <3> HIDE DEF floor, quotient
    <3> QED BY <1>3, <1>5
  <2> HIDE DEF w, floor, share, quotient, rest
  <2> QED BY <1>7, <2>2, <2>3
<1> HIDE DEF w, quotient, rest, share
<1>9. Times(n, quotient) \in Int
  BY <1>2, ProductIsWhole
<1>10. Times(n, share) \in cents..(cents + (n - 1))
  <2>1. CASE rest > 0
    <3>1. Times(n, quotient + 1) = Times(n, quotient) + Times(n, 1) /\ Times(n, 1) = n
      BY <1>2, ProductOfSum, ProductWithOne
    <3> QED BY <1>2, <1>8, <1>9, <2>1, <3>1
  <2>2. CASE rest = 0
    <3>1. share = quotient
      BY <1>2, <1>8, <2>2
    <3> QED BY <1>2, <1>9, <2>2, <3>1
  <2> QED BY <1>2, <2>1, <2>2
<1> QED BY <1>10 DEF share, w

\* One share of a bill that is not negative, in cents and in units.
LEMMA FirstShare ==
  ASSUME NEW cost \in Nat, NEW weights \in Seq(Int), CanAllocate(cost, weights)
  PROVE  /\ Allocate(cost, weights)[1] = Times(Cent, SharesOf(Quotient(cost, Cent), weights)[1])
         /\ Quotient(cost, Cent) \in Nat /\ cost = Times(Cent, Quotient(cost, Cent))
         /\ SharesOf(Quotient(cost, Cent), weights)[1] \in 0..Quotient(cost, Cent)
<1> DEFINE n == Len(weights)
           cents == Quotient(cost, Cent)
           share == SharesOf(cents, weights)
<1>1. n \in Nat \ {0} /\ weights \in [1..n -> Nat] /\ DOMAIN weights = 1..n /\ SumFunction(weights) > 0
  BY DEF CanAllocate
<1>2. Cent \in Nat \ {0}
  BY SharesAssumption
<1>3. Magnitude(cost) = cost /\ Remainder(cost, Cent) = 0
  BY DEF CanAllocate, Magnitude, Remainder
<1>4. cents \in Nat /\ cost = Times(Cent, cents)
  <2>1. cost \in Int
    OBVIOUS
  <2>2. cents \in Nat
    BY <1>2, DivisionIsNatural
  <2>3. cost = Times(Cent, cents) + Remainder(cost, Cent) /\ Times(Cent, cents) \in Int
    BY <1>2, <2>1, <2>2, Division, ProductIsWhole
  <2> QED BY <1>3, <2>2, <2>3
<1>5. share \in [1..n -> Nat] /\ SumFunctionOnSet(share, 1..n) = cents
  <2> HIDE DEF n, cents
  <2> QED BY <1>1, <1>4, SharesAddUp
<1> HIDE DEF n
<1>6. 1 \in 1..n
  BY <1>1
<1>7. share[1] \in 0..cents
  <2> HIDE DEF share, cents
  <2>1. IsFiniteSet(1..n)
    BY <1>1, FS_Interval
  <2>3. \A i \in 1..n : share[i] \in Nat
    BY <1>5
  <2>2. share[1] \in 0..SumFunctionOnSet(share, 1..n)
    BY <1>6, <2>1, <2>3, PartOfSum
  <2> QED BY <1>5, <2>2
<1>8. Allocate(cost, weights)[1] = Times(Cent, share[1])
  <2>1. cost \div Cent = cents
    BY DEF Quotient
  <2>2. Allocate(cost, weights) = [i \in 1..n |-> Signed(cost, share[i] * Cent)]
    BY <1>1, <1>3, <2>1 DEF Allocate
  <2> DEFINE k == share[1]
  <2>3. k \in Nat
    BY <1>7, <1>4
  <2>4. Allocate(cost, weights)[1] = Signed(cost, k * Cent)
    BY <1>6, <2>2
  <2> HIDE DEF k
  <2>5. Signed(cost, k * Cent) = Times(Cent, k)
    BY <1>2, <2>3 DEF Signed, Times
  <2> QED BY <2>4, <2>5 DEF k
<1> QED BY <1>4, <1>7, <1>8

(* HouseholdProfile.share_of and others_share_of, for every profile that    *)
(* __post_init__ accepts and every bill: the members pay it in full, each   *)
(* between nothing and the bill, and the user's part of an even split is    *)
(* the largest.  A negative fixed amount, which the code accepts, is left   *)
(* out: with one the others would pay more than the bill.                   *)
THEOREM HouseholdPaysItsBill ==
  ASSUME NEW home \in [size : Int, method : {"EVEN", "PERCENTAGE", "FIXED"}, weight : Int, fixed : Nat],
         HouseholdIsValid(home), NEW cost \in Nat
  PROVE  SplitsTheBill(home, cost)
<1> DEFINE mine == ShareOf(home, cost)
           goal == /\ mine.amount \in 0..cost /\ OthersShareOf(home, cost) \in 0..cost
                   /\ home.method = "EVEN" =>
                        mine.amount * home.size \in cost..(cost + Cent * (home.size - 1))
<1>1. home.size \in Nat \ {0} /\ home.fixed \in Nat /\ home.weight \in Int
  BY DEF HouseholdIsValid
<1>2. Cent \in Nat \ {0}
  BY SharesAssumption
<1>3. SUFFICES ASSUME mine.ok PROVE goal
  BY DEF SplitsTheBill
<1>4. OthersShareOf(home, cost) = cost - mine.amount
  BY DEF OthersShareOf
<1>5. CASE home.size = 1
  <2>1. mine.amount = cost
    BY <1>5 DEF ShareOf, Exactly
  <2>2. mine.amount * home.size = cost /\ Cent * (home.size - 1) = 0
    BY <1>2, <1>5, <2>1
  <2> HIDE DEF mine
  <2> QED BY <1>4, <2>1, <2>2
<1>6. CASE home.size # 1 /\ home.method = "FIXED"
  <2>1. mine.amount = IF home.fixed < cost THEN home.fixed ELSE cost
    BY <1>6 DEF ShareOf, Exactly
  <2> HIDE DEF mine
  <2> QED BY <1>1, <1>4, <1>6, <2>1
<1>7. CASE home.size # 1 /\ home.method # "FIXED"
  <2> DEFINE weights == Weights(home)
             cents == Quotient(cost, Cent)
             share == SharesOf(cents, weights)[1]
  <2>1. CanAllocate(cost, weights) /\ mine.amount = Allocate(cost, weights)[1]
    BY <1>3, <1>7 DEF ShareOf, Exactly, Refused
  <2>2. weights \in Seq(Int)
    <3>1. CASE home.method = "PERCENTAGE"
      <4>1. Whole \in Int
        BY SharesAssumption
      <4> QED BY <1>1, <3>1, <4>1 DEF Weights
    <3>2. CASE home.method = "EVEN"
      BY <1>1, <3>2 DEF Weights
    <3> QED BY <1>7, <3>1, <3>2
  <2>3. /\ mine.amount = Times(Cent, share) /\ cents \in Nat /\ cost = Times(Cent, cents)
        /\ share \in 0..cents
    <3> HIDE DEF weights, mine
    <3> QED BY <2>1, <2>2, FirstShare
  <2>4. home.method = "EVEN" => Times(home.size, share) \in cents..(cents + (home.size - 1))
    <3> SUFFICES ASSUME home.method = "EVEN" PROVE Times(home.size, share) \in cents..(cents + (home.size - 1))
      OBVIOUS
    <3>1. weights = Ones(home.size)
      BY DEF Weights, Ones
    <3> HIDE DEF weights, cents
    <3> QED BY <1>1, <2>3, <3>1, EvenShare
  <2> HIDE DEF mine, share, cents
  <2>5. mine.amount \in 0..cost
    <3>1. Times(Cent, 0) <= Times(Cent, share) /\ Times(Cent, share) <= Times(Cent, cents)
      BY <1>2, <2>3, ProductsAreOrdered
    <3>2. Times(Cent, 0) = 0 /\ Times(Cent, share) \in Int
      BY <1>2, <2>3, ProductWithOne, ProductIsWhole
    <3> QED BY <2>3, <3>1, <3>2
  <2>6. home.method = "EVEN" => mine.amount * home.size \in cost..(cost + Cent * (home.size - 1))
    <3> SUFFICES ASSUME home.method = "EVEN"
                 PROVE  mine.amount * home.size \in cost..(cost + Cent * (home.size - 1))
      OBVIOUS
    <3> DEFINE n == home.size
               all == Times(n, share)
    <3>1. all \in Int /\ cents <= all /\ all <= cents + (n - 1) /\ n \in Nat \ {0}
      BY <1>1, <2>3, <2>4, ProductIsWhole
    <3>2. mine.amount * n = Times(Cent, all)
      BY <1>1, <1>2, <2>3 DEF Times
    <3> HIDE DEF all, n
    <3>7. Cent \in Nat /\ Cent \in Int /\ cents \in Int /\ n - 1 \in Int /\ cents + (n - 1) \in Int
      BY <1>2, <2>3, <3>1
    <3>3. Times(Cent, cents) <= Times(Cent, all) /\ Times(Cent, all) <= Times(Cent, cents + (n - 1))
      BY <3>7, <3>1, ProductsAreOrdered
    <3>4. Times(Cent, cents + (n - 1)) = Times(Cent, cents) + Times(Cent, n - 1)
      BY <3>7, <3>1, ProductOfSum
    <3>5. Times(Cent, all) \in Int /\ Times(Cent, n - 1) \in Int
      BY <3>7, <3>1, ProductIsWhole
    <3>6. Times(Cent, all) \in cost..(cost + Times(Cent, n - 1))
      BY <2>3, <3>3, <3>4, <3>5
    <3> QED BY <3>2, <3>6 DEF Times, n
  <2> QED BY <1>4, <2>5, <2>6
<1> QED BY <1>5, <1>6, <1>7

-----------------------------------------------------------------------------
(* What is asked *)

\* A question about a bill, a household, a horizon, a series, a file, a ledger or an
\* export is one of those that may be asked.
ListedQuestion ==
  /\ question.about = "bill" => question \in BillQuestions
  /\ question.about = "home" => question \in HomeQuestions
  /\ question.about = "horizon" => question \in HorizonQuestions
  /\ question.about = "series" => question \in SeriesQuestions
  /\ question.about = "file" => question \in FileQuestions
  /\ question.about = "ledger" => question \in LedgerQuestions
  /\ question.about = "recurrence" => question \in RecurrenceQuestions

LEMMA OthersAskElse ==
  /\ \A q \in OfferQuestions : q.about = "offer"
  /\ \A q \in SalaryQuestions : q.about = "salary"
<1>1. \A q \in OfferQuestions : q.about = "offer"
  <2>1. \A start, months, move, size, kept, new :
          OfferQuestion(start, months, move, size, kept, new).about = "offer"
    BY DEF OfferQuestion
  <2> QED BY <2>1 DEF OfferQuestions
<1>2. \A q \in SalaryQuestions : q.about = "salary"
  BY DEF SalaryQuestions
<1> QED BY <1>1, <1>2

LEMMA ListedStays ==
  Spec => []ListedQuestion
<1>1. Init => ListedQuestion
  BY DEF Init, NoQuestion, ListedQuestion
<1>2. ListedQuestion /\ [Next]_question => ListedQuestion'
  <2> SUFFICES ASSUME ListedQuestion, [Next]_question PROVE ListedQuestion'
    OBVIOUS
  <2>1. CASE UNCHANGED question
    BY <2>1 DEF ListedQuestion
  <2>2. CASE AskBill
    <3>1. question' \in BillQuestions /\ question'.about = "bill"
      BY <2>2 DEF AskBill, Ask, BillQuestions
    <3> QED BY <3>1 DEF ListedQuestion
  <2>3. CASE AskHome
    <3>1. question' \in HomeQuestions /\ question'.about = "home"
      BY <2>3 DEF AskHome, Ask, HomeQuestions
    <3> QED BY <3>1 DEF ListedQuestion
  <2>4. CASE AskHorizon
    <3>1. question' \in HorizonQuestions /\ question'.about = "horizon"
      BY <2>4 DEF AskHorizon, Ask, HorizonQuestions
    <3> QED BY <3>1 DEF ListedQuestion
  <2>5. CASE AskSeries
    <3>1. question' \in SeriesQuestions /\ question'.about = "series"
      BY <2>5 DEF AskSeries, Ask, SeriesQuestions
    <3> QED BY <3>1 DEF ListedQuestion
  <2>6. CASE AskFile
    <3>1. question' \in FileQuestions /\ question'.about = "file"
      BY <2>6 DEF AskFile, Ask, FileQuestions
    <3> QED BY <3>1 DEF ListedQuestion
  <2>7. CASE AskOffer \/ AskSalary
    <3>1. question'.about \in {"offer", "salary"}
      BY <2>7, OthersAskElse DEF AskOffer, AskSalary, Ask
    <3> QED BY <3>1 DEF ListedQuestion
  <2>8. CASE AskLedger
    <3>1. question' \in LedgerQuestions /\ question'.about = "ledger"
      BY <2>8 DEF AskLedger, Ask, LedgerQuestions
    <3> QED BY <3>1 DEF ListedQuestion
  <2>9. CASE AskRecurrence
    <3>1. question' \in RecurrenceQuestions /\ question'.about = "recurrence"
      BY <2>9 DEF AskRecurrence, Ask, RecurrenceQuestions
    <3> QED BY <3>1 DEF ListedQuestion
  <2> QED BY <2>1, <2>2, <2>3, <2>4, <2>5, <2>6, <2>7, <2>8, <2>9 DEF Next
<1> QED BY <1>1, <1>2, PTL DEF Spec

LEMMA SequencesUpTo ==
  ASSUME NEW S, NEW n \in Nat, NEW w \in SeqsUpTo(S, n)
  PROVE  w \in Seq(S)
BY DEF SeqsUpTo

(* Money.allocate and HouseholdProfile.share_of lose and invent no cent and *)
(* are fair to within one: of every bill and every household asked about.   *)
THEOREM BillsAreSplit ==
  Spec => []BillsAreSplitExactly
<1>1. ListedQuestion => BillsAreSplitExactly
  <2> SUFFICES ASSUME ListedQuestion PROVE BillsAreSplitExactly
    OBVIOUS
  <2>1. ASSUME question.about = "bill" PROVE SplitsExactly(question.amount, question.weights)
    <3> DEFINE amount == question.amount
               weights == question.weights
    <3>1. amount \in Bills /\ weights \in Weightings
      BY <2>1 DEF ListedQuestion, BillQuestions
    <3>2. weights \in SeqsUpTo(0..3, 3) /\ CanAllocate(8, weights)
      BY <3>1 DEF Weightings
    <3>3. weights \in Seq(Int)
      <4>1. weights \in Seq(0..3)
        BY <3>2, SequencesUpTo
      <4> HIDE DEF weights
      <4> QED BY <4>1
    <3> HIDE DEF amount, weights
    <3>4. amount \in Int /\ Magnitude(amount) \in {0, 8, 24, 56}
      BY <3>1 DEF Bills, Magnitude
    <3>5. Cent \in 1..8 /\ 8 % Cent = 0
      <4>1. Cent \in Nat \ {0}
        BY SharesAssumption
      <4>2. 8 % Cent = 0
        BY <3>2 DEF CanAllocate, Magnitude
      <4>3. ~(Cent > 8)
        <5> SUFFICES ASSUME Cent > 8 PROVE FALSE
          OBVIOUS
        <5>1. 8 % Cent = 8
          BY <4>1
        <5> QED BY <4>2, <5>1
      <4> QED BY <4>1, <4>2, <4>3
    <3>6. Cent \in {1, 2, 4, 8}
      BY <3>5
    <3>7. Magnitude(amount) % Cent = 0
      BY <3>4, <3>6
    <3>8. CanAllocate(amount, weights)
      BY <3>2, <3>7 DEF CanAllocate
    <3>9. SplitsExactly(amount, weights)
      BY <3>3, <3>4, <3>8, AllocationIsExact
    <3> QED BY <3>9 DEF amount, weights
  <2>2. ASSUME question.about = "home" PROVE SplitsTheBill(question.home, question.cost)
    <3> DEFINE home == question.home
               cost == question.cost
    <3>1. home \in Homes /\ cost \in {0, 8, 24, 56, 12}
      BY <2>2 DEF ListedQuestion, HomeQuestions
    <3> HIDE DEF home, cost
    <3>2. HouseholdIsValid(home) /\ cost \in Nat
          /\ home \in [size : Int, method : {"EVEN", "PERCENTAGE", "FIXED"}, weight : Int, fixed : Nat]
      BY <3>1 DEF Homes
    <3>3. SplitsTheBill(home, cost)
      BY <3>2, HouseholdPaysItsBill
    <3> QED BY <3>3 DEF home, cost
  <2> QED BY <2>1, <2>2 DEF BillsAreSplitExactly
<1> QED BY <1>1, ListedStays, PTL

-----------------------------------------------------------------------------
(* Months and break-even *)

(* DateRange.of_months, month_count and months, for any calendar: a horizon *)
(* of n months has n anchors, one in each calendar month, all inside the    *)
(* range and in order, whatever day of the month it begins on.              *)
THEOREM HorizonsAreCounted ==
  ASSUME NEW start \in Int \X Nat, NEW n \in Nat,
         start[1]..(start[1] + n) \subseteq DOMAIN DaysIn, start[2] \in 1..DaysIn[start[1]]
  PROVE  StepsThroughEveryMonth(start, n)
<1> DEFINE month == start[1]
           day == start[2]
           end == AddMonths(start, n)
           anchors == Anchors(start, end)
           Clamped(m) == IF day < DaysIn[m] THEN day ELSE DaysIn[m]
<1>1. month \in Int /\ day \in Nat \ {0} /\ start = <<month, day>>
  OBVIOUS
<1>2. \A i \in 0..n : month + i \in DOMAIN DaysIn /\ DaysIn[month + i] \in Nat \ {0}
  BY <1>1, MonthsAssumption
<1>3. \A i \in 0..n : AddMonths(start, i) = <<month + i, Clamped(month + i)>>
  BY DEF AddMonths
<1>4. Clamped(month) = day
  BY <1>1, <1>2
<1> HIDE DEF month, day
<1>5. \A i \in 0..n : Clamped(month + i) \in Nat \ {0}
  BY <1>1, <1>2
<1> HIDE DEF Clamped
<1>6. end = <<month + n, Clamped(month + n)>>
  BY <1>3
<1>7. MonthCount(start, end) = n
  <2>1. end[1] - start[1] = n
    BY <1>1, <1>6
  <2>2. AddMonths(start, end[1] - start[1]) = end
    BY <2>1
  <2>3. ~Before(end, end)
    BY <1>1, <1>5, <1>6 DEF Before
  <2> HIDE DEF end
  <2> QED BY <2>1, <2>2, <2>3 DEF MonthCount
<1>8. anchors = [i \in 1..n |-> AddMonths(start, i - 1)]
  BY <1>7 DEF Anchors
<1>9. ASSUME NEW i \in 1..n PROVE anchors[i] = <<month + (i - 1), Clamped(month + (i - 1))>>
  <2>1. i - 1 \in 0..n
    OBVIOUS
  <2>2. anchors[i] = AddMonths(start, i - 1)
    BY <1>8
  <2> QED BY <1>3, <2>1, <2>2
<1>10. Len(anchors) = n
  BY <1>8
<1> HIDE DEF anchors, end
<1>11. ASSUME NEW i \in 1..n
       PROVE  /\ anchors[i][1] = start[1] + i - 1
              /\ ~Before(anchors[i], start) /\ Before(anchors[i], end)
              /\ i > 1 => Before(anchors[i - 1], anchors[i])
  <2>1. anchors[i][1] = month + (i - 1) /\ anchors[i][2] = Clamped(month + (i - 1))
    BY <1>9
  <2>2. anchors[i][1] = start[1] + i - 1
    BY <1>1, <2>1
  <2>3. ~Before(anchors[i], start)
    <3>1. CASE i = 1
      <4>1. anchors[i][1] = month /\ anchors[i][2] = day
        BY <1>1, <1>4, <2>1, <3>1
      <4> QED BY <1>1, <4>1 DEF Before
    <3>2. CASE i # 1
      BY <1>1, <2>1, <3>2 DEF Before
    <3> QED BY <3>1, <3>2
  <2>4. Before(anchors[i], end)
    BY <1>1, <1>6, <2>1 DEF Before
  <2>5. ASSUME i > 1 PROVE Before(anchors[i - 1], anchors[i])
    <3>1. i - 1 \in 1..n
      BY <2>5
    <3>2. anchors[i - 1][1] = month + ((i - 1) - 1)
      BY <1>9, <3>1
    <3> QED BY <1>1, <2>1, <3>2 DEF Before
  <2> QED BY <2>2, <2>3, <2>4, <2>5
<1> QED BY <1>10, <1>11 DEF StepsThroughEveryMonth, anchors, end

LEMMA GreatestInteger ==
  ASSUME NEW n \in Nat, NEW T \in SUBSET (1..n), T # {}
  PROVE  \E m \in T : \A y \in T : y <= m
<1> DEFINE Below == {n - y : y \in T}
<1>1. Below \in SUBSET Nat /\ Below # {}
  <2>1. \A y \in T : n - y \in Nat
    OBVIOUS
  <2> QED BY <2>1
<1>2. PICK g \in Below : \A y \in Below : g <= y
  BY <1>1, LeastNatural
<1>3. PICK m \in T : g = n - m
  BY <1>2
<1>4. \A y \in T : y <= m
  <2> SUFFICES ASSUME NEW y \in T PROVE y <= m
    OBVIOUS
  <2>1. n - y \in Below
    OBVIOUS
  <2>2. g <= n - y
    BY <1>2, <2>1
  <2> QED BY <1>3, <2>2
<1> QED BY <1>4

(* solve_break_even, for any series of balances: the first month answered   *)
(* is the first that is not behind, the stable one is the first after which *)
(* none is, and each is missing exactly where there is none.                *)
THEOREM BreakEvensAreRight ==
  ASSUME NEW series \in Seq(Int)
  PROVE  BreakEvenIsRight(series)
<1> DEFINE n == Len(series)
           ahead == {i \in 1..n : series[i] >= 0}
           behind == {i \in 1..n : series[i] < 0}
           first == FirstCrossing(series)
           stable == StableMonth(series)
<1>1. n \in Nat /\ \A i \in 1..n : i \in behind <=> i \notin ahead
  OBVIOUS
<1>2. ahead \in SUBSET (1..n) /\ behind \in SUBSET (1..n)
  OBVIOUS
<1>3. /\ ahead = {} => first = 0
      /\ ahead # {} => first \in ahead /\ \A j \in ahead : first <= j
  <2>1. first = IF ahead = {} THEN 0 ELSE CHOOSE i \in ahead : \A j \in ahead : i <= j
    BY DEF FirstCrossing, NoMonth
  <2>2. ASSUME ahead # {} PROVE \E i \in ahead : \A j \in ahead : i <= j
    <3>1. ahead \in SUBSET Nat
      BY <1>2
    <3> HIDE DEF ahead
    <3> QED BY <2>2, <3>1, LeastNatural
  <2> HIDE DEF ahead, first
  <2> QED BY <2>1, <2>2
<1>4. /\ behind = {} => stable = 1
      /\ behind # {} /\ n \in behind => stable = 0
      /\ behind # {} /\ n \notin behind => \E l \in behind : stable = l + 1 /\ \A j \in behind : j <= l
  <2>1. stable = IF behind = {} THEN 1 ELSE IF n \in behind THEN 0
                 ELSE (CHOOSE i \in behind : \A j \in behind : j <= i) + 1
    BY DEF StableMonth, NoMonth
  <2>2. ASSUME behind # {} PROVE \E i \in behind : \A j \in behind : j <= i
    <3> HIDE DEF behind, n
    <3> QED BY <1>1, <1>2, <2>2, GreatestInteger
  <2> HIDE DEF behind, stable, n
  <2> QED BY <2>1, <2>2
<1>5. ASSUME NEW i \in 1..n
      PROVE  /\ first = i <=> series[i] >= 0 /\ \A j \in 1..(i - 1) : ~(series[j] >= 0)
             /\ stable = i <=> /\ \A k \in i..n : series[k] >= 0
                               /\ \A j \in 1..(i - 1) : ~(\A k \in j..n : series[k] >= 0)
  <2>1. \A j \in 1..n : (series[j] >= 0 <=> j \in ahead) /\ (j \in behind <=> j \notin ahead)
    OBVIOUS
  <2> HIDE DEF ahead, behind, first, stable, n
  <2>2. first = i <=> i \in ahead /\ \A j \in 1..(i - 1) : j \notin ahead
    <3>1. i \in Nat \ {0} /\ \A j \in ahead : j \in Nat \ {0} /\ j <= n
      BY <1>1, <1>2
    <3>2. CASE ahead = {}
      BY <1>3, <3>1, <3>2
    <3>3. CASE ahead # {}
      <4>1. first \in ahead /\ first \in Nat \ {0} /\ \A j \in ahead : first <= j
        BY <1>3, <3>1, <3>3
      <4>2. ASSUME first = i PROVE \A j \in 1..(i - 1) : j \notin ahead
        BY <3>1, <4>1, <4>2
      <4>3. ASSUME i \in ahead, \A j \in 1..(i - 1) : j \notin ahead PROVE first = i
        <5>1. first <= i /\ first \notin 1..(i - 1)
          BY <4>1, <4>3
        <5> QED BY <3>1, <4>1, <5>1
      <4> QED BY <4>1, <4>2, <4>3
    <3> QED BY <3>2, <3>3
  <2>3. stable = i <=> /\ \A k \in i..n : k \in ahead
                       /\ \A j \in 1..(i - 1) : ~(\A k \in j..n : k \in ahead)
    <3>1. CASE behind = {}
      <4>1. \A k \in 1..n : k \in ahead
        BY <1>1, <3>1
      <4>2. i # 1 => 1 \in 1..(i - 1) /\ \A k \in 1..n : k \in ahead
        BY <4>1
      <4> QED BY <1>1, <1>4, <3>1, <4>1, <4>2
    <3>2. CASE n \in behind
      <4>1. n \in i..n /\ n \notin ahead
        BY <1>1, <1>2, <3>2
      <4> QED BY <1>4, <3>2, <4>1
    <3>3. CASE behind # {} /\ n \notin behind
      <4>1. PICK l \in behind : stable = l + 1 /\ \A j \in behind : j <= l
        BY <1>4, <3>3
      <4>2. l \in 1..n /\ l \notin ahead /\ l # n /\ \A k \in (l + 1)..n : k \in ahead
        BY <1>1, <1>2, <3>3, <4>1
      <4>3. ASSUME i = l + 1
            PROVE  /\ \A k \in i..n : k \in ahead
                   /\ \A j \in 1..(i - 1) : ~(\A k \in j..n : k \in ahead)
        <5>1. \A j \in 1..(i - 1) : l \in j..n
          BY <1>1, <4>2, <4>3
        <5> QED BY <4>2, <4>3, <5>1
      <4>4. ASSUME i <= l PROVE ~(\A k \in i..n : k \in ahead)
        <5>1. l \in i..n
          BY <1>1, <4>2, <4>4
        <5> QED BY <4>2, <5>1
      <4>5. ASSUME i > l + 1 PROVE \E j \in 1..(i - 1) : \A k \in j..n : k \in ahead
        <5>1. l + 1 \in 1..(i - 1)
          BY <4>2, <4>5
        <5> QED BY <4>2, <5>1
      <4>6. i = l + 1 \/ i <= l \/ i > l + 1
        BY <4>2
      <4> QED BY <4>1, <4>2, <4>3, <4>4, <4>5, <4>6
    <3> QED BY <3>1, <3>2, <3>3
  <2>4. \A j \in 1..(i - 1) : j \in 1..n
    BY <1>1
  <2>5. \A j \in 1..n : \A k \in j..n : k \in 1..n
    BY <1>1
  <2>6. /\ (\A k \in i..n : series[k] >= 0) <=> (\A k \in i..n : k \in ahead)
        /\ \A j \in 1..(i - 1) : (\A k \in j..n : series[k] >= 0) <=> (\A k \in j..n : k \in ahead)
    BY <2>1, <2>4, <2>5
  <2>7. stable = i <=> /\ \A k \in i..n : series[k] >= 0
                       /\ \A j \in 1..(i - 1) : ~(\A k \in j..n : series[k] >= 0)
    BY <2>3, <2>6
  <2>8. first = i <=> series[i] >= 0 /\ \A j \in 1..(i - 1) : ~(series[j] >= 0)
    BY <2>1, <2>2, <2>4
  <2> QED BY <2>7, <2>8
<1>6. BreakEven(series).first = first /\ BreakEven(series).stable = stable
  BY DEF BreakEven
<1> HIDE DEF first, stable
<1> QED BY <1>5, <1>6 DEF BreakEvenIsRight

(* DateRange.months and solve_break_even agree with their definitions: of   *)
(* every horizon and every series asked about.                              *)
THEOREM MonthsAreCounted ==
  Spec => []MonthsAreCountedRight
<1>1. ListedQuestion => MonthsAreCountedRight
  <2> SUFFICES ASSUME ListedQuestion PROVE MonthsAreCountedRight
    OBVIOUS
  <2>1. ASSUME question.about = "horizon" PROVE StepsThroughEveryMonth(question.start, question.months)
    <3> DEFINE start == question.start
               n == question.months
    <3>1. /\ start \in (0..3) \X (1..4) /\ n \in 0..6
          /\ start[1]..(start[1] + n) \subseteq DOMAIN DaysIn /\ start[2] <= DaysIn[start[1]]
      BY <2>1 DEF ListedQuestion, HorizonQuestions
    <3> HIDE DEF start, n
    <3>2. start \in Int \X Nat /\ n \in Nat /\ start[1] \in Int /\ start[2] \in 1..4
      BY <3>1
    <3>3. start[1] \in DOMAIN DaysIn
      BY <3>1, <3>2
    <3>4. start[2] \in 1..DaysIn[start[1]]
      BY <3>1, <3>2, <3>3, MonthsAssumption
    <3>5. StepsThroughEveryMonth(start, n)
      BY <3>1, <3>2, <3>4, HorizonsAreCounted
    <3> QED BY <3>5 DEF start, n
  <2>2. ASSUME question.about = "series" PROVE BreakEvenIsRight(question.series)
    <3>1. question.series \in SeqsUpTo({-8, 0, 8}, 5)
      BY <2>2 DEF ListedQuestion, SeriesQuestions
    <3>2. question.series \in Seq({-8, 0, 8})
      BY <3>1, SequencesUpTo
    <3>3. question.series \in Seq(Int)
      BY <3>2
    <3> QED BY <3>3, BreakEvensAreRight
  <2> QED BY <2>1, <2>2 DEF MonthsAreCountedRight
<1> QED BY <1>1, ListedStays, PTL
-----------------------------------------------------------------------------
(* What is planned from a file *)

\* The rows up to one that share its key.
SameUpTo(rows, i) == {j \in DOMAIN rows : j <= i /\ KeyOf(rows[j]) = KeyOf(rows[i])}

LEMMA OccurrencesCount ==
  ASSUME NEW rows, NEW i \in DOMAIN rows
  PROVE  Occurrences(rows)[i] = Cardinality(SameUpTo(rows, i))
BY DEF Occurrences, SameUpTo

LEMMA SameAreFinite ==
  ASSUME NEW rows, NEW i, IsFiniteSet(DOMAIN rows)
  PROVE  IsFiniteSet(SameUpTo(rows, i)) /\ Cardinality(SameUpTo(rows, i)) \in Nat
<1>1. SameUpTo(rows, i) \in SUBSET (DOMAIN rows)
  BY DEF SameUpTo
<1> QED BY <1>1, FS_Subset, FS_CardinalityType

\* A row that is not the first with its key follows one that is one behind.
LEMMA OneIsBehind ==
  ASSUME NEW rows, NEW n \in Nat, IsFiniteSet(DOMAIN rows), DOMAIN rows \in SUBSET (1..n),
         NEW i \in DOMAIN rows, Occurrences(rows)[i] > 1
  PROVE  \E j \in DOMAIN rows : j < i /\ KeyOf(rows[j]) = KeyOf(rows[i])
                                /\ Occurrences(rows)[j] = Occurrences(rows)[i] - 1
<1> DEFINE same == SameUpTo(rows, i)
<1>1. IsFiniteSet(same) /\ Cardinality(same) > 1
  BY OccurrencesCount, SameAreFinite
<1>2. i \in same /\ same \in SUBSET (1..n)
  BY DEF SameUpTo
<1>3. IsFiniteSet(same \ {i}) /\ Cardinality(same \ {i}) = Cardinality(same) - 1
  <2> HIDE DEF same
  <2> QED BY <1>1, <1>2, FS_RemoveElement
<1>4. Cardinality(same) \in Nat
  BY SameAreFinite
<1>5. same \ {i} # {}
  <2>1. Cardinality({}) = 0
    BY FS_EmptySet
  <2> HIDE DEF same
  <2> QED BY <2>1, <1>1, <1>3, <1>4
<1>6. PICK j \in same \ {i} : \A k \in same \ {i} : k <= j
  <2> HIDE DEF same
  <2> QED BY <1>2, <1>3, <1>5, GreatestInteger
<1>7. j \in DOMAIN rows /\ j < i /\ KeyOf(rows[j]) = KeyOf(rows[i])
  BY <1>6 DEF SameUpTo
<1>8. SameUpTo(rows, j) = same \ {i}
  <2>1. ASSUME NEW k \in SameUpTo(rows, j) PROVE k \in same \ {i}
    BY <2>1, <1>7 DEF SameUpTo
  <2>2. ASSUME NEW k \in same \ {i} PROVE k \in SameUpTo(rows, j)
    <3>1. k <= j
      BY <1>6
    <3> QED BY <3>1, <1>7 DEF SameUpTo
  <2> HIDE DEF same
  <2> QED BY <2>1, <2>2
<1>9. Occurrences(rows)[j] = Occurrences(rows)[i] - 1
  <2>1. Occurrences(rows)[j] = Cardinality(same \ {i})
    BY <1>7, <1>8, OccurrencesCount
  <2>2. Occurrences(rows)[i] = Cardinality(same)
    BY OccurrencesCount
  <2> QED BY <2>1, <2>2, <1>3
<1> QED BY <1>7, <1>9

\* Rows with one key are numbered apart.
LEMMA SameAreNumbered ==
  ASSUME NEW rows, NEW n \in Nat, IsFiniteSet(DOMAIN rows), DOMAIN rows \in SUBSET (1..n),
         NEW i \in DOMAIN rows, NEW j \in DOMAIN rows, j < i,
         KeyOf(rows[j]) = KeyOf(rows[i])
  PROVE  Occurrences(rows)[j] # Occurrences(rows)[i]
<1>1. SameUpTo(rows, j) \in SUBSET SameUpTo(rows, i)
  BY DEF SameUpTo
<1>2. i \in SameUpTo(rows, i) /\ i \notin SameUpTo(rows, j)
  BY DEF SameUpTo
<1>3. Cardinality(SameUpTo(rows, j)) # Cardinality(SameUpTo(rows, i))
  BY <1>1, <1>2, SameAreFinite, FS_Subset
<1> QED BY <1>3, OccurrencesCount

\* What a planned record keeps of its row.
LEMMA RecordsOfRows ==
  ASSUME NEW rows, NEW i \in DOMAIN rows
  PROVE  /\ PlanRecords(rows)[i].line = rows[i].line
         /\ PlanRecords(rows)[i].amount = rows[i].amount
         /\ PlanRecords(rows)[i].id = rows[i].id
         /\ PlanRecords(rows)[i].occurrence = Occurrences(rows)[i]
         /\ FingerprintOf(PlanRecords(rows)[i]) = KeyOf(rows[i])
<1> DEFINE record == PlanRecords(rows)[i]
<1>1. /\ record.line = rows[i].line /\ record.amount = rows[i].amount /\ record.id = rows[i].id
      /\ record.occurrence = Occurrences(rows)[i]
      /\ record.postedOn = rows[i].postedOn /\ record.merchant = rows[i].merchant
  BY DEF PlanRecords
<1> HIDE DEF record
<1>2. FingerprintOf(record) = KeyOf(rows[i])
  BY <1>1, Zenon DEF FingerprintOf, KeyOf, Rounded
<1> QED BY <1>1, <1>2 DEF record
\* A file as csv reads it: every line a sequence of cells.
SomeCell == [kind : {"iso", "numeric", "amount", "reference", "text", "blank"}, first : Int, second : Int]

IsFile(file) ==
  /\ \E Names : file.headers \in Seq(Names)
  /\ file.lines \in Seq(Seq(SomeCell))

\* The columns of a mapping are columns of the file.
IsPresent(file, mapping) ==
  \A column \in SourceColumns(mapping) : \E i \in DOMAIN file.headers : file.headers[i] = column

\* A line with nothing in it has nothing in any column.
LEMMA NothingInAnEmptyLine ==
  ASSUME NEW file, IsFile(file), NEW mapping, IsPresent(file, mapping),
         NEW column \in SourceColumns(mapping)
  PROVE  CellOf(file.headers, <<>>, column) = Blank
<1>1. ColumnAt(file.headers, column) \in DOMAIN file.headers
  <2>1. \E i \in DOMAIN file.headers : file.headers[i] = column
    BY DEF IsPresent
  <2> QED BY <2>1 DEF ColumnAt
<1>2. ColumnAt(file.headers, column) \in Nat \ {0}
  BY <1>1 DEF IsFile
<1>3. Len(<<>>) = 0
  OBVIOUS
<1> QED BY <1>2, <1>3 DEF CellOf

\* The rows of a preview without errors are the lines that hold something,
\* and all of them can be read.
LEMMA PreviewIsWhole ==
  ASSUME NEW file, IsFile(file), NEW mapping, IsPresent(file, mapping), NEW order,
         PreviewWith(file, mapping, order).errors = 0
  PROVE  LET rows == PreviewWith(file, mapping, order).rows
         IN /\ DOMAIN rows = {i \in DOMAIN file.lines : HasContent(file, mapping, i)}
            /\ \A i \in DOMAIN rows : /\ Parses(file.headers, file.lines[i], mapping, order)
                                      /\ rows[i] = Parsed(file, i, mapping, order)
<1> DEFINE rows == {i \in Numbered(file) : ~IsNotATransaction(file.headers, file.lines[i], mapping)}
           good == {i \in rows : Parses(file.headers, file.lines[i], mapping, order)}
           preview == PreviewWith(file, mapping, order)
<1>1. preview.errors = Cardinality(rows \ good) /\ preview.rows = [i \in good |-> Parsed(file, i, mapping, order)]
  BY DEF PreviewWith
<1>2. IsFiniteSet(rows \ good)
  <2>1. DOMAIN file.lines = 1..Len(file.lines) /\ Len(file.lines) \in Nat
    BY DEF IsFile
  <2>2. IsFiniteSet(DOMAIN file.lines)
    BY <2>1, FS_Interval
  <2>3. rows \ good \in SUBSET (DOMAIN file.lines)
    BY DEF Numbered
  <2> QED BY <2>2, <2>3, FS_Subset
<1>3. good = rows
  <2>1. rows \ good = {}
    <3> HIDE DEF rows, good
    <3> QED BY <1>1, <1>2, FS_EmptySet DEF preview
  <2> QED BY <2>1
<1>4. ASSUME NEW i \in DOMAIN file.lines PROVE i \in rows <=> HasContent(file, mapping, i)
  <2>1. file.lines[i] = <<>> => ~HasContent(file, mapping, i)
    BY NothingInAnEmptyLine DEF HasContent
  <2>2. IsNotATransaction(file.headers, file.lines[i], mapping) <=> ~HasContent(file, mapping, i)
    BY DEF IsNotATransaction, HasContent
  <2> QED BY <2>1, <2>2 DEF Numbered
<1>5. rows \in SUBSET (DOMAIN file.lines)
  BY DEF Numbered
<1>6. rows = {i \in DOMAIN file.lines : HasContent(file, mapping, i)}
  <2> HIDE DEF rows
  <2> QED BY <1>4, <1>5
<1>7. \A i \in rows : Parses(file.headers, file.lines[i], mapping, order)
  BY <1>3
<1> HIDE DEF rows, good, preview
<1>8. DOMAIN preview.rows = rows /\ \A i \in rows : preview.rows[i] = Parsed(file, i, mapping, order)
  BY <1>1, <1>3
<1> QED BY <1>6, <1>7, <1>8 DEF preview

\* The amount of a debit is money out.
LEMMA DebitsAreOutflows ==
  ASSUME NEW file, IsFile(file), NEW mapping, MappingIsValid(mapping), IsPresent(file, mapping),
         NEW order, NEW i \in DOMAIN file.lines,
         Parses(file.headers, file.lines[i], mapping, order),
         mapping.debit # NoColumn, CellOf(file.headers, file.lines[i], mapping.debit) # Blank
  PROVE  AmountOf(file.headers, file.lines[i], mapping) <= 0
<1> DEFINE line == file.lines[i]
           debit == CellOf(file.headers, line, mapping.debit)
<1>1. mapping.amount = NoColumn
  BY DEF MappingIsValid
<1>2. debit \in SomeCell
  <2>1. line \in Seq(SomeCell)
    BY DEF IsFile
  <2>2. ColumnAt(file.headers, mapping.debit) \in Nat \ {0}
    <3>1. mapping.debit \in SourceColumns(mapping)
      BY DEF SourceColumns
    <3>2. \E k \in DOMAIN file.headers : file.headers[k] = mapping.debit
      BY <3>1 DEF IsPresent
    <3>3. ColumnAt(file.headers, mapping.debit) \in DOMAIN file.headers
      BY <3>2 DEF ColumnAt
    <3> QED BY <3>3 DEF IsFile
  <2>3. ColumnAt(file.headers, mapping.debit) <= Len(line)
    BY DEF CellOf
  <2>4. debit = line[ColumnAt(file.headers, mapping.debit)]
    BY <2>3 DEF CellOf
  <2> DEFINE at == ColumnAt(file.headers, mapping.debit)
  <2>5. line \in Seq(SomeCell) /\ at \in 1..Len(line)
    BY <2>1, <2>2, <2>3
  <2> HIDE DEF line, debit, at
  <2>6. line[at] \in SomeCell
    BY <2>5, ElementOfSeq
  <2> QED BY <2>4, <2>6 DEF at
<1>3. ColumnOr(file.headers, line, mapping.debit) = debit
  BY DEF ColumnOr
<1>4. AmountOf(file.headers, line, mapping) = -Magnitude(debit.first)
  BY <1>1, <1>3 DEF AmountOf
<1>5. -Magnitude(debit.first) <= 0
  <2> HIDE DEF debit
  <2>1. debit.first \in Int
    BY <1>2 DEF SomeCell
  <2> QED BY <2>1 DEF Magnitude
<1> QED BY <1>4, <1>5
\* A request names the columns of a valid mapping, or leaves it to detection.
IsRequest(request) ==
  /\ DOMAIN request.mapping = DOMAIN NoMapping
  /\ request.mapping = NoMapping \/ MappingIsValid(request.mapping)

\* Stating the sign of a mapping leaves its columns alone.
LEMMA SignKeepsColumns ==
  ASSUME NEW mapping, DOMAIN mapping = DOMAIN NoMapping, NEW sign
  PROVE  MappingIsValid([mapping EXCEPT !.sign = sign]) <=> MappingIsValid(mapping)
<1> DEFINE signed == [mapping EXCEPT !.sign = sign]
<1>1. DOMAIN mapping = {"date", "description", "merchant", "id", "amount", "debit", "credit", "sign"}
  BY DEF NoMapping, Mapping
<1>2. /\ signed.date = mapping.date /\ signed.description = mapping.description
      /\ signed.amount = mapping.amount /\ signed.debit = mapping.debit /\ signed.credit = mapping.credit
  BY <1>1
<1> HIDE DEF signed
<1>3. MappingIsValid(signed) <=> MappingIsValid(mapping)
  BY <1>2, Zenon DEF MappingIsValid
<1> QED BY <1>3 DEF signed

\* What is detected is a valid mapping or none.
LEMMA DetectedIsValid ==
  ASSUME NEW file
  PROVE  /\ DOMAIN DetectMapping(file) = DOMAIN NoMapping
         /\ DetectMapping(file) = NoMapping \/ MappingIsValid(DetectMapping(file))
<1>1. ASSUME NEW date, NEW description, NEW merchant, NEW id, NEW amount, NEW debit, NEW credit
      PROVE  DOMAIN Mapping(date, description, merchant, id, amount, debit, credit) = DOMAIN NoMapping
  BY DEF NoMapping, Mapping
<1>2. PICK date, description, merchant, id, amount, debit, credit :
        DetectMapping(file) = ValidOrNone(Mapping(date, description, merchant, id, amount, debit, credit))
  BY Zenon DEF DetectMapping
<1>3. DOMAIN Mapping(date, description, merchant, id, amount, debit, credit) = DOMAIN NoMapping
  BY <1>1
<1> QED BY <1>2, <1>3, Zenon DEF ValidOrNone

LEMMA ResolvedIsValid ==
  ASSUME NEW file, NEW request, IsRequest(request), Resolved(file, request).date # NoColumn
  PROVE  MappingIsValid(Resolved(file, request))
<1> DEFINE base == IF request.mapping = NoMapping THEN DetectMapping(file) ELSE request.mapping
           sign == IF request.sign = Unstated THEN base.sign ELSE request.sign
<1>1. DOMAIN base = DOMAIN NoMapping /\ (base = NoMapping \/ MappingIsValid(base))
  <2>1. CASE request.mapping = NoMapping
    BY <2>1, DetectedIsValid
  <2>2. CASE request.mapping # NoMapping
    BY <2>2 DEF IsRequest
  <2> QED BY <2>1, <2>2
<1>2. Resolved(file, request) = [base EXCEPT !.sign = sign]
  BY DEF Resolved
<1> HIDE DEF base, sign
<1>3. base # NoMapping
  <2> SUFFICES ASSUME base = NoMapping PROVE Resolved(file, request).date = NoColumn
    OBVIOUS
  <2>1. Resolved(file, request).date = base.date
    BY <1>2 DEF NoMapping, Mapping
  <2> QED BY <2>1 DEF NoMapping, Mapping
<1> QED BY <1>1, <1>2, <1>3, SignKeepsColumns
\* What import_csv plans, if it plans anything.
LEMMA WhatIsPlanned ==
  ASSUME NEW versions, NEW request, IsRequest(request), ImportCsv(versions, request).ok,
         versions[1] = versions[3] => versions[2] = versions[3]
  PROVE  \E order :
           LET file == versions[3]
               mapping == Resolved(file, request)
               preview == PreviewWith(file, mapping, order)
           IN /\ IsPresent(file, mapping) /\ MappingIsValid(mapping)
              /\ preview.errors = 0 /\ MayPlan(preview, request.mode, mapping, request.window)
              /\ ImportCsv(versions, request).checksum = file
              /\ ImportCsv(versions, request).records = PlanRecords(preview.rows)
<1> DEFINE file == versions[2]
           mapping == Resolved(file, request)
           preview == PreviewCsv(file, mapping, request.order)
           order == IF request.order # Unstated THEN request.order
                    ELSE DetectDateOrder(SampleOf(file, mapping.date))
           refused == \/ request.mode = "snapshot" /\ request.mapping.id # NoColumn
                      \/ ~DigestsAgree(versions)
                      \/ ~MayPlan(preview, request.mode, mapping, request.window)
           answer == ImportCsv(versions, request)
<1>1. answer = IF refused THEN [ok |-> FALSE, records |-> <<>>, checksum |-> versions[3]]
               ELSE [ok |-> TRUE, records |-> PlanRecords(preview.rows), checksum |-> versions[3]]
  BY Zenon DEF ImportCsv, Planned
<1>2. answer.ok
  OBVIOUS
<1>3. ~refused
  <2> HIDE DEF refused, answer, preview
  <2> QED BY <1>1, <1>2
<1>4. DigestsAgree(versions) /\ MayPlan(preview, request.mode, mapping, request.window)
  BY <1>3
<1>5. answer.checksum = versions[3] /\ answer.records = PlanRecords(preview.rows)
  <2> HIDE DEF refused, answer, preview
  <2> QED BY <1>1, <1>3
<1>6. file = versions[3]
  BY <1>4 DEF DigestsAgree
<1>7. preview.ok /\ preview.errors = 0
  BY <1>4 DEF MayPlan
<1>8. preview # NoPreview
  <2> HIDE DEF preview
  <2> QED BY <1>7 DEF NoPreview
<1>9. /\ mapping.date # NoColumn /\ IsPresent(file, mapping)
      /\ preview = PreviewWith(file, mapping, order)
  BY <1>8, Zenon DEF PreviewCsv, IsPresent
<1>10. MappingIsValid(mapping)
  BY <1>9, ResolvedIsValid
<1> HIDE DEF preview, order, answer
<1>11. /\ PreviewWith(file, mapping, order).errors = 0
       /\ MayPlan(PreviewWith(file, mapping, order), request.mode, mapping, request.window)
       /\ answer.records = PlanRecords(PreviewWith(file, mapping, order).rows)
  BY <1>4, <1>5, <1>7, <1>9
<1> HIDE DEF mapping, file
<1>12. IsPresent(versions[3], Resolved(versions[3], request)) /\ MappingIsValid(Resolved(versions[3], request))
       /\ PreviewWith(versions[3], Resolved(versions[3], request), order).errors = 0
       /\ MayPlan(PreviewWith(versions[3], Resolved(versions[3], request), order), request.mode,
                  Resolved(versions[3], request), request.window)
       /\ answer.checksum = versions[3]
       /\ answer.records = PlanRecords(PreviewWith(versions[3], Resolved(versions[3], request), order).rows)
  BY <1>5, <1>6, <1>9, <1>10, <1>11, Zenon DEF mapping
<1> QED BY <1>12, Zenon DEF answer

(* import_csv, for every file and every request: what it plans is the file  *)
(* whose digest it records, all of it, if the file did not change back      *)
(* between the two digests.                                                 *)
THEOREM PlanningIsWhole ==
  ASSUME NEW versions, NEW request, IsRequest(request), IsFile(versions[3]),
         versions[1] = versions[3] => versions[2] = versions[3]
  PROVE  PlanIsWhole(ImportCsv(versions, request), Resolved(versions[3], request), request)
<1> DEFINE answer == ImportCsv(versions, request)
           file == versions[3]
           mapping == Resolved(file, request)
<1> SUFFICES ASSUME answer.ok PROVE PlanIsWhole(answer, mapping, request)
  BY DEF PlanIsWhole
<1>1. PICK order :
        /\ IsPresent(file, mapping) /\ MappingIsValid(mapping)
        /\ PreviewWith(file, mapping, order).errors = 0
        /\ MayPlan(PreviewWith(file, mapping, order), request.mode, mapping, request.window)
        /\ answer.checksum = file
        /\ answer.records = PlanRecords(PreviewWith(file, mapping, order).rows)
  BY WhatIsPlanned, Zenon
<1> DEFINE rows == PreviewWith(file, mapping, order).rows
           records == answer.records
<1> HIDE DEF answer, mapping, file
<1>2. /\ DOMAIN rows = {i \in DOMAIN file.lines : HasContent(file, mapping, i)}
      /\ \A i \in DOMAIN rows : /\ Parses(file.headers, file.lines[i], mapping, order)
                                /\ rows[i] = Parsed(file, i, mapping, order)
  <2>1. IsFile(file)
    BY DEF file
  <2> QED BY <2>1, <1>1, PreviewIsWhole
<1>3. \A i \in DOMAIN rows : i \in DOMAIN file.lines
  BY <1>2
<1>4. DOMAIN file.lines = 1..Len(file.lines) /\ Len(file.lines) \in Nat
  BY DEF IsFile, file
<1>5. DOMAIN rows \in SUBSET (1..Len(file.lines)) /\ IsFiniteSet(DOMAIN rows)
  <2>1. IsFiniteSet(1..Len(file.lines))
    BY <1>4, FS_Interval
  <2>2. DOMAIN rows \in SUBSET (1..Len(file.lines))
    <3> HIDE DEF rows
    <3> QED BY <1>3, <1>4
  <2> HIDE DEF rows
  <2> QED BY <2>1, <2>2, FS_Subset
<1>6. records = PlanRecords(rows)
  BY <1>1
<1>7. DOMAIN records = DOMAIN rows
  <2> HIDE DEF records, rows
  <2> QED BY <1>6 DEF PlanRecords
<1>8. ASSUME NEW i \in DOMAIN records
      PROVE  /\ records[i].line = rows[i].line
             /\ records[i].amount = rows[i].amount
             /\ records[i].id = rows[i].id
             /\ records[i].occurrence = Occurrences(rows)[i]
             /\ FingerprintOf(records[i]) = KeyOf(rows[i])
  <2> HIDE DEF records, rows
  <2> QED BY <1>6, <1>7, RecordsOfRows
<1>9. ASSUME NEW i \in DOMAIN records
      PROVE  /\ records[i].line = i + 1
             /\ Len(file.lines[i]) = Len(file.headers)
             /\ records[i].amount = AmountOf(file.headers, file.lines[i], mapping)
  <2>1. rows[i] = Parsed(file, i, mapping, order)
    BY <1>2, <1>7
  <2>2. ~IsRagged(file.headers, file.lines[i])
    BY <1>2, <1>7 DEF Parses
  <2>3. rows[i].line = i + 1 /\ rows[i].amount = AmountOf(file.headers, file.lines[i], mapping)
    <3> HIDE DEF rows
    <3> QED BY <2>1 DEF Parsed
  <2>4. records[i].line = i + 1 /\ records[i].amount = AmountOf(file.headers, file.lines[i], mapping)
    BY <2>3, <1>8
  <2> QED BY <2>2, <2>4 DEF IsRagged
<1>10. ASSUME NEW i \in DOMAIN records, mapping.debit # NoColumn,
              CellOf(file.headers, file.lines[i], mapping.debit) # Blank
       PROVE  records[i].amount <= 0
  <2>1. i \in DOMAIN file.lines /\ Parses(file.headers, file.lines[i], mapping, order)
    BY <1>2, <1>3, <1>7
  <2>2. IsFile(file)
    BY DEF file
  <2>3. AmountOf(file.headers, file.lines[i], mapping) <= 0
    BY <2>1, <2>2, <1>1, <1>10, DebitsAreOutflows
  <2> QED BY <2>3, <1>9
<1> HIDE DEF rows, records
<1>11. ASSUME NEW i \in DOMAIN records, records[i].occurrence > 1
       PROVE  \E j \in DOMAIN records :
                /\ j < i
                /\ FingerprintOf(records[j]) = FingerprintOf(records[i])
                /\ records[j].occurrence = records[i].occurrence - 1
  <2>1. i \in DOMAIN rows /\ Occurrences(rows)[i] > 1
    BY <1>7, <1>8, <1>11
  <2>2. PICK j \in DOMAIN rows : j < i /\ KeyOf(rows[j]) = KeyOf(rows[i])
                                 /\ Occurrences(rows)[j] = Occurrences(rows)[i] - 1
    BY <2>1, <1>4, <1>5, OneIsBehind
  <2>3. j \in DOMAIN records
    BY <1>7
  <2> QED BY <2>2, <2>3, <1>8
<1>12. ASSUME NEW i \in DOMAIN records, NEW j \in DOMAIN records, j < i,
              FingerprintOf(records[j]) = FingerprintOf(records[i])
       PROVE  records[j].occurrence # records[i].occurrence
  <2>1. KeyOf(rows[j]) = KeyOf(rows[i]) /\ i \in DOMAIN rows /\ j \in DOMAIN rows
    BY <1>7, <1>8, <1>12
  <2>2. Occurrences(rows)[j] # Occurrences(rows)[i]
    BY <2>1, <1>4, <1>5, <1>12, SameAreNumbered
  <2> QED BY <2>2, <1>8
<1>13. ASSUME NEW i \in DOMAIN records, NEW j \in DOMAIN records, j < i, request.mode = "incremental"
       PROVE  records[j].id # records[i].id
  <2>1. IsInjective(Ids(rows))
    BY <1>1, <1>13 DEF MayPlan, rows
  <2>2. i \in DOMAIN rows /\ j \in DOMAIN rows /\ i # j
    BY <1>4, <1>5, <1>7, <1>13
  <2>3. rows[j].id # rows[i].id
    BY <2>1, <2>2 DEF IsInjective, Ids
  <2> QED BY <2>3, <1>8
<1>14. DOMAIN records = {i \in DOMAIN file.lines : HasContent(file, mapping, i)}
  BY <1>2, <1>7 DEF rows
<1> QED BY <1>1, <1>9, <1>10, <1>11, <1>12, <1>13, <1>14 DEF PlanIsWhole, records
LEMMA TuplesAreSequences ==
  ASSUME NEW S, NEW a \in S, NEW b \in S, NEW c \in S, NEW d \in S
  PROVE  <<a, b, c, d>> \in Seq(S) /\ <<a, b, c>> \in Seq(S) /\ <<a, b>> \in Seq(S) /\ <<>> \in Seq(S)
OBVIOUS

LEMMA ProductsAreSequences ==
  ASSUME NEW S
  PROVE  /\ S \X S \in SUBSET Seq(S)
         /\ S \X S \X S \in SUBSET Seq(S)
         /\ S \X S \X S \X S \in SUBSET Seq(S)
<1>1. ASSUME NEW row \in S \X S PROVE row \in Seq(S)
  <2>1. PICK a \in S, b \in S : row = <<a, b>>
    OBVIOUS
  <2> QED BY <2>1, TuplesAreSequences
<1>2. ASSUME NEW row \in S \X S \X S PROVE row \in Seq(S)
  <2>1. PICK a \in S, b \in S, c \in S : row = <<a, b, c>>
    OBVIOUS
  <2> QED BY <2>1, TuplesAreSequences
<1>3. ASSUME NEW row \in S \X S \X S \X S PROVE row \in Seq(S)
  <2>1. PICK a \in S, b \in S, c \in S, d \in S : row = <<a, b, c, d>>
    OBVIOUS
  <2> QED BY <2>1, TuplesAreSequences
<1> QED BY <1>1, <1>2, <1>3

\* The files asked about are files, and a longer one is another one.
LEMMA ListedFiles ==
  ASSUME NEW file \in Files
  PROVE  IsFile(file) /\ IsFile(Longer(file)) /\ Longer(file) # file
<1> DEFINE last == <<Cell("iso", 1, 1), Text(7, 1), Amount(8), Text(5, 9)>>
<1>1. \A kind \in {"iso", "numeric", "amount", "reference", "text", "blank"}, first \in Int, second \in Int :
        Cell(kind, first, second) \in SomeCell
  BY DEF Cell, SomeCell
<1>2. /\ \A n, k \in Int : Text(n, k) \in SomeCell
      /\ \A n \in Int : Amount(n) \in SomeCell
      /\ Blank \in SomeCell
  BY <1>1 DEF Text, Amount, Blank
<1>3. <<>> \in Seq(SomeCell)
  OBVIOUS
<1>4. last \in Seq(SomeCell)
  <2>1. /\ Cell("iso", 1, 1) \in SomeCell /\ Text(7, 1) \in SomeCell /\ Amount(8) \in SomeCell /\ Text(5, 9) \in SomeCell
    BY <1>1, <1>2
  <2> QED BY <2>1, TuplesAreSequences
<1> DEFINE Two == SomeCell \X SomeCell
           Three == SomeCell \X SomeCell \X SomeCell
           Four == SomeCell \X SomeCell \X SomeCell \X SomeCell
<1>5. SignedLines \in SUBSET Seq(SomeCell)
  <2>1. SignedLines \in SUBSET ({<<>>} \cup Two \cup Three \cup Four)
    BY <1>1, <1>2 DEF SignedLines
  <2>2. Two \in SUBSET Seq(SomeCell) /\ Three \in SUBSET Seq(SomeCell) /\ Four \in SUBSET Seq(SomeCell)
    BY ProductsAreSequences
  <2> HIDE DEF Two, Three, Four
  <2> QED BY <1>3, <2>1, <2>2
<1>6. SplitLines \in SUBSET Seq(SomeCell)
  <2>1. SplitLines \in SUBSET Four
    BY <1>1, <1>2 DEF SplitLines
  <2>2. Four \in SUBSET Seq(SomeCell)
    BY ProductsAreSequences
  <2> HIDE DEF Four
  <2> QED BY <2>1, <2>2
<1>7. \E Names : Signs \in Seq(Names) /\ Split \in Seq(Names)
  <2> DEFINE Names == {"Date", "Details", "Amount", "Id", "Posted", "Payee", "Debit", "Credit"}
  <2>1. Signs \in Seq(Names) /\ Split \in Seq(Names)
    BY TuplesAreSequences DEF Signs, Split
  <2> QED BY <2>1
<1>8. PICK n \in 2..3 : \/ file \in [headers : {Signs}, lines : [1..n -> SignedLines]]
                        \/ file \in [headers : {Split}, lines : [1..n -> SplitLines]]
  BY DEF Files
<1>9. (\E Names : file.headers \in Seq(Names)) /\ file.lines \in Seq(Seq(SomeCell))
  <2>1. \E Names : file.headers \in Seq(Names)
    BY <1>7, <1>8
  <2> DEFINE Lines == Seq(SomeCell)
  <2> HIDE DEF Lines
  <2>2. file.lines \in [1..n -> Lines] /\ n \in Nat
    BY <1>5, <1>6, <1>8 DEF Lines
  <2>3. file.lines \in Seq(Lines)
    BY <2>2
  <2> QED BY <2>1, <2>3 DEF Lines
<1> HIDE DEF last
<1>10. Append(file.lines, last) \in Seq(Seq(SomeCell)) /\ Append(file.lines, last) # file.lines
  BY <1>4, <1>9
<1>11. DOMAIN file = {"headers", "lines"}
  BY <1>8
<1>12. Longer(file).headers = file.headers /\ Longer(file).lines = Append(file.lines, last)
  BY <1>11 DEF Longer, last
<1> QED BY <1>9, <1>10, <1>12 DEF IsFile

LEMMA ListedRequests ==
  ASSUME NEW request \in Requests
  PROVE  IsRequest(request)
<1>1. request.mapping = NoMapping \/ request.mapping = WithIds
  BY DEF Requests
<1>2. DOMAIN WithIds = DOMAIN NoMapping
  BY DEF WithIds, NoMapping, Mapping
<1>3. MappingIsValid(WithIds)
  BY DEF MappingIsValid, WithIds, Mapping, NoColumn
<1> QED BY <1>1, <1>2, <1>3 DEF IsRequest

(* import_csv plans whole files and only files that held still: of every    *)
(* file and every request asked about.                                      *)
THEOREM FilesArePlanned ==
  Spec => []PlansAreWhole
<1>1. ListedQuestion => PlansAreWhole
  <2> SUFFICES ASSUME ListedQuestion, question.about = "file"
               PROVE  PlanIsWhole(Imported, Mapped, question.request)
    BY DEF PlansAreWhole
  <2> DEFINE versions == question.versions
             request == question.request
  <2>1. PICK file \in Files, changed \in 1..3 :
          /\ versions = <<file, IF changed < 2 THEN Longer(file) ELSE file,
                          IF changed < 3 THEN Longer(file) ELSE file>>
          /\ request \in Requests
    BY DEF ListedQuestion, FileQuestions
  <2> HIDE DEF versions, request
  <2>2. IsFile(file) /\ IsFile(Longer(file)) /\ Longer(file) # file
    BY ListedFiles
  <2>3. versions[1] = file /\ versions[2] = (IF changed < 2 THEN Longer(file) ELSE file)
        /\ versions[3] = (IF changed < 3 THEN Longer(file) ELSE file)
    BY <2>1
  <2>4. IsFile(versions[3]) /\ (versions[1] = versions[3] => versions[2] = versions[3])
    BY <2>2, <2>3
  <2>5. IsRequest(request)
    BY <2>1, ListedRequests
  <2>6. PlanIsWhole(ImportCsv(versions, request), Resolved(versions[3], request), request)
    BY <2>4, <2>5, PlanningIsWhole
  <2> QED BY <2>6 DEF Imported, Mapped, versions, request
<1> QED BY <1>1, ListedStays, PTL
-----------------------------------------------------------------------------
(* The demo ledger *)

\* A finite set of integers has a least and a greatest element.
LEMMA FiniteExtremes ==
  ASSUME NEW T \in SUBSET Int, IsFiniteSet(T), T # {}
  PROVE  (\E m \in T : \A y \in T : m <= y) /\ (\E m \in T : \A y \in T : y <= m)
<1> DEFINE P == {s \in SUBSET T : s # {} => /\ \E m \in s : \A y \in s : m <= y
                                            /\ \E m \in s : \A y \in s : y <= m}
<1>1. {} \in P
  OBVIOUS
<1>2. ASSUME NEW s \in SUBSET T, NEW x \in T \ s, s \in P PROVE s \cup {x} \in P
  <2>1. CASE s = {}
    BY <2>1
  <2>2. CASE s # {}
    <3>1. PICK a \in s, b \in s : (\A y \in s : a <= y) /\ (\A y \in s : y <= b)
      BY <1>2, <2>2
    <3>2. \E m \in s \cup {x} : \A y \in s \cup {x} : m <= y
      <4>1. CASE a <= x
        BY <3>1, <4>1
      <4>2. CASE ~(a <= x)
        <5>1. \A y \in s \cup {x} : x <= y
          BY <3>1, <4>2
        <5> QED BY <5>1
      <4> QED BY <4>1, <4>2
    <3>3. \E m \in s \cup {x} : \A y \in s \cup {x} : y <= m
      <4>1. CASE x <= b
        BY <3>1, <4>1
      <4>2. CASE ~(x <= b)
        <5>1. \A y \in s \cup {x} : y <= x
          BY <3>1, <4>2
        <5> QED BY <5>1
      <4> QED BY <4>1, <4>2
    <3> QED BY <3>2, <3>3
  <2> QED BY <2>1, <2>2
<1> HIDE DEF P
<1>3. T \in P
  BY <1>1, <1>2, SubsetInduction
<1> QED BY <1>3 DEF P

\* The images of a finite set are finitely many.
LEMMA ImageIsFinite ==
  ASSUME NEW f, IsFiniteSet(DOMAIN f)
  PROVE  IsFiniteSet({f[x] : x \in DOMAIN f})
<1> DEFINE D == DOMAIN f
           g == [x \in D |-> f[x]]
           R == {f[x] : x \in D}
<1>1. g \in Surjection(D, R)
  BY DEF Surjection
<1> HIDE DEF g, R
<1>2. IsFiniteSet(R)
  BY <1>1, FS_Surjection
<1> QED BY <1>2 DEF R

\* A ledger as it is parsed: a sequence of rows, months and minutes numbers.
IsLedger(rows) ==
  /\ Len(rows) \in Nat /\ DOMAIN rows = 1..Len(rows)
  /\ \A i \in DOMAIN rows : rows[i].month \in Int /\ rows[i].minute \in Int

LEMMA LedgerIsFinite ==
  ASSUME NEW rows, IsLedger(rows)
  PROVE  /\ IsFiniteSet(DOMAIN rows)
         /\ IsFiniteSet(MonthsOf(rows)) /\ MonthsOf(rows) \in SUBSET Int
         /\ IsFiniteSet(Merchants(rows))
<1>1. IsFiniteSet(DOMAIN rows)
  <2> DEFINE n == Len(rows)
  <2>1. n \in Nat /\ DOMAIN rows = 1..n
    BY DEF IsLedger
  <2> HIDE DEF n
  <2>2. IsFiniteSet(1..n)
    BY <2>1, FS_Interval
  <2> QED BY <2>1, <2>2
<1>2. MonthsOf(rows) \in SUBSET Int
  BY DEF IsLedger, MonthsOf
<1>3. IsFiniteSet(MonthsOf(rows))
  <2> DEFINE f == [i \in DOMAIN rows |-> rows[i].month]
  <2>1. DOMAIN f = DOMAIN rows /\ MonthsOf(rows) = {f[i] : i \in DOMAIN f}
    BY DEF MonthsOf
  <2> HIDE DEF f
  <2> QED BY <1>1, <2>1, ImageIsFinite
<1>4. IsFiniteSet(Merchants(rows))
  <2> DEFINE f == [i \in DOMAIN rows |-> rows[i].merchant]
  <2>1. DOMAIN f = DOMAIN rows /\ Merchants(rows) = {f[i] : i \in DOMAIN f}
    BY DEF Merchants
  <2> HIDE DEF f
  <2> QED BY <1>1, <2>1, ImageIsFinite
<1> QED BY <1>1, <1>2, <1>3, <1>4

\* Of the two months of a ledger, one is the latest and the other comes before.
LEMMA TwoMonthsOfALedger ==
  ASSUME NEW rows, IsLedger(rows), LedgerIsValid(rows)
  PROVE  LET last == LatestMonth(rows)
             prior == PriorMonth(rows, last)
         IN /\ last \in MonthsOf(rows) /\ prior \in MonthsOf(rows) /\ last # prior
            /\ \A m \in MonthsOf(rows) : m = last \/ m = prior
            /\ \A m \in MonthsOf(rows) : m <= last
<1> DEFINE T == MonthsOf(rows)
           last == LatestMonth(rows)
           prior == PriorMonth(rows, last)
<1>1. IsFiniteSet(T) /\ T \in SUBSET Int /\ Cardinality(T) = 2
  BY LedgerIsFinite DEF LedgerIsValid
<1>2. T # {}
  <2> HIDE DEF T
  <2> QED BY <1>1, FS_EmptySet
<1>3. last \in T /\ \A m \in T : m <= last
  <2>1. \E m \in T : \A y \in T : y <= m
    <3> HIDE DEF T
    <3> QED BY <1>1, <1>2, FiniteExtremes
  <2> QED BY <2>1 DEF LatestMonth
<1> HIDE DEF last
<1>4. Cardinality(T \ {last}) = 1 /\ IsFiniteSet(T \ {last})
  <2> HIDE DEF T
  <2> QED BY <1>1, <1>3, FS_RemoveElement
<1>5. PICK other : T \ {last} = {other}
  <2> HIDE DEF T
  <2> QED BY <1>4, FS_Singleton
<1>6. EarlierMonths(rows, last) = {other}
  <2>1. \A m \in T \ {last} : m < last
    BY <1>1, <1>3
  <2>2. EarlierMonths(rows, last) = T \ {last}
    BY <1>1, <1>3, <2>1 DEF EarlierMonths
  <2> QED BY <2>2, <1>5
<1>7. prior = other
  <2>1. other \in Int
    BY <1>1, <1>5
  <2> QED BY <1>6, <2>1 DEF PriorMonth
<1> HIDE DEF prior, T
<1>8. last \in T /\ prior \in T /\ last # prior /\ (\A m \in T : m = last \/ m = prior) /\ \A m \in T : m <= last
  BY <1>3, <1>5, <1>7
<1> QED BY <1>8 DEF last, prior, T
\* What a row adds to the change since the month before.
ChangeBy(rows, month) ==
  [i \in DOMAIN rows |-> IF rows[i].month = month THEN rows[i].amount ELSE -rows[i].amount]
PaidIn(rows, month) == [i \in DOMAIN rows |-> IF rows[i].month = month THEN rows[i].amount ELSE 0]

LEMMA SpendIsASum ==
  ASSUME NEW rows, IsLedger(rows), LedgerIsValid(rows), NEW month
  PROVE  Spend(rows, month) = SumFunctionOnSet(PaidIn(rows, month), DOMAIN rows)
<1> DEFINE D == DOMAIN rows
           A == InMonthOf(rows, month)
           f == PaidIn(rows, month)
           g == [i \in A |-> rows[i].amount]
<1>1. IsFiniteSet(D) /\ A \in SUBSET D
  BY LedgerIsFinite DEF InMonthOf
<1>2. \A i \in D : rows[i].amount \in Int
  BY DEF LedgerIsValid
<1>3. (\A i \in D : f[i] \in Int) /\ (\A i \in A : g[i] = f[i]) /\ (\A i \in D \ A : f[i] = 0)
  BY <1>2 DEF PaidIn, InMonthOf
<1>4. Spend(rows, month) = SumFunctionOnSet(g, A)
  BY DEF Spend, SumFunction
<1> HIDE DEF D, A, f, g
<1>5. SumFunctionOnSet(g, A) = SumFunctionOnSet(f, D)
  BY <1>1, <1>3, SumOnSubset
<1> QED BY <1>4, <1>5 DEF D, f

LEMMA ChangeIsASum ==
  ASSUME NEW rows, IsLedger(rows), LedgerIsValid(rows)
  PROVE  ChangeSince(rows, LatestMonth(rows))
           = SumFunctionOnSet(ChangeBy(rows, LatestMonth(rows)), DOMAIN rows)
<1> DEFINE D == DOMAIN rows
           last == LatestMonth(rows)
           prior == PriorMonth(rows, last)
           f == ChangeBy(rows, last)
           g == PaidIn(rows, prior)
           h == PaidIn(rows, last)
<1>1. IsFiniteSet(D)
  BY LedgerIsFinite
<1>2. \A i \in D : rows[i].amount \in Int
  BY DEF LedgerIsValid
<1>3. last # prior /\ \A m \in MonthsOf(rows) : m = last \/ m = prior
  BY TwoMonthsOfALedger
<1> HIDE DEF last, prior
<1>4. \A i \in D : rows[i].month = last \/ rows[i].month = prior
  BY <1>3 DEF MonthsOf
<1>5. \A i \in D : f[i] \in Int /\ g[i] \in Int /\ h[i] = f[i] + g[i]
  BY <1>2, <1>3, <1>4 DEF ChangeBy, PaidIn
<1>6. \A i \in D : h[i] \in Int
  BY <1>2 DEF PaidIn
<1>7. ChangeSince(rows, last) = SumFunctionOnSet(h, D) - SumFunctionOnSet(g, D)
  BY SpendIsASum DEF ChangeSince, prior
<1> HIDE DEF D, f, g, h
<1> DEFINE sf == SumFunctionOnSet(f, D)
           sg == SumFunctionOnSet(g, D)
           sh == SumFunctionOnSet(h, D)
<1>8. sh = sf + sg
  BY <1>1, <1>5, SumOfSums
<1>9. sf \in Int /\ sg \in Int
  BY <1>1, <1>5, SumIsWhole
<1>10. ChangeSince(rows, last) = sh - sg
  BY <1>7
<1> HIDE DEF sf, sg, sh
<1>11. ChangeSince(rows, last) = sf
  BY <1>8, <1>9, <1>10
<1> QED BY <1>11 DEF sf, f, D, last

\* The merchants' totals add up to the change, and so do those that are not zero.
LEMMA TotalsAreTheChange ==
  ASSUME NEW rows, IsLedger(rows), LedgerIsValid(rows)
  PROVE  /\ SumFunction(Totals(rows, LatestMonth(rows))) = ChangeSince(rows, LatestMonth(rows))
         /\ SumFunction(Drivers(rows, LatestMonth(rows))) = ChangeSince(rows, LatestMonth(rows))
         /\ \A m \in DOMAIN Drivers(rows, LatestMonth(rows)) : Drivers(rows, LatestMonth(rows))[m] # 0
<1> DEFINE S == DOMAIN rows
           C == Merchants(rows)
           last == LatestMonth(rows)
           g == ChangeBy(rows, last)
           class == [i \in S |-> rows[i].merchant]
           part == [c \in C |-> [i \in S |-> IF class[i] = c THEN g[i] ELSE 0]]
           t == Totals(rows, last)
           moved == {m \in C : TotalOf(rows, last, m) # 0}
           d == Drivers(rows, last)
<1>1. IsFiniteSet(S) /\ IsFiniteSet(C)
  BY LedgerIsFinite
<1>2. \A i \in S : rows[i].amount \in Int
  BY DEF LedgerIsValid
<1>3. Splits(part, class, g, S, C)
  BY <1>2 DEF Splits, ChangeBy, Merchants
<1>4. ASSUME NEW c \in C PROVE t[c] = SumFunctionOnSet(part[c], S) /\ t[c] = TotalOf(rows, last, c)
  <2> DEFINE A == {i \in S : rows[i].merchant = c}
             f == part[c]
             k == [i \in A |-> IF rows[i].month = last THEN rows[i].amount ELSE -rows[i].amount]
  <2>1. A \in SUBSET S
    OBVIOUS
  <2>2. (\A i \in S : f[i] \in Int) /\ (\A i \in A : k[i] = f[i]) /\ (\A i \in S \ A : f[i] = 0)
    BY <1>2 DEF ChangeBy
  <2>3. t[c] = TotalOf(rows, last, c)
    BY DEF Totals
  <2>4. TotalOf(rows, last, c) = SumFunctionOnSet(k, A)
    BY DEF TotalOf, SumFunction
  <2> HIDE DEF A, f, k, S
  <2>5. SumFunctionOnSet(k, A) = SumFunctionOnSet(f, S)
    BY <1>1, <2>1, <2>2, SumOnSubset
  <2> QED BY <2>3, <2>4, <2>5 DEF f
<1>5. DOMAIN t = C
  BY DEF Totals
<1>6. DOMAIN d = moved /\ \A m \in moved : d[m] = t[m]
  BY DEF Drivers, Restrict, Totals
<1>7. \A c \in C : t[c] \in Int
  <2> SUFFICES ASSUME NEW c \in C PROVE t[c] \in Int
    OBVIOUS
  <2>1. \A i \in S : part[c][i] \in Int
    BY <1>2 DEF ChangeBy
  <2>2. t[c] = SumFunctionOnSet(part[c], S)
    BY <1>4
  <2> HIDE DEF part, S, t
  <2> QED BY <1>1, <2>1, <2>2, SumIsWhole
<1>8. moved \in SUBSET C /\ (\A m \in C \ moved : t[m] = 0) /\ (\A m \in moved : t[m] # 0)
  BY <1>4
<1>9. ChangeSince(rows, last) = SumFunctionOnSet(g, S)
  BY ChangeIsASum
<1> HIDE DEF S, C, g, class, part, t, moved, d, last
<1>10. SumFunctionOnSet(t, C) = SumFunctionOnSet(g, S)
  <2>1. \A c \in C : t[c] = SumFunctionOnSet(part[c], S)
    BY <1>4
  <2> QED BY <1>1, <1>3, <2>1, SumByClass
<1>11. SumFunctionOnSet(d, moved) = SumFunctionOnSet(t, C)
  BY <1>1, <1>6, <1>7, <1>8, SumOnSubset
<1>12. SumFunction(t) = SumFunctionOnSet(t, C) /\ SumFunction(d) = SumFunctionOnSet(d, moved)
  BY <1>5, <1>6 DEF SumFunction
<1> QED BY <1>6, <1>8, <1>9, <1>10, <1>11, <1>12 DEF t, d, last
\* A transaction id finds its own row.
LEMMA IdsFindTheirRow ==
  ASSUME NEW rows, LedgerIsValid(rows), NEW i \in DOMAIN rows
  PROVE  HasRow(rows, rows[i].id) /\ RowOf(rows, rows[i].id) = rows[i]
<1>1. HasRow(rows, rows[i].id)
  BY DEF HasRow
<1> DEFINE k == CHOOSE k \in DOMAIN rows : rows[k].id = rows[i].id
<1>2. k \in DOMAIN rows /\ rows[k].id = rows[i].id
  OBVIOUS
<1> HIDE DEF k
<1>3. k = i
  BY <1>2 DEF LedgerIsValid
<1> QED BY <1>1, <1>3 DEF RowOf, k

\* The first pair is one of the pairs.
LEMMA FirstPairIsAPair ==
  ASSUME NEW rows, IsLedger(rows), NEW month, PairsOf(rows, month) # {}
  PROVE  FirstPair(rows, month) \in PairsOf(rows, month)
<1> DEFINE pairs == PairsOf(rows, month)
           firsts == {p[1] : p \in pairs}
<1>1. \A p \in pairs : p[1] \in Nat /\ p[2] \in Nat /\ p = <<p[1], p[2]>>
  BY DEF PairsOf, InMonthOf, IsLedger
<1> HIDE DEF pairs
<1>2. firsts \in SUBSET Nat /\ firsts # {}
  BY <1>1 DEF pairs
<1>3. PICK a \in firsts : \A y \in firsts : a <= y
  BY <1>2, LeastNatural
<1> DEFINE seconds == {p[2] : p \in {p \in pairs : p[1] = a}}
<1>4. seconds \in SUBSET Nat /\ seconds # {}
  BY <1>1, <1>3
<1>5. PICK b \in seconds : \A y \in seconds : b <= y
  <2> HIDE DEF seconds
  <2> QED BY <1>4, LeastNatural
<1>6. PICK first \in pairs : first[1] = a /\ first[2] = b
  BY <1>5
<1>7. \A q \in pairs : first[1] < q[1] \/ (first[1] = q[1] /\ first[2] <= q[2])
  <2> SUFFICES ASSUME NEW q \in pairs PROVE a < q[1] \/ (a = q[1] /\ b <= q[2])
    BY <1>6
  <2>1. a <= q[1] /\ a \in Nat /\ q[1] \in Nat
    BY <1>1, <1>2, <1>3
  <2>2. a = q[1] => b <= q[2]
    BY <1>5
  <2> QED BY <2>1, <2>2
<1> QED BY <1>6, <1>7 DEF FirstPair, pairs

\* Two rows are a pair in one order or the other.
LEMMA PairsAreAlike ==
  ASSUME NEW rows, IsLedger(rows), NEW i \in DOMAIN rows, NEW j \in DOMAIN rows
  PROVE  /\ MayBeDuplicate(rows[i], rows[j]) <=>
              /\ rows[i].merchant = rows[j].merchant /\ rows[i].amount = rows[j].amount
              /\ rows[i].day = rows[j].day /\ rows[i].minute # rows[j].minute
              /\ rows[i].minute - rows[j].minute \in (-DuplicateWindow)..DuplicateWindow
         /\ MayBeDuplicate(rows[i], rows[j]) <=> MayBeDuplicate(rows[j], rows[i])
<1>1. rows[i].minute \in Int /\ rows[j].minute \in Int
  BY DEF IsLedger
<1> DEFINE a == rows[i].minute
           b == rows[j].minute
           apart == Apart(rows[i], rows[j])
           other == Apart(rows[j], rows[i])
<1>2. apart = (IF a > b THEN a - b ELSE b - a) /\ other = (IF b > a THEN b - a ELSE a - b)
  BY DEF Apart
<1> HIDE DEF a, b, apart, other
<1>3. /\ 0 < apart /\ apart <= DuplicateWindow <=> a # b /\ a - b \in (-DuplicateWindow)..DuplicateWindow
      /\ apart = other
  BY <1>1, <1>2, InvestigationAssumption DEF a, b
<1> QED BY <1>3 DEF MayBeDuplicate, a, b, apart, other

LEMMA ProposalsArePairs ==
  ASSUME NEW rows, IsLedger(rows), LedgerIsValid(rows), NEW i \in DOMAIN rows
  PROVE  Proposal(rows, rows[i].id) <=>
           /\ rows[i].month = LatestMonth(rows)
           /\ \E j \in DOMAIN rows : /\ j # i /\ rows[j].month = rows[i].month
                                     /\ MayBeDuplicate(rows[j], rows[i])
<1> DEFINE pairs == PairsOf(rows, rows[i].month)
<1>1. Proposal(rows, rows[i].id) <=>
        /\ rows[i].month = LatestMonth(rows)
        /\ \E p \in pairs : rows[i].id \in {rows[p[1]].id, rows[p[2]].id}
  BY IdsFindTheirRow, Zenon DEF Proposal
<1>2. ASSUME NEW p \in pairs, rows[i].id \in {rows[p[1]].id, rows[p[2]].id}
      PROVE  \E j \in DOMAIN rows : /\ j # i /\ rows[j].month = rows[i].month
                                    /\ MayBeDuplicate(rows[j], rows[i])
  <2>1. /\ p[1] \in DOMAIN rows /\ p[2] \in DOMAIN rows /\ p[1] # p[2]
        /\ rows[p[1]].month = rows[i].month /\ rows[p[2]].month = rows[i].month
        /\ MayBeDuplicate(rows[p[1]], rows[p[2]])
    BY DEF PairsOf, InMonthOf, IsLedger
  <2>2. p[1] = i \/ p[2] = i
    BY <1>2, <2>1 DEF LedgerIsValid
  <2>3. CASE p[1] = i
    <3>1. MayBeDuplicate(rows[p[2]], rows[i])
      BY <2>1, <2>3, PairsAreAlike
    <3> QED BY <2>1, <2>3, <3>1
  <2>4. CASE p[2] = i
    BY <2>1, <2>4
  <2> QED BY <2>2, <2>3, <2>4
<1>3. ASSUME NEW j \in DOMAIN rows, j # i, rows[j].month = rows[i].month, MayBeDuplicate(rows[j], rows[i])
      PROVE  \E p \in pairs : rows[i].id \in {rows[p[1]].id, rows[p[2]].id}
  <2>1. MayBeDuplicate(rows[i], rows[j])
    BY <1>3, PairsAreAlike
  <2>2. i \in InMonthOf(rows, rows[i].month) /\ j \in InMonthOf(rows, rows[i].month)
    BY <1>3 DEF InMonthOf
  <2>3. CASE i < j
    <3>1. <<i, j>> \in pairs
      BY <2>1, <2>2, <2>3 DEF PairsOf
    <3> HIDE DEF pairs
    <3> QED BY <3>1
  <2>4. CASE j < i
    <3>1. <<j, i>> \in pairs
      BY <1>3, <2>2, <2>4 DEF PairsOf
    <3> HIDE DEF pairs
    <3> QED BY <3>1
  <2>5. i \in Nat /\ j \in Nat
    BY DEF IsLedger
  <2> QED BY <1>3, <2>3, <2>4, <2>5
<1> HIDE DEF pairs
<1> QED BY <1>1, <1>2, <1>3

(* investigate_demo, for every ledger parse_synthetic_csv lets through: its *)
(* drivers are all of the change, and what it proposes is a pair.           *)
THEOREM LedgersAreInvestigated ==
  ASSUME NEW rows, IsLedger(rows)
  PROVE  InvestigationStands(rows)
<1> SUFFICES ASSUME LedgerIsValid(rows) PROVE InvestigationStands(rows)
  BY Zenon DEF InvestigationStands
<1> DEFINE answer == Investigate(rows)
           last == LatestMonth(rows)
           pairs == PairsOf(rows, last)
           proposed == IF pairs = {} THEN {} ELSE {rows[FirstPair(rows, last)[2]].id}
           adds == SumFunction(Totals(rows, last)) = ChangeSince(rows, last)
           works == \A id \in proposed : Proposal(rows, id)
<1>1. answer = [reconciles |-> adds, ok |-> works, change |-> ChangeSince(rows, last),
                drivers |-> Drivers(rows, last), proposed |-> proposed]
  BY DEF Investigate
<1>2. adds /\ SumFunction(Drivers(rows, last)) = ChangeSince(rows, last)
      /\ \A m \in DOMAIN Drivers(rows, last) : Drivers(rows, last)[m] # 0
  BY TotalsAreTheChange
<1>3. \A m \in MonthsOf(rows) : m <= last
  BY TwoMonthsOfALedger
<1>4. last \in MonthsOf(rows) /\ MonthsOf(rows) \in SUBSET Int
  BY TwoMonthsOfALedger, LedgerIsFinite
<1> HIDE DEF last, adds, answer
<1>5. works
  <2> SUFFICES ASSUME NEW id \in proposed PROVE Proposal(rows, id)
    OBVIOUS
  <2> DEFINE p == FirstPair(rows, last)
  <2>1. p \in pairs /\ id = rows[p[2]].id
    BY FirstPairIsAPair
  <2>2. /\ p[1] \in DOMAIN rows /\ p[2] \in DOMAIN rows /\ p[1] # p[2]
        /\ rows[p[1]].month = last /\ rows[p[2]].month = last
        /\ MayBeDuplicate(rows[p[1]], rows[p[2]])
    <3> HIDE DEF p
    <3> QED BY <2>1 DEF PairsOf, InMonthOf, IsLedger
  <2> HIDE DEF p
  <2>3. Proposal(rows, rows[p[2]].id)
    BY <2>2, ProposalsArePairs DEF last
  <2> QED BY <2>1, <2>3
<1>6. ASSUME NEW i \in DOMAIN rows
      PROVE  rows[i].month = last <=> \A k \in DOMAIN rows : rows[k].month <= rows[i].month
  <2>1. \A k \in DOMAIN rows : rows[k].month \in MonthsOf(rows)
    BY DEF MonthsOf
  <2>2. PICK k \in DOMAIN rows : rows[k].month = last
    BY <1>4 DEF MonthsOf
  <2>3. (\A n \in DOMAIN rows : rows[n].month <= rows[i].month) => rows[i].month = last
    <3>1. rows[i].month <= last /\ rows[i].month \in Int /\ last \in Int
      BY <1>3, <1>4, <2>1
    <3> QED BY <2>2, <3>1
  <2> QED BY <1>3, <2>1, <2>3
<1>7. ASSUME NEW i \in DOMAIN rows
      PROVE  Proposal(rows, rows[i].id) <=>
               \E j \in DOMAIN rows :
                 /\ j # i /\ rows[j].month = rows[i].month
                 /\ \A k \in DOMAIN rows : rows[k].month <= rows[i].month
                 /\ rows[j].merchant = rows[i].merchant /\ rows[j].amount = rows[i].amount
                 /\ rows[j].day = rows[i].day /\ rows[j].minute # rows[i].minute
                 /\ rows[j].minute - rows[i].minute \in (-DuplicateWindow)..DuplicateWindow
  <2>1. Proposal(rows, rows[i].id) <=>
           /\ rows[i].month = last
           /\ \E j \in DOMAIN rows : /\ j # i /\ rows[j].month = rows[i].month
                                     /\ MayBeDuplicate(rows[j], rows[i])
    BY ProposalsArePairs DEF last
  <2>2. \A j \in DOMAIN rows : MayBeDuplicate(rows[j], rows[i]) <=>
           /\ rows[j].merchant = rows[i].merchant /\ rows[j].amount = rows[i].amount
           /\ rows[j].day = rows[i].day /\ rows[j].minute # rows[i].minute
           /\ rows[j].minute - rows[i].minute \in (-DuplicateWindow)..DuplicateWindow
    BY PairsAreAlike
  <2> QED BY <1>6, <2>1, <2>2, Zenon
<1> HIDE DEF works
<1>8. answer.reconciles = adds /\ answer.ok = works /\ answer.change = ChangeSince(rows, last)
      /\ answer.drivers = Drivers(rows, last)
  <2> HIDE DEF proposed
  <2> QED BY <1>1
<1>9. answer.reconciles /\ answer.ok
  BY <1>2, <1>5, <1>8, Zenon
<1>10. SumFunction(answer.drivers) = answer.change /\ \A m \in DOMAIN answer.drivers : answer.drivers[m] # 0
  BY <1>2, <1>8, Zenon
<1> QED BY <1>7, <1>9, <1>10, Zenon DEF InvestigationStands, answer
-----------------------------------------------------------------------------
(* Recurring charges *)

\* An export: a sequence of rows whose days and amounts are numbers.
IsExport(rows) ==
  /\ Len(rows) \in Nat /\ DOMAIN rows = 1..Len(rows)
  /\ \A i \in DOMAIN rows : rows[i].day \in Int /\ rows[i].amount \in Int

\* The rows of a merchant that stand before one, and itself.
UpTo(rows, mine, i) ==
  {j \in mine : rows[j].day < rows[i].day \/ (rows[j].day = rows[i].day /\ j <= i)}

IsFinitePart(rows, mine) ==
  /\ mine \in SUBSET Int /\ IsFiniteSet(mine)
  /\ \A i \in mine : rows[i].day \in Int

LEMMA TurnsAreOrdered ==
  ASSUME NEW rows, NEW mine, IsFinitePart(rows, mine), NEW i \in mine, NEW j \in mine,
         rows[i].day < rows[j].day \/ (rows[i].day = rows[j].day /\ i < j)
  PROVE  TurnOf(rows, mine, i) < TurnOf(rows, mine, j)
<1>1. UpTo(rows, mine, i) \in SUBSET UpTo(rows, mine, j)
  <2>1. ASSUME NEW k \in mine,
               rows[k].day < rows[i].day \/ (rows[k].day = rows[i].day /\ k <= i)
        PROVE  rows[k].day < rows[j].day \/ (rows[k].day = rows[j].day /\ k <= j)
    <3>1. /\ rows[k].day \in Int /\ rows[i].day \in Int /\ rows[j].day \in Int
          /\ k \in Int /\ i \in Int /\ j \in Int
      BY DEF IsFinitePart
    <3> QED BY <2>1, <3>1
  <2> QED BY <2>1 DEF UpTo
<1>2. j \in UpTo(rows, mine, j) /\ j \notin UpTo(rows, mine, i)
  BY DEF UpTo, IsFinitePart
<1>3. UpTo(rows, mine, j) \in SUBSET mine
  BY DEF UpTo
<1>4. IsFiniteSet(UpTo(rows, mine, j)) /\ IsFiniteSet(UpTo(rows, mine, i))
  BY <1>1, <1>3, FS_Subset DEF IsFinitePart
<1> DEFINE a == Cardinality(UpTo(rows, mine, i))
           b == Cardinality(UpTo(rows, mine, j))
<1>5. a <= b /\ a # b
  BY <1>1, <1>2, <1>4, FS_Subset
<1>6. a \in Nat /\ b \in Nat
  BY <1>4, FS_CardinalityType
<1>7. TurnOf(rows, mine, i) = a /\ TurnOf(rows, mine, j) = b
  BY DEF TurnOf, UpTo
<1> HIDE DEF a, b
<1> QED BY <1>5, <1>6, <1>7

\* Every turn is some row's, and only its.
LEMMA TurnsAreTaken ==
  ASSUME NEW rows, NEW mine, IsFinitePart(rows, mine)
  PROVE  /\ \A i \in mine : TurnOf(rows, mine, i) \in 1..Cardinality(mine)
         /\ \A i, j \in mine : TurnOf(rows, mine, i) = TurnOf(rows, mine, j) => i = j
         /\ \A k \in 1..Cardinality(mine) : \E i \in mine : TurnOf(rows, mine, i) = k
<1> DEFINE n == Cardinality(mine)
           turn == [i \in mine |-> TurnOf(rows, mine, i)]
<1>1. IsFiniteSet(mine) /\ n \in Nat
  BY FS_CardinalityType DEF IsFinitePart
<1>2. ASSUME NEW i \in mine PROVE TurnOf(rows, mine, i) \in 1..n
  <2>1. UpTo(rows, mine, i) \in SUBSET mine /\ i \in UpTo(rows, mine, i)
    BY DEF UpTo, IsFinitePart
  <2>2. IsFiniteSet(UpTo(rows, mine, i))
    BY <1>1, <2>1, FS_Subset
  <2> DEFINE a == Cardinality(UpTo(rows, mine, i))
  <2>3. a \in Nat /\ a <= n /\ a # 0
    BY <1>1, <2>1, <2>2, FS_Subset, FS_CardinalityType, FS_EmptySet
  <2>4. TurnOf(rows, mine, i) = a
    BY DEF TurnOf, UpTo
  <2> HIDE DEF a, n
  <2> QED BY <1>1, <2>3, <2>4
<1>3. ASSUME NEW i \in mine, NEW j \in mine, i # j PROVE TurnOf(rows, mine, i) # TurnOf(rows, mine, j)
  <2>1. \/ rows[i].day < rows[j].day \/ (rows[i].day = rows[j].day /\ i < j)
        \/ rows[j].day < rows[i].day \/ (rows[j].day = rows[i].day /\ j < i)
    BY <1>3 DEF IsFinitePart
  <2>2. TurnOf(rows, mine, i) < TurnOf(rows, mine, j) \/ TurnOf(rows, mine, j) < TurnOf(rows, mine, i)
    BY <2>1, TurnsAreOrdered
  <2>3. TurnOf(rows, mine, i) \in Int /\ TurnOf(rows, mine, j) \in Int
    BY <1>2
  <2> QED BY <2>2, <2>3
<1>4. turn \in Injection(mine, 1..n)
  BY <1>2, <1>3 DEF Injection, IsInjective
<1>5. IsFiniteSet(1..n) /\ Cardinality(1..n) = n
  <2> HIDE DEF n
  <2> QED BY <1>1, FS_Interval
<1>6. turn \in Surjection(mine, 1..n)
  <2>1. Cardinality(mine) = Cardinality(1..n)
    BY <1>5
  <2> HIDE DEF turn, n
  <2> QED BY <1>1, <1>4, <1>5, <2>1, FS_Injection
<1>7. ASSUME NEW k \in 1..n PROVE \E i \in mine : TurnOf(rows, mine, i) = k
  <2>1. PICK i \in mine : turn[i] = k
    <3> HIDE DEF turn, n
    <3> QED BY <1>6 DEF Surjection
  <2> QED BY <2>1
<1> QED BY <1>2, <1>3, <1>7

\* What a group is: a merchant's rows, one per turn, by day.
LEMMA GroupIsSorted ==
  ASSUME NEW rows, IsExport(rows), NEW merchant
  PROVE  LET mine == Mine(rows, merchant)
             group == Group(rows, merchant)
             n == Cardinality(mine)
         IN /\ n \in Nat /\ DOMAIN group = 1..n /\ Len(group) = n /\ IsFinitePart(rows, mine)
            /\ mine \in SUBSET (DOMAIN rows)
            /\ \A k \in 1..n : \E i \in mine : TurnOf(rows, mine, i) = k /\ group[k] = rows[i]
            /\ \A i \in mine : TurnOf(rows, mine, i) \in 1..n /\ group[TurnOf(rows, mine, i)] = rows[i]
            /\ \A k \in 1..n : /\ group[k].merchant = merchant /\ group[k].kind # "TRANSFER"
                               /\ group[k].day \in Int /\ group[k].amount \in Int
            /\ \A k, l \in 1..n : k < l => group[k].day <= group[l].day
            /\ group = [k \in 1..n |-> group[k]]
<1> DEFINE mine == Mine(rows, merchant)
           group == Group(rows, merchant)
           n == Cardinality(mine)
           at(k) == CHOOSE i \in mine : TurnOf(rows, mine, i) = k
<1>1. mine \in SUBSET (DOMAIN rows)
  BY DEF Mine
<1>2. IsFinitePart(rows, mine) /\ IsFiniteSet(mine)
  <2>1. IsFiniteSet(DOMAIN rows)
    <3> DEFINE k == Len(rows)
    <3>1. k \in Nat /\ DOMAIN rows = 1..k
      BY DEF IsExport
    <3> HIDE DEF k
    <3>2. IsFiniteSet(1..k)
      BY <3>1, FS_Interval
    <3> QED BY <3>1, <3>2
  <2>2. IsFiniteSet(mine)
    <3> HIDE DEF mine
    <3> QED BY <1>1, <2>1, FS_Subset
  <2> HIDE DEF mine
  <2> QED BY <1>1, <2>2 DEF IsFinitePart, IsExport
<1>3. n \in Nat
  <2> HIDE DEF mine
  <2> QED BY <1>2, FS_CardinalityType
<1>4. group = [k \in 1..n |-> rows[at(k)]]
  BY DEF Group
<1>5. \A i \in mine : rows[i].merchant = merchant /\ rows[i].kind # "TRANSFER"
  BY DEF Mine
<1> HIDE DEF mine, group
<1>6. /\ \A i \in mine : TurnOf(rows, mine, i) \in 1..n
      /\ \A i, j \in mine : TurnOf(rows, mine, i) = TurnOf(rows, mine, j) => i = j
      /\ \A k \in 1..n : \E i \in mine : TurnOf(rows, mine, i) = k
  BY <1>2, TurnsAreTaken
<1>7. \A k \in 1..n : at(k) \in mine /\ TurnOf(rows, mine, at(k)) = k
  BY <1>6
<1>8. DOMAIN group = 1..n /\ Len(group) = n /\ group = [k \in 1..n |-> group[k]]
      /\ \A k \in 1..n : group[k] = rows[at(k)]
  <2> HIDE DEF at, n
  <2> QED BY <1>3, <1>4
<1> HIDE DEF at, n
<1>9. \A k \in 1..n : \E i \in mine : TurnOf(rows, mine, i) = k /\ group[k] = rows[i]
  BY <1>7, <1>8
<1>10. ASSUME NEW i \in mine PROVE TurnOf(rows, mine, i) \in 1..n /\ group[TurnOf(rows, mine, i)] = rows[i]
  <2> DEFINE k == TurnOf(rows, mine, i)
  <2>1. k \in 1..n
    BY <1>6
  <2> HIDE DEF k
  <2>2. at(k) \in mine /\ TurnOf(rows, mine, at(k)) = k /\ group[k] = rows[at(k)]
    BY <1>7, <1>8, <2>1
  <2>3. at(k) = i
    BY <1>6, <2>2 DEF k
  <2> QED BY <2>1, <2>2, <2>3 DEF k
<1>11. \A k \in 1..n : /\ group[k].merchant = merchant /\ group[k].kind # "TRANSFER"
                       /\ group[k].day \in Int /\ group[k].amount \in Int
  BY <1>1, <1>5, <1>9 DEF IsExport
<1>12. ASSUME NEW k \in 1..n, NEW l \in 1..n, k < l PROVE group[k].day <= group[l].day
  <2>1. PICK i \in mine : TurnOf(rows, mine, i) = k /\ group[k] = rows[i]
    BY <1>9
  <2>2. PICK j \in mine : TurnOf(rows, mine, j) = l /\ group[l] = rows[j]
    BY <1>9
  <2>3. SUFFICES ASSUME rows[j].day < rows[i].day PROVE FALSE
    BY <1>11, <2>1, <2>2
  <2>4. l < k
    BY <1>2, <2>1, <2>2, <2>3, TurnsAreOrdered
  <2> QED BY <1>3, <1>12, <2>4
<1> QED BY <1>1, <1>2, <1>3, <1>8, <1>9, <1>10, <1>11, <1>12 DEF mine, group, n
\* In a group that recurs no two bills are of one day.
LEMMA RecurringIsStrict ==
  ASSUME NEW rows, IsExport(rows), NEW merchant, Recurs(Group(rows, merchant))
  PROVE  LET group == Group(rows, merchant)
         IN /\ Len(group) >= 2
            /\ \A i \in 1..(Len(group) - 1) : Gaps(group)[i] \in Nat \ {0}
            /\ DOMAIN Gaps(group) = 1..(Len(group) - 1)
            /\ \A k, l \in 1..Len(group) : k < l => group[k].day < group[l].day
<1> DEFINE group == Group(rows, merchant)
           n == Len(group)
<1>1. /\ n \in Nat /\ DOMAIN group = 1..n /\ (\A k \in 1..n : group[k].day \in Int)
      /\ \A k, l \in 1..n : k < l => group[k].day <= group[l].day
  BY GroupIsSorted
<1>2. n >= MinOccurrences /\ \A i \in DOMAIN Gaps(group) : Gaps(group)[i] > 0
  BY DEF Recurs
<1> HIDE DEF group
<1>3. DOMAIN Gaps(group) = 1..(n - 1) /\ \A i \in 1..(n - 1) : Gaps(group)[i] = group[i + 1].day - group[i].day
  BY DEF Gaps
<1> HIDE DEF n
<1>4. n >= 2
  BY <1>1, <1>2, RecurrenceAssumption
<1>5. ASSUME NEW i \in 1..(n - 1) PROVE Gaps(group)[i] \in Nat \ {0}
  <2>1. i \in 1..n /\ i + 1 \in 1..n
    BY <1>1
  <2>2. group[i + 1].day \in Int /\ group[i].day \in Int
    BY <1>1, <2>1
  <2> QED BY <1>2, <1>3, <2>2
<1>6. ASSUME NEW k \in 1..n, NEW l \in 1..n, k < l PROVE group[k].day < group[l].day
  <2>1. l - 1 \in 1..(n - 1) /\ l - 1 \in 1..n /\ (l - 1) + 1 = l /\ (k = l - 1 \/ k < l - 1)
    BY <1>1, <1>6
  <2>2. group[(l - 1) + 1].day - group[l - 1].day > 0
    BY <1>2, <1>3, <2>1
  <2>3. group[k].day <= group[l - 1].day
    BY <1>1, <2>1
  <2>4. group[k].day \in Int /\ group[l].day \in Int /\ group[l - 1].day \in Int
    BY <1>1, <2>1
  <2> QED BY <2>1, <2>2, <2>3, <2>4
<1> QED BY <1>3, <1>4, <1>5, <1>6 DEF group, n

\* A group that recurs is its own group.
LEMMA GroupOfAGroup ==
  ASSUME NEW rows, IsExport(rows), NEW merchant, Recurs(Group(rows, merchant))
  PROVE  Group(Group(rows, merchant), merchant) = Group(rows, merchant)
<1> DEFINE group == Group(rows, merchant)
           n == Len(group)
           mine == Mine(group, merchant)
<1>1. /\ n \in Nat /\ DOMAIN group = 1..n /\ group = [k \in 1..n |-> group[k]]
      /\ \A k \in 1..n : /\ group[k].merchant = merchant /\ group[k].kind # "TRANSFER" /\ group[k].day \in Int
  BY GroupIsSorted
<1>2. \A k, l \in 1..n : k < l => group[k].day < group[l].day
  BY RecurringIsStrict
<1> HIDE DEF group
<1>3. mine = 1..n
  BY <1>1 DEF Mine
<1> HIDE DEF n
<1>4. ASSUME NEW i \in 1..n PROVE TurnOf(group, 1..n, i) = i
  <2>1. UpTo(group, 1..n, i) = 1..i
    <3>1. ASSUME NEW j \in 1..n PROVE j \in UpTo(group, 1..n, i) <=> j <= i
      <4>1. group[i].day \in Int /\ group[j].day \in Int
        BY <1>1
      <4>2. /\ i < j => group[i].day < group[j].day
            /\ j < i => group[j].day < group[i].day
        BY <1>2
      <4> QED BY <1>1, <4>1, <4>2 DEF UpTo
    <3>2. UpTo(group, 1..n, i) \in SUBSET (1..n)
      BY DEF UpTo
    <3>3. \A j \in UpTo(group, 1..n, i) : j \in 1..i
      BY <3>1, <3>2
    <3>4. \A j \in 1..i : j \in UpTo(group, 1..n, i)
      BY <1>1, <3>1
    <3> QED BY <3>3, <3>4
  <2>2. Cardinality(1..i) = i
    BY FS_Interval
  <2> QED BY <2>1, <2>2 DEF TurnOf, UpTo
<1>5. Cardinality(mine) = n
  BY <1>1, <1>3, FS_Interval
<1>6. Group(group, merchant) = [k \in 1..n |-> group[CHOOSE i \in 1..n : TurnOf(group, 1..n, i) = k]]
  BY <1>3, <1>5 DEF Group
<1>7. ASSUME NEW k \in 1..n PROVE (CHOOSE i \in 1..n : TurnOf(group, 1..n, i) = k) = k
  BY <1>4
<1>8. Group(group, merchant) = [k \in 1..n |-> group[k]]
  BY <1>6, <1>7
<1> QED BY <1>1, <1>8 DEF group

\* Two exports with one another's rows in the opposite order.
AreMirrored(a, b) ==
  /\ Len(a) = Len(b)
  /\ \A i \in 1..Len(a) : b[i] = a[Len(a) + 1 - i]

\* The order of an export does not change what recurs.
LEMMA MirroredGroups ==
  ASSUME NEW a, NEW b, IsExport(a), IsExport(b), AreMirrored(a, b), NEW merchant, Recurs(Group(a, merchant))
  PROVE  Group(b, merchant) = Group(a, merchant)
<1> DEFINE n == Len(a)
           ma == Mine(a, merchant)
           mb == Mine(b, merchant)
           group == Group(a, merchant)
           other == Group(b, merchant)
           m == Cardinality(ma)
           mirror(i) == n + 1 - i
<1>1. n \in Nat /\ DOMAIN a = 1..n /\ DOMAIN b = 1..n /\ \A i \in 1..n : b[i] = a[mirror(i)]
  BY DEF IsExport, AreMirrored
<1>2. \A i \in 1..n : mirror(i) \in 1..n /\ mirror(mirror(i)) = i /\ a[i] = b[mirror(i)]
  <2> HIDE DEF n
  <2>1. \A i \in 1..n : mirror(i) \in 1..n /\ mirror(mirror(i)) = i
    BY <1>1
  <2> QED BY <1>1, <2>1
<1>3. ma \in SUBSET (1..n) /\ mb \in SUBSET (1..n)
  BY <1>1 DEF Mine
<1>4. \A i \in 1..n : (i \in ma <=> mirror(i) \in mb) /\ (i \in mb <=> mirror(i) \in ma)
  BY <1>1, <1>2 DEF Mine
<1>5. /\ m \in Nat /\ DOMAIN group = 1..m /\ Len(group) = m /\ IsFinitePart(a, ma)
      /\ \A i \in ma : TurnOf(a, ma, i) \in 1..m /\ group[TurnOf(a, ma, i)] = a[i]
      /\ \A k \in 1..m : \E i \in ma : TurnOf(a, ma, i) = k /\ group[k] = a[i]
      /\ group = [k \in 1..m |-> group[k]]
  BY GroupIsSorted
<1>6. IsFinitePart(b, mb) /\ DOMAIN other = 1..Cardinality(mb) /\ other = [k \in 1..Cardinality(mb) |-> other[k]]
      /\ \A k \in 1..Cardinality(mb) : \E i \in mb : TurnOf(b, mb, i) = k /\ other[k] = b[i]
  BY GroupIsSorted
<1>7. \A k, l \in 1..m : k < l => group[k].day < group[l].day
  BY <1>5, RecurringIsStrict
<1> HIDE DEF n, ma, mb, group, other, m, mirror
<1>8. \A i, j \in ma : i # j => a[i].day # a[j].day
  <2> SUFFICES ASSUME NEW i \in ma, NEW j \in ma, i # j PROVE a[i].day # a[j].day
    OBVIOUS
  <2> DEFINE k == TurnOf(a, ma, i)
             l == TurnOf(a, ma, j)
  <2>1. k # l
    BY <1>5, TurnsAreTaken
  <2>2. k \in 1..m /\ l \in 1..m /\ group[k] = a[i] /\ group[l] = a[j]
    BY <1>5
  <2>3. a[i].day \in Int /\ a[j].day \in Int
    BY <1>5 DEF IsFinitePart
  <2> HIDE DEF k, l
  <2>4. k < l \/ l < k
    BY <1>5, <2>1, <2>2
  <2> QED BY <1>7, <2>2, <2>3, <2>4
<1>9. IsFiniteSet(ma) /\ IsFiniteSet(mb) /\ Cardinality(mb) = m
  <2> DEFINE f == [i \in ma |-> mirror(i)]
  <2>1. f \in [ma -> mb]
    BY <1>3, <1>4
  <2>2. \A i, j \in ma : f[i] = f[j] => i = j
    BY <1>2, <1>3
  <2>3. \A j \in mb : \E i \in ma : f[i] = j
    BY <1>2, <1>3, <1>4
  <2> HIDE DEF f
  <2>4. f \in Bijection(ma, mb)
    BY <2>1, <2>2, <2>3 DEF Bijection, Injection, Surjection, IsInjective
  <2>5. ExistsBijection(ma, mb)
    BY <2>4 DEF ExistsBijection
  <2> QED BY <1>5, <2>5, FS_Bijection DEF IsFinitePart, m
<1>10. ASSUME NEW i \in ma PROVE TurnOf(b, mb, mirror(i)) = TurnOf(a, ma, i)
  <2> DEFINE A == UpTo(a, ma, i)
             B == UpTo(b, mb, mirror(i))
             f == [j \in A |-> mirror(j)]
  <2>1. ASSUME NEW j \in ma PROVE j \in A <=> mirror(j) \in B
    <3>1. mirror(j) \in mb /\ mirror(i) \in mb /\ b[mirror(j)] = a[j] /\ b[mirror(i)] = a[i]
      BY <1>2, <1>3, <1>4
    <3>2. (j = i \/ a[j].day # a[i].day) /\ (mirror(j) = mirror(i) <=> j = i)
      BY <1>2, <1>3, <1>8
    <3>3. j \in Int /\ mirror(j) \in Int
      BY <1>1, <1>2, <1>3
    <3>4. j \in A <=> (a[j].day < a[i].day \/ j = i)
      BY <3>2, <3>3 DEF UpTo
    <3>5. mirror(j) \in B <=> (a[j].day < a[i].day \/ j = i)
      BY <3>1, <3>2, <3>3 DEF UpTo
    <3> QED BY <3>4, <3>5
  <2>2. A \in SUBSET ma /\ B \in SUBSET mb
    BY DEF UpTo
  <2> HIDE DEF A, B
  <2>3. f \in [A -> B]
    BY <2>1, <2>2
  <2>4. \A j, k \in A : f[j] = f[k] => j = k
    BY <1>2, <1>3, <2>2
  <2>5. ASSUME NEW k \in B PROVE \E j \in A : f[j] = k
    <3>1. mirror(k) \in ma /\ mirror(mirror(k)) = k
      BY <1>2, <1>3, <1>4, <2>2
    <3>2. mirror(k) \in A
      BY <2>1, <3>1
    <3> QED BY <3>1, <3>2
  <2> HIDE DEF f
  <2>6. f \in Bijection(A, B)
    BY <2>3, <2>4, <2>5 DEF Bijection, Injection, Surjection, IsInjective
  <2>7. ExistsBijection(A, B)
    BY <2>6 DEF ExistsBijection
  <2>8. IsFiniteSet(A)
    BY <1>9, <2>2, FS_Subset
  <2>9. Cardinality(B) = Cardinality(A)
    BY <2>7, <2>8, FS_Bijection
  <2> QED BY <2>9 DEF A, B, TurnOf, UpTo
<1>11. ASSUME NEW k \in 1..m PROVE other[k] = group[k]
  <2>1. PICK j \in mb : TurnOf(b, mb, j) = k /\ other[k] = b[j]
    BY <1>6, <1>9
  <2>2. PICK i \in ma : TurnOf(a, ma, i) = k /\ group[k] = a[i]
    BY <1>5
  <2>3. mirror(i) \in mb /\ TurnOf(b, mb, mirror(i)) = k /\ b[mirror(i)] = a[i]
    BY <1>2, <1>3, <1>4, <1>10, <2>2
  <2>4. j = mirror(i)
    BY <1>6, <2>1, <2>3, TurnsAreTaken
  <2> QED BY <2>1, <2>2, <2>3, <2>4
<1>12. other = group
  BY <1>5, <1>6, <1>9, <1>11
<1> QED BY <1>12 DEF other, group
\* A median of integers is an integer, times two.
LEMMA KthIsWhole ==
  ASSUME NEW s, NEW n \in Nat \ {0}, DOMAIN s = 1..n, \A i \in 1..n : s[i] \in Int,
         NEW k \in Int, k <= n
  PROVE  KthOf(s, k) \in Int
<1> DEFINE values == {s[i] : i \in DOMAIN s}
           Below(i) == {j \in DOMAIN s : s[j] <= s[i]}
           high == {i \in DOMAIN s : Cardinality(Below(i)) >= k}
           chosen == {s[i] : i \in high}
<1>1. IsFiniteSet(DOMAIN s) /\ Cardinality(DOMAIN s) = n
  BY FS_Interval
<1>2. IsFiniteSet(values) /\ values \in SUBSET Int /\ values # {}
  <2>1. values \in SUBSET Int /\ values # {}
    OBVIOUS
  <2> QED BY <1>1, <2>1, ImageIsFinite
<1>3. PICK top \in DOMAIN s : \A j \in DOMAIN s : s[j] <= s[top]
  <2>1. PICK m \in values : \A y \in values : y <= m
    <3> HIDE DEF values
    <3> QED BY <1>2, FiniteExtremes
  <2> QED BY <2>1
<1>4. Below(top) = DOMAIN s
  BY <1>3
<1>5. top \in high
  BY <1>1, <1>3, <1>4
<1>6. chosen \in SUBSET values /\ chosen # {}
  BY <1>5
<1>7. IsFiniteSet(chosen)
  <2> HIDE DEF chosen, values
  <2> QED BY <1>2, <1>6, FS_Subset
<1>8. KthOf(s, k) = Min(chosen)
  BY DEF KthOf
<1>9. \E m \in chosen : \A y \in chosen : m <= y
  <2> HIDE DEF chosen, values
  <2> QED BY <1>2, <1>6, <1>7, FiniteExtremes
<1>10. Min(chosen) \in chosen
  <2> HIDE DEF chosen
  <2> QED BY <1>9 DEF Min
<1> HIDE DEF chosen, values
<1> QED BY <1>2, <1>6, <1>8, <1>10

LEMMA TwiceMedianIsWhole ==
  ASSUME NEW s, NEW n \in Nat \ {0}, DOMAIN s = 1..n, Len(s) = n, \A i \in 1..n : s[i] \in Int
  PROVE  TwiceMedian(s) \in Int
<1> DEFINE low == (n + 1) \div 2
           high == n \div 2 + 1
<1>1. low \in Int /\ low <= n /\ high \in Int /\ high <= n
  OBVIOUS
<1> HIDE DEF low, high
<1>2. KthOf(s, low) \in Int /\ KthOf(s, high) \in Int
  BY <1>1, KthIsWhole
<1> QED BY <1>2 DEF TwiceMedian, low, high

\* A percentage of something positive.
LEMMA PercentIsOrdered ==
  ASSUME NEW p \in Nat, NEW q \in Nat, p <= q, NEW m \in Nat
  PROVE  p * m \in Nat /\ p * m <= q * m
<1>1. Times(m, p) <= Times(m, q)
  BY ProductsAreOrdered
<1>2. Times(m, p) = Times(p, m) /\ Times(m, q) = Times(q, m) /\ Times(p, m) \in Nat
  BY ProductsCommute, ProductIsNatural
<1> QED BY <1>1, <1>2 DEF Times

\* What lies within less than all of a median lies on its side of zero, and
\* not much farther from it.
LEMMA NearTheMedian ==
  ASSUME NEW x \in Int, NEW m \in Int, NEW p \in Nat, NEW q \in Nat, p <= q, q < 100,
         100 * Size(2 * x - m) <= p * Size(m)
  PROVE  /\ m > 0 => x > 0
         /\ m < 0 => x < 0
         /\ m = 0 => x = 0
         /\ 200 * Size(x) <= 100 * Size(m) + q * Size(m)
<1> DEFINE size == Size(m)
           part == p * size
           more == q * size
<1>1. size \in Nat /\ size = IF m < 0 THEN -m ELSE m
  BY DEF Size
<1> HIDE DEF size
<1>2. part <= more /\ more <= 99 * size /\ part \in Nat /\ more \in Nat
  BY <1>1, PercentIsOrdered
<1> HIDE DEF part, more
<1>3. 100 * Size(2 * x - m) <= part
  BY DEF part, size
<1>4. /\ m > 0 => x > 0
      /\ m < 0 => x < 0
      /\ m = 0 => x = 0
      /\ 200 * Size(x) <= 100 * size + more
  BY <1>1, <1>2, <1>3 DEF Size
<1> QED BY <1>4 DEF more, size

\* Only one cadence fits a gap, which is not far from it.
LEMMA FittingCadence ==
  ASSUME NEW m \in Int, NEW k \in DOMAIN NominalDays, Fits(m, k)
  PROVE  /\ 100 * m <= 2 * ((100 + CadenceTolerance) * NominalDays[k])
         /\ 2 * ((100 - CadenceTolerance) * NominalDays[k]) <= 100 * m
<1> DEFINE days == NominalDays[k]
           c == CadenceTolerance
           part == c * days
<1>1. days \in Nat \ {0} /\ c \in Nat
  BY RecurrenceAssumption
<1>2. 100 * Size(m - 2 * days) <= c * 2 * days
  BY DEF Fits
<1> HIDE DEF days, c
<1>3. c * 2 * days = 2 * part /\ part \in Nat
  <2>1. c \in Int /\ days \in Int /\ 2 * c \in Int /\ c * 2 = c + c
    BY <1>1
  <2>2. Times(days, c) \in Nat
    BY <1>1, ProductIsNatural
  <2>3. Times(days, c + c) = Times(days, c) + Times(days, c)
    BY <2>1, ProductOfSum
  <2>4. Times(days, c) = Times(c, days) /\ Times(days, c + c) = Times(c + c, days)
    BY <2>1, ProductsCommute
  <2>5. Times(c, days) = part /\ Times(c + c, days) = c * 2 * days
    BY <2>1 DEF Times
  <2> HIDE DEF part
  <2> QED BY <2>2, <2>3, <2>4, <2>5
<1>4. (100 + c) * days = 100 * days + part /\ (100 - c) * days = 100 * days - part
  BY <1>1
<1> HIDE DEF part
<1>5. 100 * m <= 2 * (100 * days + part) /\ 2 * (100 * days - part) <= 100 * m
  BY <1>1, <1>2, <1>3 DEF Size
<1> QED BY <1>4, <1>5 DEF days, c

LEMMA OneCadenceFits ==
  ASSUME NEW m \in Int, NEW j \in DOMAIN NominalDays, NEW k \in DOMAIN NominalDays, Fits(m, j), Fits(m, k)
  PROVE  j = k
<1>1. ASSUME NEW a \in DOMAIN NominalDays, NEW b \in DOMAIN NominalDays, Fits(m, a), Fits(m, b), a < b
      PROVE  FALSE
  <2> DEFINE most == (100 + CadenceTolerance) * NominalDays[a]
             least == (100 - CadenceTolerance) * NominalDays[b]
  <2>1. 100 * m <= 2 * most /\ 2 * least <= 100 * m
    BY <1>1, FittingCadence
  <2>2. most < least
    BY <1>1, RecurrenceAssumption
  <2>3. most \in Int /\ least \in Int
    <3>1. (100 + CadenceTolerance) \in Int /\ (100 - CadenceTolerance) \in Int
          /\ NominalDays[a] \in Int /\ NominalDays[b] \in Int
      BY RecurrenceAssumption
    <3> QED BY <3>1
  <2> HIDE DEF most, least
  <2> QED BY <2>1, <2>2, <2>3
<1>2. j \in Int /\ k \in Int
  BY RecurrenceAssumption
<1> QED BY <1>1, <1>2
-----------------------------------------------------------------------------
(* What is said of a recurring charge *)

LEMMA ProductsAssociate ==
  ASSUME NEW a \in Int, NEW b \in Int, NEW c \in Int
  PROVE  Times(a, Times(b, c)) = Times(Times(a, b), c)
BY DEF Times

LEMMA ProductIsPositive ==
  ASSUME NEW a \in Nat \ {0}, NEW b \in Nat \ {0}
  PROVE  Times(a, b) \in Nat \ {0}
BY DEF Times

\* A gap within r of a median m / 2 that is within k of a period: less than two periods.
IsNear(x, r, m) == 200 * x <= Times(r, m)
IsFitting(m, k, days) == 100 * m <= 2 * Times(k, days)
IsTight(r, k) == Times(r, k) < 20000

LEMMA GapIsShort ==
  ASSUME NEW r \in Nat, NEW k \in Nat, NEW days \in Nat, days # 0, NEW m \in Int, NEW x \in Int,
         IsTight(r, k), IsNear(x, r, m), IsFitting(m, k, days)
  PROVE  x < 2 * days
<1> DEFINE kd == Times(k, days)
           rk == Times(r, k)
           rm == Times(r, m)
<1>1. kd \in Int /\ rk \in Int /\ rm \in Int /\ r \in Int /\ k \in Int /\ days \in Int /\ days \in Nat
  BY ProductIsWhole
<1> HIDE DEF kd, rk, rm
<1>2. Times(r, 100 * m) <= Times(r, 2 * kd)
  <2>1. 100 * m \in Int /\ 2 * kd \in Int /\ 100 * m <= 2 * kd
    BY <1>1 DEF kd, IsFitting
  <2> QED BY <2>1, ProductsAreOrdered
<1>3. Times(r, 100 * m) = 100 * rm
  BY <1>1 DEF Times, rm
<1>4. Times(r, 2 * kd) = 2 * Times(r, kd)
  BY <1>1 DEF Times
<1>5. Times(r, kd) = Times(rk, days) /\ Times(rk, days) = Times(days, rk)
  BY <1>1, ProductsAssociate, ProductsCommute DEF kd, rk
<1>6. Times(days, rk) <= Times(days, 19999)
  <2>1. rk <= 19999 /\ 19999 \in Int
    BY <1>1 DEF rk, IsTight
  <2> QED BY <1>1, <2>1, ProductsAreOrdered
<1>7. Times(days, 19999) = 19999 * days
  BY <1>1 DEF Times
<1>8. Times(r, kd) \in Int /\ Times(days, rk) \in Int
  <2>1. Times(r, kd) \in Int
    BY <1>1, ProductIsWhole
  <2>2. Times(days, rk) \in Int
    BY <1>1, ProductIsWhole
  <2> QED BY <2>1, <2>2
<1>9. 100 * rm <= 2 * (19999 * days)
  BY <1>1, <1>2, <1>3, <1>4, <1>5, <1>6, <1>7, <1>8
<1>10. 200 * x <= rm
  BY DEF rm, IsNear
<1> QED BY <1>1, <1>9, <1>10

\* The one cadence of a group that recurs, and its gaps.
LEMMA CadenceOfAGroup ==
  ASSUME NEW rows, IsExport(rows), NEW merchant, Recurs(Group(rows, merchant))
  PROVE  LET gaps == Gaps(Group(rows, merchant))
             m2 == TwiceMedian(gaps)
             cadence == NearestCadence(m2)
         IN /\ m2 \in Nat \ {0} /\ cadence \in DOMAIN NominalDays /\ Fits(m2, cadence)
            /\ \A k \in DOMAIN NominalDays : Fits(m2, k) => k = cadence
            /\ \A i \in DOMAIN gaps : gaps[i] \in Nat \ {0} /\ gaps[i] < 2 * NominalDays[cadence]
<1> DEFINE group == Group(rows, merchant)
           gaps == Gaps(group)
           n == Len(group)
           m2 == TwiceMedian(gaps)
           cadence == NearestCadence(m2)
           R == RegularityTolerance
<1>1. n \in Nat
  BY GroupIsSorted
<1>2. n >= 2 /\ DOMAIN gaps = 1..(n - 1) /\ \A i \in 1..(n - 1) : gaps[i] \in Nat \ {0}
  BY RecurringIsStrict
<1>3. Len(gaps) = n - 1
  <2>1. gaps = [i \in 1..(n - 1) |-> group[i + 1].day - group[i].day]
    BY DEF Gaps
  <2>2. n - 1 \in Nat
    BY <1>1, <1>2
  <2> HIDE DEF gaps, n
  <2> QED BY <2>1, <2>2
<1>4. Within(gaps, m2, R) /\ cadence # NoCadence
  BY DEF Recurs
<1> HIDE DEF group, gaps, n, cadence
<1>5. m2 \in Int
  <2> DEFINE k == n - 1
  <2>1. k \in Nat \ {0} /\ DOMAIN gaps = 1..k /\ Len(gaps) = k /\ \A i \in 1..k : gaps[i] \in Int
    BY <1>1, <1>2, <1>3
  <2> HIDE DEF k
  <2> QED BY <2>1, TwiceMedianIsWhole
<1> HIDE DEF m2
<1>6. R \in Nat /\ R < 100 /\ R <= R /\ CadenceTolerance \in Nat
  BY RecurrenceAssumption
<1> HIDE DEF R
<1>7. ASSUME NEW i \in 1..(n - 1)
      PROVE  m2 > 0 /\ 200 * gaps[i] <= 100 * Size(m2) + R * Size(m2)
  <2> DEFINE x == gaps[i]
  <2>1. x \in Int /\ x > 0
    BY <1>2
  <2>2. 100 * Size(2 * x - m2) <= R * Size(m2)
    BY <1>2, <1>4 DEF Within
  <2> HIDE DEF x
  <2>3. /\ m2 < 0 => x < 0
        /\ m2 = 0 => x = 0
        /\ 200 * Size(x) <= 100 * Size(m2) + R * Size(m2)
    BY <1>5, <1>6, <2>1, <2>2, NearTheMedian
  <2>4. Size(x) = x
    BY <2>1 DEF Size
  <2> QED BY <1>5, <2>1, <2>3, <2>4 DEF x
<1>8. m2 \in Nat \ {0} /\ Size(m2) = m2
  <2>1. 1 \in 1..(n - 1)
    BY <1>1, <1>2
  <2>2. m2 > 0
    BY <1>7, <2>1
  <2> QED BY <1>5, <2>2 DEF Size
<1> DEFINE fitting == {k \in DOMAIN NominalDays : Fits(m2, k)}
<1>9. cadence \in fitting
  <2>1. cadence = IF fitting = {} THEN NoCadence ELSE Min(fitting)
    BY DEF cadence, NearestCadence
  <2>2. fitting \in SUBSET Nat
    BY RecurrenceAssumption
  <2> HIDE DEF fitting
  <2>3. fitting # {} /\ cadence = Min(fitting)
    BY <1>4, <2>1
  <2>4. \E k \in fitting : \A l \in fitting : k <= l
    BY <2>2, <2>3, LeastNatural
  <2> QED BY <2>3, <2>4 DEF Min
<1>10. cadence \in DOMAIN NominalDays /\ Fits(m2, cadence)
  BY <1>9
<1>11. \A k \in DOMAIN NominalDays : Fits(m2, k) => k = cadence
  BY <1>5, <1>10, OneCadenceFits
<1>12. ASSUME NEW i \in DOMAIN gaps PROVE gaps[i] \in Nat \ {0} /\ gaps[i] < 2 * NominalDays[cadence]
  <2> DEFINE r == 100 + R
             k == 100 + CadenceTolerance
             days == NominalDays[cadence]
             x == gaps[i]
  <2>1. r \in Nat /\ k \in Nat /\ days \in Nat \ {0} /\ x \in Int /\ x \in Nat \ {0}
    BY <1>2, <1>6, <1>10, RecurrenceAssumption
  <2>2. Times(r, k) < 20000
    BY RecurrenceAssumption DEF Times, R
  <2>3. 200 * x <= Times(r, m2)
    <3>1. 200 * x <= 100 * m2 + R * m2
      BY <1>2, <1>7, <1>8
    <3>2. Times(r, m2) = 100 * m2 + R * m2
      BY <1>5, <1>6 DEF Times
    <3> HIDE DEF x, r
    <3> QED BY <3>1, <3>2
  <2>4. 100 * m2 <= 2 * Times(k, days)
    BY <1>5, <1>10, FittingCadence DEF Times
  <2> HIDE DEF r, k, days, x
  <2>5. x < 2 * days
    <3>1. r \in Nat /\ k \in Nat /\ days \in Nat /\ days # 0 /\ x \in Int /\ m2 \in Int
      BY <1>5, <2>1
    <3>2. IsTight(r, k) /\ IsNear(x, r, m2) /\ IsFitting(m2, k, days)
      BY <2>2, <2>3, <2>4 DEF IsTight, IsNear, IsFitting
    <3> QED BY <3>1, <3>2, GapIsShort
  <2> QED BY <2>1, <2>5 DEF x, days
<1> QED BY <1>8, <1>10, <1>11, <1>12 DEF group, gaps, m2, cadence

\* No confidence is none, or certainty.
LEMMA ConfidenceIsNeverCertain ==
  ASSUME NEW rows, IsExport(rows), NEW merchant, Recurs(Group(rows, merchant))
  PROVE  LET group == Group(rows, merchant)
             gaps == Gaps(group)
             confidence == Confidence(group, gaps, TwiceMedian(gaps))
         IN 0 < confidence.over /\ confidence.over < confidence.under
<1> DEFINE group == Group(rows, merchant)
           gaps == Gaps(group)
           m2 == TwiceMedian(gaps)
           R == RegularityTolerance
           K == ConfidenceCeiling
           depth == Min({Len(group), K})
           drift == Max({Size(2 * gaps[i] - m2) : i \in DOMAIN gaps})
           under == 100 * K * R * m2
           over == 70 * depth * R * m2 + 30 * K * (R * m2 - 100 * drift)
<1>1. Len(group) \in Nat /\ Len(group) >= 2 /\ DOMAIN gaps = 1..(Len(group) - 1)
  BY GroupIsSorted, RecurringIsStrict
<1>2. m2 \in Nat \ {0} /\ \A i \in DOMAIN gaps : gaps[i] \in Nat \ {0}
  BY CadenceOfAGroup
<1>3. \A i \in DOMAIN gaps : 100 * Size(2 * gaps[i] - m2) <= R * Size(m2)
  BY DEF Recurs, Within
<1>4. R \in Nat \ {0} /\ K \in Nat \ {0}
  BY RecurrenceAssumption
<1>5. Confidence(group, gaps, m2)
        = IF 100 * over > 99 * under THEN [over |-> 99, under |-> 100] ELSE [over |-> over, under |-> under]
  BY DEF Confidence
<1> HIDE DEF group, gaps, m2, R, K
<1>6. depth \in Nat \ {0}
  <2> DEFINE n == Len(group)
  <2> HIDE DEF n
  <2>1. n \in Nat \ {0}
    BY <1>1 DEF n
  <2>2. {n, K} \in SUBSET Nat /\ {n, K} # {}
    BY <1>4, <2>1
  <2>3. \E k \in {n, K} : \A l \in {n, K} : k <= l
    BY <2>2, LeastNatural
  <2>4. Min({n, K}) \in {n, K}
    BY <2>3 DEF Min
  <2> QED BY <1>4, <2>1, <2>4 DEF n
<1>7. drift \in Int /\ 100 * drift <= R * m2
  <2> DEFINE f == [i \in DOMAIN gaps |-> Size(2 * gaps[i] - m2)]
             S == {Size(2 * gaps[i] - m2) : i \in DOMAIN gaps}
  <2>1. S = {f[i] : i \in DOMAIN f} /\ DOMAIN f = 1..(Len(group) - 1)
    BY <1>1
  <2>2. IsFiniteSet(DOMAIN f)
    <3> HIDE DEF f
    <3>1. Len(group) - 1 \in Int
      BY <1>1
    <3> QED BY <2>1, <3>1, FS_Interval
  <2>3. IsFiniteSet(S)
    <3> HIDE DEF f, S
    <3> QED BY <2>1, <2>2, ImageIsFinite
  <2>4. S \in SUBSET Int
    BY <1>2 DEF Size
  <2>5. S # {}
    <3>1. 1 \in DOMAIN gaps
      BY <1>1
    <3> QED BY <3>1
  <2>6. \A y \in S : 100 * y <= R * m2
    <3>1. Size(m2) = m2
      BY <1>2 DEF Size
    <3> QED BY <1>3, <3>1
  <2>7. drift = Max(S)
    OBVIOUS
  <2> HIDE DEF S, drift
  <2>8. \E k \in S : \A l \in S : l <= k
    BY <2>3, <2>4, <2>5, FiniteExtremes
  <2>9. \E k \in S : \A l \in S : k >= l
    BY <2>4, <2>8
  <2>10. drift \in S
    BY <2>7, <2>9 DEF Max
  <2> QED BY <2>4, <2>6, <2>10
<1> HIDE DEF depth, drift
<1> DEFINE rm == Times(R, m2)
           spare == rm - 100 * drift
           part == Times(depth, rm)
           rest == Times(K, spare)
           all == Times(K, rm)
<1>8. rm \in Nat \ {0} /\ spare \in Nat
  <2>1. rm \in Nat \ {0}
    BY <1>2, <1>4, ProductIsPositive
  <2>2. 100 * drift <= rm
    BY <1>7 DEF Times
  <2> HIDE DEF rm
  <2> QED BY <1>7, <2>1, <2>2
<1>9. part \in Nat \ {0} /\ rest \in Nat /\ all \in Nat \ {0}
  <2> HIDE DEF rm, spare
  <2>1. K \in Nat
    BY <1>4
  <2> QED BY <1>4, <1>6, <1>8, <2>1, ProductIsPositive, ProductIsNatural
<1>10. 70 * depth * R * m2 = 70 * part /\ 100 * K * R * m2 = 100 * all
  <2>1. \A a, b, c, d \in Int : a * b * c * d = a * Times(b, Times(c, d))
    BY DEF Times
  <2>2. depth \in Int /\ K \in Int /\ R \in Int /\ m2 \in Int
    BY <1>2, <1>4, <1>6
  <2> QED BY <2>1, <2>2
<1>11. 30 * K * (R * m2 - 100 * drift) = 30 * rest
  <2>1. R * m2 - 100 * drift = spare
    BY DEF Times
  <2>2. \A a, b, c \in Int : a * b * c = a * Times(b, c)
    BY DEF Times
  <2>3. K \in Int /\ spare \in Int
    <3> HIDE DEF spare
    <3> QED BY <1>4, <1>8
  <2> HIDE DEF spare
  <2> QED BY <2>1, <2>2, <2>3
<1>12. over = 70 * part + 30 * rest /\ under = 100 * all
  BY <1>10, <1>11
<1> HIDE DEF over, under, part, rest, all
<1>13. over \in Nat \ {0} /\ under \in Nat
  BY <1>9, <1>12
<1>14. 0 < Confidence(group, gaps, m2).over
       /\ Confidence(group, gaps, m2).over < Confidence(group, gaps, m2).under
  <2>1. CASE 100 * over > 99 * under
    BY <1>5, <2>1
  <2>2. CASE ~(100 * over > 99 * under)
    <3>1. Confidence(group, gaps, m2).over = over /\ Confidence(group, gaps, m2).under = under
      BY <1>5, <2>2
    <3> QED BY <1>13, <2>2, <3>1
  <2> QED BY <2>1, <2>2
<1> QED BY <1>14 DEF group, gaps, m2

\* Amounts near their median: of one sign, and none far above the usual one.
LEMMA AmountsOfAGroup ==
  ASSUME NEW rows, IsExport(rows), NEW merchant, Recurs(Group(rows, merchant))
  PROVE  LET group == Group(rows, merchant)
         IN /\ \A i, k \in DOMAIN group : Size(group[i].amount + group[k].amount)
                                           = Size(group[i].amount) + Size(group[k].amount)
            /\ 2 * Last(group).amount = TwiceMedian(AmountsOf(group))
                 => \A i \in DOMAIN group : 4 * Size(group[i].amount) <= 5 * Size(Last(group).amount)
<1> DEFINE group == Group(rows, merchant)
           n == Len(group)
           amounts == AmountsOf(group)
           m == TwiceMedian(amounts)
           A == AmountTolerance
<1>1. n \in Nat /\ DOMAIN group = 1..n /\ \A i \in 1..n : group[i].amount \in Int
  BY GroupIsSorted
<1>2. n >= 2
  BY RecurringIsStrict
<1>3. Within(amounts, m, A)
  BY DEF Recurs
<1>4. DOMAIN amounts = 1..n /\ Len(amounts) = n /\ \A i \in 1..n : amounts[i] = group[i].amount
  <2>1. amounts = [i \in 1..n |-> group[i].amount]
    BY <1>1 DEF AmountsOf
  <2> HIDE DEF amounts, n, group
  <2> QED BY <1>1, <2>1
<1> HIDE DEF group, n, amounts
<1>5. m \in Int
  <2>1. n \in Nat \ {0} /\ \A i \in 1..n : amounts[i] \in Int
    BY <1>1, <1>2, <1>4
  <2> QED BY <1>4, <2>1, TwiceMedianIsWhole
<1> HIDE DEF m
<1>6. A \in Nat /\ A <= 25
  BY RecurrenceAssumption
<1> HIDE DEF A
<1>7. ASSUME NEW i \in 1..n
      PROVE  LET x == group[i].amount
             IN /\ x \in Int
                /\ m > 0 => x > 0
                /\ m < 0 => x < 0
                /\ m = 0 => x = 0
                /\ 200 * Size(x) <= 100 * Size(m) + 25 * Size(m)
  <2> DEFINE x == group[i].amount
             q == 25
  <2>1. x \in Int /\ 100 * Size(2 * x - m) <= A * Size(m)
    BY <1>1, <1>3, <1>4 DEF Within
  <2>2. q \in Nat /\ A <= q /\ q < 100
    BY <1>6
  <2> HIDE DEF x, q
  <2>3. /\ m > 0 => x > 0
        /\ m < 0 => x < 0
        /\ m = 0 => x = 0
        /\ 200 * Size(x) <= 100 * Size(m) + q * Size(m)
    BY <1>5, <1>6, <2>1, <2>2, NearTheMedian
  <2> QED BY <2>1, <2>3 DEF x, q
<1>8. ASSUME NEW i \in 1..n, NEW k \in 1..n
      PROVE  Size(group[i].amount + group[k].amount) = Size(group[i].amount) + Size(group[k].amount)
  <2> DEFINE x == group[i].amount
             y == group[k].amount
  <2>1. x \in Int /\ y \in Int /\ (m > 0 => x > 0 /\ y > 0) /\ (m < 0 => x < 0 /\ y < 0) /\ (m = 0 => x = 0 /\ y = 0)
    BY <1>7
  <2> HIDE DEF x, y
  <2>2. Size(x + y) = Size(x) + Size(y)
    BY <1>5, <2>1 DEF Size
  <2> QED BY <2>2 DEF x, y
<1>9. ASSUME 2 * Last(group).amount = m, NEW i \in 1..n
      PROVE  4 * Size(group[i].amount) <= 5 * Size(Last(group).amount)
  <2> DEFINE x == group[i].amount
             last == group[n].amount
  <2>1. Last(group).amount = last
    BY DEF Last, n
  <2>2. n \in 1..n
    BY <1>1, <1>2
  <2>3. x \in Int /\ last \in Int /\ 200 * Size(x) <= 100 * Size(m) + 25 * Size(m)
    BY <1>7, <2>2
  <2> HIDE DEF x, last
  <2>4. m = 2 * last
    BY <1>9, <2>1
  <2>5. 4 * Size(x) <= 5 * Size(last)
    BY <2>3, <2>4 DEF Size
  <2> QED BY <2>1, <2>5 DEF x
<1> QED BY <1>1, <1>8, <1>9 DEF group, m, amounts
-----------------------------------------------------------------------------
(* All of what is found *)

\* What is found is the charge of some merchant whose group recurs.
LEMMA FoundIsACharge ==
  ASSUME NEW rows, NEW charge
  PROVE  charge \in DetectRecurring(rows)
           <=> \E i \in DOMAIN rows : /\ Recurs(Group(rows, rows[i].merchant))
                                      /\ charge = ChargeOf(Group(rows, rows[i].merchant))
BY DEF DetectRecurring

LEMMA ReversedIsMirrored ==
  ASSUME NEW rows, IsExport(rows)
  PROVE  LET b == Reverse(rows)
         IN /\ IsExport(b) /\ AreMirrored(rows, b) /\ AreMirrored(b, rows)
            /\ \A i \in DOMAIN rows : \E k \in DOMAIN b : b[k] = rows[i]
            /\ \A i \in DOMAIN b : \E k \in DOMAIN rows : rows[k] = b[i]
<1> DEFINE n == Len(rows)
           b == Reverse(rows)
<1>1. n \in Nat /\ DOMAIN rows = 1..n /\ \A i \in 1..n : rows[i].day \in Int /\ rows[i].amount \in Int
  BY DEF IsExport
<1>2. b = [i \in 1..n |-> rows[(n - i) + 1]]
  BY DEF Reverse
<1> HIDE DEF n, b
<1>3. DOMAIN b = 1..n /\ Len(b) = n /\ \A i \in 1..n : b[i] = rows[(n - i) + 1]
  BY <1>1, <1>2
<1>4. \A i \in 1..n : (n - i) + 1 \in 1..n /\ (n - i) + 1 = n + 1 - i /\ (n - ((n - i) + 1)) + 1 = i
  BY <1>1
<1>5. \A i \in 1..n : b[i].day \in Int /\ b[i].amount \in Int
  BY <1>1, <1>3, <1>4
<1>6. \A i \in 1..n : b[i] = rows[n + 1 - i] /\ rows[i] = b[n + 1 - i]
  BY <1>1, <1>3, <1>4
<1>7. IsExport(b)
  BY <1>1, <1>3, <1>5 DEF IsExport
<1>8. AreMirrored(rows, b) /\ AreMirrored(b, rows)
  BY <1>3, <1>6 DEF AreMirrored, n
<1>9. (\A i \in DOMAIN rows : \E k \in DOMAIN b : b[k] = rows[i])
      /\ \A i \in DOMAIN b : \E k \in DOMAIN rows : rows[k] = b[i]
  <2>1. \A i \in 1..n : n + 1 - i \in 1..n
    BY <1>4
  <2> QED BY <1>1, <1>3, <1>6, <2>1
<1> QED BY <1>7, <1>8, <1>9 DEF b

\* What is found in an export is found in any order of it.
LEMMA FoundIsMirrored ==
  ASSUME NEW a, NEW b, IsExport(a), IsExport(b), AreMirrored(a, b),
         \A i \in DOMAIN a : \E k \in DOMAIN b : b[k] = a[i],
         NEW charge \in DetectRecurring(a)
  PROVE  charge \in DetectRecurring(b)
<1>1. PICK i \in DOMAIN a : /\ Recurs(Group(a, a[i].merchant))
                            /\ charge = ChargeOf(Group(a, a[i].merchant))
  BY FoundIsACharge
<1>2. PICK k \in DOMAIN b : b[k] = a[i]
  OBVIOUS
<1>3. Group(b, a[i].merchant) = Group(a, a[i].merchant)
  BY <1>1, MirroredGroups
<1>4. Recurs(Group(b, b[k].merchant)) /\ charge = ChargeOf(Group(b, b[k].merchant))
  BY <1>1, <1>2, <1>3
<1> QED BY <1>4, FoundIsACharge

\* Alone, the group of a charge is found to be that charge and no other.
LEMMA FoundAlone ==
  ASSUME NEW rows, IsExport(rows), NEW merchant, Recurs(Group(rows, merchant))
  PROVE  DetectRecurring(Group(rows, merchant)) = {ChargeOf(Group(rows, merchant))}
<1> DEFINE group == Group(rows, merchant)
           n == Len(group)
<1>1. /\ n \in Nat /\ DOMAIN group = 1..n
      /\ \A k \in 1..n : group[k].merchant = merchant
  BY GroupIsSorted
<1>2. n >= 2
  BY RecurringIsStrict
<1>3. Group(group, merchant) = group /\ Recurs(group)
  BY GroupOfAGroup
<1> HIDE DEF group, n
<1>4. \A i \in DOMAIN group : Group(group, group[i].merchant) = group
  BY <1>1, <1>3
<1>5. 1 \in DOMAIN group
  BY <1>1, <1>2
<1>6. ASSUME NEW charge PROVE charge \in DetectRecurring(group) <=> charge = ChargeOf(group)
  <2>1. charge \in DetectRecurring(group)
          <=> \E i \in DOMAIN group : /\ Recurs(Group(group, group[i].merchant))
                                      /\ charge = ChargeOf(Group(group, group[i].merchant))
    BY FoundIsACharge
  <2> QED BY <1>3, <1>4, <1>5, <2>1
<1>7. DetectRecurring(group) = {ChargeOf(group)}
  BY <1>6
<1> QED BY <1>7 DEF group

(* What detect_recurring finds, in an export of any rows whatever their     *)
(* merchants, days and amounts: see RecurrencesStand.                       *)
THEOREM RecurrencesAreCommitments ==
  ASSUME NEW rows, IsExport(rows)
  PROVE  RecurrencesStand(rows)
<1> DEFINE b == Reverse(rows)
<1>1. /\ IsExport(b) /\ AreMirrored(rows, b) /\ AreMirrored(b, rows)
      /\ \A i \in DOMAIN rows : \E k \in DOMAIN b : b[k] = rows[i]
      /\ \A i \in DOMAIN b : \E k \in DOMAIN rows : rows[k] = b[i]
  BY ReversedIsMirrored
<1>2. DetectRecurring(b) = DetectRecurring(rows)
  <2> HIDE DEF b
  <2>1. \A charge \in DetectRecurring(rows) : charge \in DetectRecurring(b)
    BY <1>1, FoundIsMirrored
  <2>2. \A charge \in DetectRecurring(b) : charge \in DetectRecurring(rows)
    BY <1>1, FoundIsMirrored
  <2> QED BY <2>1, <2>2
<1> DEFINE Supported(charge) ==
             LET group == Group(rows, charge.merchant)
                 nominal == NominalDays[charge.cadence]
             IN /\ \A i, k \in DOMAIN group : Size(group[i].amount + group[k].amount)
                                               = Size(group[i].amount) + Size(group[k].amount)
                /\ \A k \in DOMAIN NominalDays : Fits(TwiceMedian(Gaps(group)), k) => k = charge.cadence
                /\ \A i \in DOMAIN Gaps(group) : Gaps(group)[i] < 2 * nominal
                /\ 0 < charge.confidence.over /\ charge.confidence.over < charge.confidence.under
                /\ DetectRecurring(group) = {charge}
                /\ ~charge.changed => \A i \in DOMAIN group : 4 * Size(group[i].amount) <= 5 * Size(charge.latest)
<1>3. ASSUME NEW charge \in DetectRecurring(rows) PROVE Supported(charge)
  <2>1. PICK row \in DOMAIN rows : /\ Recurs(Group(rows, rows[row].merchant))
                                   /\ charge = ChargeOf(Group(rows, rows[row].merchant))
    BY FoundIsACharge
  <2> DEFINE merchant == rows[row].merchant
             group == Group(rows, merchant)
             gaps == Gaps(group)
             cadence == NearestCadence(TwiceMedian(gaps))
             latest == Last(group).amount
             typical2 == TwiceMedian(AmountsOf(group))
             confidence == Confidence(group, gaps, TwiceMedian(gaps))
             changed == 2 * latest # typical2
  <2>2. Recurs(Group(rows, merchant))
    BY <2>1
  <2>3. charge = [merchant |-> Last(group).merchant, cadence |-> cadence, occurrences |-> Len(group),
                  typical2 |-> typical2, latest |-> latest, annual |-> latest * PerYear[cadence],
                  confidence |-> confidence, changed |-> changed]
    BY <2>1 DEF ChargeOf
  <2>4. Last(group).merchant = merchant
    <3>1. /\ Len(group) \in Nat /\ Len(group) >= 2
          /\ \A k \in 1..Len(group) : group[k].merchant = merchant
      <4> HIDE DEF merchant
      <4> QED BY <2>2, GroupIsSorted, RecurringIsStrict
    <3> HIDE DEF merchant, group
    <3>2. Len(group) \in 1..Len(group)
      BY <3>1
    <3> QED BY <3>1, <3>2 DEF Last
  <2>5. /\ \A k \in DOMAIN NominalDays : Fits(TwiceMedian(gaps), k) => k = cadence
        /\ \A i \in DOMAIN gaps : gaps[i] < 2 * NominalDays[cadence]
    <3> HIDE DEF merchant
    <3> QED BY <2>2, CadenceOfAGroup
  <2>6. 0 < confidence.over /\ confidence.over < confidence.under
    <3> HIDE DEF merchant
    <3> QED BY <2>2, ConfidenceIsNeverCertain
  <2>7. /\ \A i, k \in DOMAIN group : Size(group[i].amount + group[k].amount)
                                       = Size(group[i].amount) + Size(group[k].amount)
        /\ 2 * latest = typical2 => \A i \in DOMAIN group : 4 * Size(group[i].amount) <= 5 * Size(latest)
    <3> HIDE DEF merchant
    <3> QED BY <2>2, AmountsOfAGroup
  <2>8. DetectRecurring(group) = {charge}
    <3> HIDE DEF merchant
    <3> QED BY <2>1, <2>2, FoundAlone DEF merchant
  <2>9. (~changed) <=> 2 * latest = typical2
    OBVIOUS
  <2> HIDE DEF merchant, group, gaps, cadence, latest, typical2, confidence, changed
  <2>10. charge.merchant = merchant /\ charge.cadence = cadence /\ charge.confidence = confidence
         /\ charge.latest = latest /\ charge.changed = changed
    BY <2>3, <2>4
  <2>11. Group(rows, charge.merchant) = group
    BY <2>10 DEF group
  <2>12. ~charge.changed => 2 * latest = typical2
    BY <2>9, <2>10, Zenon
  <2> QED BY <2>5, <2>6, <2>7, <2>8, <2>10, <2>11, <2>12, Zenon DEF gaps
<1>4. \A charge \in DetectRecurring(rows) : Supported(charge)
  BY <1>3
<1> QED BY <1>2, <1>4, Zenon DEF RecurrencesStand, b
-----------------------------------------------------------------------------
(* The ledgers and the exports asked about *)

LEMMA ConcatenationIsASequence ==
  ASSUME NEW S, NEW s \in Seq(S), NEW t \in Seq(S)
  PROVE  s \o t \in Seq(S)
OBVIOUS

LEMMA FunctionIsASequence ==
  ASSUME NEW S, NEW n \in Nat, NEW f \in [1..n -> S]
  PROVE  f \in Seq(S)
OBVIOUS

SomeCharge ==
  [id : Int, month : Int, day : Int, minute : Int, merchant : {"cafe", "shop"}, amount : Int]
SomeBill ==
  [merchant : {"gym", "shop"}, day : Int, amount : Int, kind : {"SPENDING", "REFUND", "TRANSFER"}]

LEMMA ListedLedgers ==
  ASSUME NEW q \in LedgerQuestions
  PROVE  IsLedger(q.rows)
<1> DEFINE Four == {<<2, 1, 0, 2>>, <<2, 1, 3, 2>>, <<2, 1, 9, 2>>, <<2, 2, 0, 2>>, <<1, 1, 3, 3>>,
                    <<3, 1, 0, 2>>, <<2, 1, 3, 3>>}
<1>1. PICK n \in {3}, twice \in BOOLEAN, rest \in [1..3 -> Four] :
        q.rows = [i \in 1..n |-> Charge(IF twice THEN 1 ELSE i, rest[i][1], rest[i][2], rest[i][3], "cafe", rest[i][4])]
                   \o <<Charge(9, 1, 1, 0, "cafe", 3), Charge(10, 2, 1, 4, "shop", 2)>>
  BY DEF LedgerQuestions
<1> DEFINE id(i) == IF twice THEN 1 ELSE i
           head == [i \in 1..n |-> Charge(id(i), rest[i][1], rest[i][2], rest[i][3], "cafe", rest[i][4])]
           tail == <<Charge(9, 1, 1, 0, "cafe", 3), Charge(10, 2, 1, 4, "shop", 2)>>
<1>2. \A k, month, day, minute, amount \in Int, merchant \in {"cafe", "shop"} :
        Charge(k, month, day, minute, merchant, amount) \in SomeCharge
  BY DEF Charge, SomeCharge
<1>3. \A f \in Four : f[1] \in Int /\ f[2] \in Int /\ f[3] \in Int /\ f[4] \in Int
  OBVIOUS
<1>4. ASSUME NEW i \in 1..n
      PROVE  Charge(id(i), rest[i][1], rest[i][2], rest[i][3], "cafe", rest[i][4]) \in SomeCharge
  <2>1. rest[i] \in Four /\ id(i) \in Int
    OBVIOUS
  <2> HIDE DEF Four, id
  <2> QED BY <1>2, <1>3, <2>1
<1>5. head \in Seq(SomeCharge)
  <2> HIDE DEF id
  <2>1. n \in Nat
    OBVIOUS
  <2>2. head \in [1..n -> SomeCharge]
    BY <1>4
  <2> HIDE DEF head
  <2> QED BY <2>1, <2>2, FunctionIsASequence
<1>6. tail \in Seq(SomeCharge)
  <2> DEFINE a == Charge(9, 1, 1, 0, "cafe", 3)
             b == Charge(10, 2, 1, 4, "shop", 2)
  <2>1. a \in SomeCharge /\ b \in SomeCharge
    BY <1>2
  <2> HIDE DEF a, b
  <2>2. <<a, b>> \in Seq(SomeCharge)
    BY <2>1, TuplesAreSequences
  <2> QED BY <2>2 DEF a, b
<1>7. q.rows = head \o tail
  BY <1>1
<1> HIDE DEF head, tail
<1>8. q.rows \in Seq(SomeCharge)
  BY <1>5, <1>6, <1>7, ConcatenationIsASequence
<1>9. \A row \in SomeCharge : row.month \in Int /\ row.minute \in Int
  BY DEF SomeCharge
<1> DEFINE rows == q.rows
<1>10. Len(rows) \in Nat /\ DOMAIN rows = 1..Len(rows) /\ \A i \in DOMAIN rows : rows[i] \in SomeCharge
  <2> HIDE DEF rows
  <2>1. rows \in Seq(SomeCharge)
    BY <1>8 DEF rows
  <2> QED BY <2>1
<1> HIDE DEF rows
<1>11. IsLedger(rows)
  BY <1>9, <1>10 DEF IsLedger
<1> QED BY <1>11 DEF rows

LEMMA DaysAreWhole ==
  ASSUME NEW n \in Nat, NEW gaps, DOMAIN gaps = 1..n, \A i \in 1..n : gaps[i] \in Int,
         NEW i \in 1..(n + 1)
  PROVE  DayAfter(gaps, i) \in Int
<1> DEFINE D == 1..(i - 1)
           f == [k \in D |-> gaps[k]]
<1>1. i - 1 \in Int /\ \A k \in D : k \in 1..n
  OBVIOUS
<1>2. IsFiniteSet(D)
  BY <1>1, FS_Interval
<1>3. DOMAIN f = D /\ \A k \in D : f[k] \in Int
  BY <1>1
<1>4. DayAfter(gaps, i) = 100 + SumFunctionOnSet(f, D)
  BY DEF DayAfter, SumFunction
<1> HIDE DEF D, f
<1>5. SumFunctionOnSet(f, D) \in Int
  BY <1>2, <1>3, SumIsWhole
<1> QED BY <1>4, <1>5

LEMMA BillsAreAnExport ==
  ASSUME NEW n \in Nat, n >= 1, NEW gaps, DOMAIN gaps = 1..n, \A i \in 1..n : gaps[i] \in Int,
         NEW amounts, DOMAIN amounts = 1..(n + 1), Len(amounts) = n + 1, \A i \in 1..(n + 1) : amounts[i] \in Int,
         NEW first \in 1..2
  PROVE  IsExport(BillsAt(gaps, amounts, first))
<1> DEFINE bill(i) == Bill("gym", DayAfter(gaps, i), amounts[i], IF amounts[i] > 0 THEN "REFUND" ELSE "SPENDING")
           a == bill(first)
           b == bill(3 - first)
           c == Bill("gym", 103, -500, "TRANSFER")
           d == Bill("shop", 104, -8, "SPENDING")
           tail == [i \in 1..((n + 1) - 2) |-> bill(i + 2)]
<1>1. BillsAt(gaps, amounts, first) = <<a, b, c, d>> \o tail
  BY DEF BillsAt
<1>2. \A merchant \in {"gym", "shop"}, day, amount \in Int, kind \in {"SPENDING", "REFUND", "TRANSFER"} :
        Bill(merchant, day, amount, kind) \in SomeBill
  BY DEF Bill, SomeBill
<1>3. ASSUME NEW i \in 1..(n + 1) PROVE bill(i) \in SomeBill
  <2>1. DayAfter(gaps, i) \in Int
    BY DaysAreWhole
  <2> QED BY <1>2, <2>1
<1>4. first \in 1..(n + 1) /\ 3 - first \in 1..(n + 1) /\ \A i \in 1..((n + 1) - 2) : i + 2 \in 1..(n + 1)
  OBVIOUS
<1>5. c \in SomeBill /\ d \in SomeBill
  BY <1>2
<1> HIDE DEF bill, c, d
<1>6. a \in SomeBill /\ b \in SomeBill
  BY <1>3, <1>4
<1>7. tail \in Seq(SomeBill)
  <2>1. tail \in [1..((n + 1) - 2) -> SomeBill] /\ (n + 1) - 2 \in Nat
    BY <1>3, <1>4
  <2> HIDE DEF tail
  <2> QED BY <2>1
<1> HIDE DEF a, b, tail
<1>8. <<a, b, c, d>> \in Seq(SomeBill)
  BY <1>5, <1>6, TuplesAreSequences
<1> DEFINE rows == BillsAt(gaps, amounts, first)
<1>9. rows \in Seq(SomeBill)
  BY <1>1, <1>7, <1>8, ConcatenationIsASequence
<1> HIDE DEF rows
<1>10. \A row \in SomeBill : row.day \in Int /\ row.amount \in Int
  BY DEF SomeBill
<1>11. Len(rows) \in Nat /\ DOMAIN rows = 1..Len(rows) /\ \A i \in DOMAIN rows : rows[i] \in SomeBill
  BY <1>9
<1>12. IsExport(rows)
  BY <1>10, <1>11 DEF IsExport
<1> QED BY <1>12 DEF rows

LEMMA ListedExports ==
  ASSUME NEW q \in RecurrenceQuestions
  PROVE  IsExport(q.rows)
<1>1. CASE \E gaps \in [1..2 -> {0, 5, 7, 9, 14, 30}], amounts \in [1..3 -> {-8, -10, -11, 10}], first \in 1..2 :
             q.rows = BillsAt(gaps, amounts, first)
  <2>1. PICK gaps \in [1..2 -> {0, 5, 7, 9, 14, 30}], amounts \in [1..3 -> {-8, -10, -11, 10}], first \in 1..2 :
          q.rows = BillsAt(gaps, amounts, first)
    BY <1>1
  <2> DEFINE n == 2
  <2>2. n \in Nat /\ n >= 1 /\ DOMAIN gaps = 1..n /\ DOMAIN amounts = 1..(n + 1) /\ Len(amounts) = n + 1
    OBVIOUS
  <2>3. (\A i \in 1..n : gaps[i] \in Int) /\ (\A i \in 1..(n + 1) : amounts[i] \in Int)
    OBVIOUS
  <2> HIDE DEF n
  <2> QED BY <2>1, <2>2, <2>3, BillsAreAnExport
<1>2. CASE \E gaps \in [1..3 -> {5, 7, 10}], amounts \in [1..4 -> {-8, -10}], first \in 1..2 :
             q.rows = BillsAt(gaps, amounts, first)
  <2>1. PICK gaps \in [1..3 -> {5, 7, 10}], amounts \in [1..4 -> {-8, -10}], first \in 1..2 :
          q.rows = BillsAt(gaps, amounts, first)
    BY <1>2
  <2> DEFINE n == 3
  <2>2. n \in Nat /\ n >= 1 /\ DOMAIN gaps = 1..n /\ DOMAIN amounts = 1..(n + 1) /\ Len(amounts) = n + 1
    OBVIOUS
  <2>3. (\A i \in 1..n : gaps[i] \in Int) /\ (\A i \in 1..(n + 1) : amounts[i] \in Int)
    OBVIOUS
  <2> HIDE DEF n
  <2> QED BY <2>1, <2>2, <2>3, BillsAreAnExport
<1> QED BY <1>1, <1>2 DEF RecurrenceQuestions

(* What investigate_demo proposes and what detect_recurring finds, of every *)
(* ledger and export asked about, is what their rows support.               *)
THEOREM InvestigationsDoStand ==
  Spec => []InvestigationsStand
<1>1. ListedQuestion => InvestigationsStand
  <2> SUFFICES ASSUME ListedQuestion PROVE InvestigationsStand
    OBVIOUS
  <2>1. ASSUME question.about = "ledger" PROVE InvestigationStands(question.rows)
    <3>1. IsLedger(question.rows)
      BY <2>1, ListedLedgers DEF ListedQuestion
    <3> QED BY <3>1, LedgersAreInvestigated
  <2>2. ASSUME question.about = "recurrence" PROVE RecurrencesStand(question.rows)
    <3>1. IsExport(question.rows)
      BY <2>2, ListedExports DEF ListedQuestion
    <3> QED BY <3>1, RecurrencesAreCommitments
  <2> QED BY <2>1, <2>2 DEF InvestigationsStand
<1> QED BY <1>1, ListedStays, PTL
=============================================================================
