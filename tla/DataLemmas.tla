------------------------------ MODULE DataLemmas ------------------------------
(***************************************************************************)
(* Facts about the data the models are built from, for every value:        *)
(* induction on natural numbers and on finite sets, the least and the      *)
(* greatest of a set of numbers, and sums over finite sets.  A property to *)
(* be proved by induction is given as the set of the numbers, or of the    *)
(* subsets, that have it.                                                  *)
(***************************************************************************)
EXTENDS Integers, FiniteSetsExt, Functions, FiniteSetTheorems, TLAPS

(* Every non-empty set of natural numbers has a least element. *)
LEMMA LeastNatural ==
    ASSUME NEW T \in SUBSET Nat, T # {}
    PROVE  \E x \in T : \A y \in T : x <= y
<1>1. PICK x \in T : \A y \in T : ~(<<y, x>> \in OpToRel(<, Nat))
  BY NatLessThanWellFounded, WFMin, Zenon
<1>2. ASSUME NEW y \in T PROVE x <= y
  <2>1. <<y, x>> \notin {ss \in Nat \X Nat : ss[1] < ss[2]}
    BY <1>1 DEF OpToRel
  <2>2. QED
    BY <2>1
<1>3. QED
  BY <1>2

(* Induction on natural numbers. *)
LEMMA InductionOnNat ==
    ASSUME NEW P \in SUBSET Nat, 0 \in P, \A n \in P : n + 1 \in P
    PROVE  P = Nat
<1> SUFFICES ASSUME Nat \ P # {} PROVE FALSE
  BY Zenon
<1>1. PICK n \in Nat \ P : \A m \in Nat \ P : n <= m
  BY LeastNatural, Zenon
<1>2. n - 1 \in P
  BY <1>1
<1>3. QED
  BY <1>1, <1>2

(* Induction on natural numbers from all smaller ones. *)
LEMMA StrongInductionOnNat ==
    ASSUME NEW P \in SUBSET Nat, \A n \in Nat : (\A m \in 0..(n - 1) : m \in P) => n \in P
    PROVE  P = Nat
<1> SUFFICES ASSUME Nat \ P # {} PROVE FALSE
  BY Zenon
<1>1. PICK n \in Nat \ P : \A m \in Nat \ P : n <= m
  BY LeastNatural, Zenon
<1>2. ASSUME NEW m \in 0..(n - 1) PROVE m \in P
  BY <1>1
<1> QED
  BY <1>1, <1>2

(* Induction on the subsets of a finite set, from all smaller subsets, *)
LEMMA StrongInductionOnSubsets ==
    ASSUME NEW S, IsFiniteSet(S), NEW P \in SUBSET SUBSET S,
           \A T \in SUBSET S : (\A U \in (SUBSET T) \ {T} : U \in P) => T \in P
    PROVE  P = SUBSET S
<1> DEFINE Bad == (SUBSET S) \ P
<1> SUFFICES ASSUME Bad # {} PROVE FALSE
  OBVIOUS
<1>1. IsWellFoundedOn(StrictSubsetOrdering(S), SUBSET S)
  BY FS_StrictSubsetOrderingWellFounded, FS_FiniteSubsetsOfFinite, Zenon
<1>2. PICK T \in Bad : \A U \in Bad : ~(<<U, T>> \in StrictSubsetOrdering(S))
  <2>1. Bad \subseteq SUBSET S
    OBVIOUS
  <2> HIDE DEF Bad
  <2>2. QED
    BY <1>1, <2>1, WFMin
<1>3. ASSUME NEW U \in (SUBSET T) \ {T} PROVE U \in P
  <2>1. <<U, T>> \in StrictSubsetOrdering(S)
    BY DEF StrictSubsetOrdering
  <2>2. QED
    BY <1>2, <2>1
<1>4. QED
  BY <1>3

(* and by adding one element. *)
LEMMA InductionOnSubsets ==
    ASSUME NEW S, IsFiniteSet(S), NEW P \in SUBSET SUBSET S,
           {} \in P, \A T \in P : \A x \in S \ T : T \cup {x} \in P
    PROVE  P = SUBSET S
<1>1. ASSUME NEW T \in SUBSET S, \A U \in (SUBSET T) \ {T} : U \in P PROVE T \in P
  <2>1. CASE T = {}
    BY <2>1
  <2>2. ASSUME NEW x \in T PROVE T \in P
    <3>1. T \ {x} \in P
      BY <1>1
    <3>2. T = (T \ {x}) \cup {x} /\ x \in S \ (T \ {x})
      OBVIOUS
    <3>3. QED
      BY <3>1, <3>2
  <2>3. QED
    BY <2>1, <2>2
<1>2. QED
  BY <1>1, StrongInductionOnSubsets

-----------------------------------------------------------------------------
(* Sums over finite sets.                                                  *)

(* The equation that defines the sum of f over the subsets of S. *)
SumsOver(f, S, g) ==
    g = [T \in SUBSET S |-> IF T = {} THEN 0
                            ELSE f[CHOOSE x \in T : TRUE] + g[T \ {CHOOSE x \in T : TRUE}]]

(* The equation has a solution. *)
LEMMA SumsExist ==
    ASSUME NEW S, IsFiniteSet(S), NEW f
    PROVE  \E g : SumsOver(f, S, g)
<1> DEFINE Sum1(g, T) == IF T = {} THEN 0
                         ELSE f[CHOOSE x \in T : TRUE] + g[T \ {CHOOSE x \in T : TRUE}]
           Upto(n) == {T \in SUBSET S : Cardinality(T) <= n}
           P == {n \in Nat : \E g : /\ DOMAIN g = SUBSET S
                                    /\ \A T \in Upto(n) : g[T] = Sum1(g, T)}
<1>1. 0 \in P
  <2> DEFINE g == [T \in SUBSET S |-> 0]
  <2>1. \A T \in Upto(0) : T = {}
    BY FS_Subset, FS_EmptySet, FS_CardinalityType
  <2>2. \A T \in Upto(0) : g[T] = Sum1(g, T)
    BY <2>1
  <2>3. DOMAIN g = SUBSET S
    OBVIOUS
  <2>4. QED
    BY <2>2, <2>3, Zenon
<1>2. ASSUME NEW n \in P PROVE n + 1 \in P
  <2>1. PICK g : DOMAIN g = SUBSET S /\ \A T \in Upto(n) : g[T] = Sum1(g, T)
    BY Zenon
  <2> DEFINE h == [T \in SUBSET S |-> Sum1(g, T)]
  <2>2. ASSUME NEW T \in Upto(n + 1), T # {}
        PROVE  T \ {CHOOSE x \in T : TRUE} \in Upto(n)
    <3>1. (CHOOSE x \in T : TRUE) \in T
      BY <2>2
    <3>2. IsFiniteSet(T)
      BY FS_Subset
    <3>3. Cardinality(T \ {CHOOSE x \in T : TRUE}) = Cardinality(T) - 1
      BY <3>1, <3>2, FS_RemoveElement, Zenon
    <3>4. Cardinality(T) \in Nat /\ Cardinality(T) <= n + 1
      BY <3>2, FS_CardinalityType
    <3>5. QED
      BY <3>3, <3>4
  <2>3. \A T \in Upto(n) : h[T] = g[T]
    BY <2>1, Zenon
  <2>4. ASSUME NEW T \in Upto(n + 1) PROVE h[T] = Sum1(h, T)
    <3>1. CASE T = {}
      BY <3>1
    <3>2. CASE T # {}
      <4>1. h[T] = f[CHOOSE x \in T : TRUE] + g[T \ {CHOOSE x \in T : TRUE}]
        BY <3>2
      <4>2. h[T \ {CHOOSE x \in T : TRUE}] = g[T \ {CHOOSE x \in T : TRUE}]
        BY <2>2, <2>3, <3>2, Zenon
      <4>3. QED
        BY <3>2, <4>1, <4>2
    <3>3. QED
      BY <3>1, <3>2
  <2>5. DOMAIN h = SUBSET S /\ n + 1 \in Nat
    OBVIOUS
  <2>6. \E k : DOMAIN k = SUBSET S /\ \A T \in Upto(n + 1) : k[T] = Sum1(k, T)
    <3> HIDE DEF h, Sum1, Upto
    <3>1. QED
      BY <2>4, <2>5
  <2>7. QED
    BY <2>5, <2>6, SMTT(30)
<1>3. Cardinality(S) \in P
  <2>1. P \in SUBSET Nat
    OBVIOUS
  <2>2. P = Nat
    <3> HIDE DEF P
    <3>1. QED
      BY <1>1, <1>2, <2>1, InductionOnNat
  <2>3. QED
    BY <2>2, FS_CardinalityType, Zenon
<1>4. PICK g : DOMAIN g = SUBSET S /\ \A T \in Upto(Cardinality(S)) : g[T] = Sum1(g, T)
  BY <1>3, Zenon
<1>5. \A T \in SUBSET S : T \in Upto(Cardinality(S))
  BY FS_Subset
<1>6. QED
  <2> DEFINE h == [T \in SUBSET S |-> Sum1(g, T)]
  <2>1. \A T \in SUBSET S : h[T] = g[T]
    BY <1>4, <1>5
  <2>2. \A T \in SUBSET S : T \ {CHOOSE x \in T : TRUE} \in SUBSET S
    OBVIOUS
  <2>3. h = [T \in SUBSET S |-> Sum1(h, T)]
    <3>1. ASSUME NEW T \in SUBSET S PROVE Sum1(g, T) = Sum1(h, T)
      <4> HIDE DEF h
      <4>1. h[T \ {CHOOSE x \in T : TRUE}] = g[T \ {CHOOSE x \in T : TRUE}]
        BY <2>1, <2>2, <3>1
      <4> QED
        BY <4>1, Zenon
    <3> HIDE DEF Sum1
    <3> QED
      BY <3>1, Zenon
  <2>4. QED
    BY <2>3, Zenon DEF SumsOver

(* SumFunctionOnSet solves it. *)
LEMMA SumsAreSums ==
    ASSUME NEW S, IsFiniteSet(S), NEW f
    PROVE  \E g : SumsOver(f, S, g) /\ SumFunctionOnSet(f, S) = g[S]
<1>1. \E g : SumsOver(f, S, g)
  BY SumsExist
<1>2. SumsOver(f, S, CHOOSE g : SumsOver(f, S, g))
  BY <1>1
<1>3. SumFunctionOnSet(f, S) = (CHOOSE g : SumsOver(f, S, g))[S]
  BY DEF SumFunctionOnSet, FoldFunctionOnSet, MapThenFoldSet, SumsOver
<1>4. QED
  BY <1>2, <1>3, Zenon

(* The sums over the subsets of S do not depend on S, *)
LEMMA SumsAgree ==
    ASSUME NEW S, IsFiniteSet(S), NEW T \in SUBSET S, NEW f, NEW g, NEW h,
           SumsOver(f, S, g), SumsOver(f, T, h)
    PROVE  \A U \in SUBSET T : g[U] = h[U]
<1> DEFINE P == {U \in SUBSET T : g[U] = h[U]}
<1>1. ASSUME NEW U \in SUBSET T, \A V \in (SUBSET U) \ {U} : V \in P PROVE U \in P
  <2>1. CASE U = {}
    BY <2>1 DEF SumsOver
  <2>2. CASE U # {}
    <3> DEFINE c == CHOOSE x \in U : TRUE
    <3>1. c \in U
      BY <2>2
    <3>2. g[U] = f[c] + g[U \ {c}] /\ h[U] = f[c] + h[U \ {c}]
      BY <2>2 DEF SumsOver
    <3>3. U \ {c} \in P
      BY <1>1, <3>1
    <3>4. QED
      BY <3>2, <3>3
  <2>3. QED
    BY <2>1, <2>2
<1>2. IsFiniteSet(T) /\ P \in SUBSET SUBSET T
  BY FS_Subset
<1>3. P = SUBSET T
  <2> HIDE DEF P
  <2>1. QED
    BY <1>1, <1>2, StrongInductionOnSubsets
<1>4. QED
  BY <1>3

(* nor on the order in which the elements are taken. *)
LEMMA SumsCommute ==
    ASSUME NEW S, IsFiniteSet(S), NEW f, \A x \in S : f[x] \in Nat,
           NEW g, SumsOver(f, S, g)
    PROVE  \A U \in SUBSET S : /\ g[U] \in Nat
                               /\ \A x \in U : g[U] = f[x] + g[U \ {x}]
<1> DEFINE P == {U \in SUBSET S : /\ g[U] \in Nat
                                  /\ \A x \in U : g[U] = f[x] + g[U \ {x}]}
<1>1. ASSUME NEW U \in SUBSET S, \A V \in (SUBSET U) \ {U} : V \in P PROVE U \in P
  <2>1. CASE U = {}
    BY <2>1 DEF SumsOver
  <2>2. CASE U # {}
    <3> DEFINE c == CHOOSE x \in U : TRUE
    <3>1. c \in U
      BY <2>2
    <3>2. g[U] = f[c] + g[U \ {c}]
      BY <2>2 DEF SumsOver
    <3> HIDE DEF c
    <3>3. g[U \ {c}] \in Nat
      BY <1>1, <3>1
    <3>4. ASSUME NEW x \in U PROVE g[U] = f[x] + g[U \ {x}]
      <4>1. CASE x = c
        BY <3>2, <4>1
      <4>2. CASE x # c
        <5> DEFINE V == (U \ {c}) \ {x}
        <5>1. g[U \ {c}] = f[x] + g[V]
          BY <1>1, <3>1, <4>2, Zenon
        <5>2. g[U \ {x}] = f[c] + g[V]
          <6>1. (U \ {x}) \ {c} = V
            OBVIOUS
          <6>2. g[U \ {x}] = f[c] + g[(U \ {x}) \ {c}]
            BY <1>1, <3>1, <4>2
          <6>3. QED
            BY <6>1, <6>2
        <5>3. g[V] \in Nat /\ f[x] \in Nat /\ f[c] \in Nat
          BY <1>1, <3>1
        <5> HIDE DEF V
        <5>4. QED
          BY <3>2, <5>1, <5>2, <5>3
      <4>3. QED
        BY <4>1, <4>2
    <3>5. g[U] \in Nat
      BY <3>1, <3>2, <3>3
    <3>6. QED
      BY <3>4, <3>5
  <2>3. QED
    BY <2>1, <2>2
<1>2. P \in SUBSET SUBSET S
  OBVIOUS
<1>3. P = SUBSET S
  <2> HIDE DEF P
  <2>1. QED
    BY <1>1, <1>2, StrongInductionOnSubsets
<1>4. QED
  BY <1>3, SMTT(30)

(* The empty sum. *)
LEMMA SumOfNone == ASSUME NEW f PROVE SumFunctionOnSet(f, {}) = 0
<1>1. PICK g : SumsOver(f, {}, g) /\ SumFunctionOnSet(f, {}) = g[{}]
  BY FS_EmptySet, SumsAreSums
<1>2. QED
  BY <1>1 DEF SumsOver

(* A sum of natural numbers is one. *)
LEMMA SumIsNat ==
    ASSUME NEW S, IsFiniteSet(S), NEW f, \A x \in S : f[x] \in Nat
    PROVE  SumFunctionOnSet(f, S) \in Nat
<1>1. PICK g : SumsOver(f, S, g) /\ SumFunctionOnSet(f, S) = g[S]
  BY SumsAreSums
<1>2. QED
  BY <1>1, SumsCommute

(* One more element adds its value. *)
LEMMA SumOfOneMore ==
    ASSUME NEW S, IsFiniteSet(S), NEW x, x \notin S,
           NEW f, \A y \in S \cup {x} : f[y] \in Nat
    PROVE  SumFunctionOnSet(f, S \cup {x}) = f[x] + SumFunctionOnSet(f, S)
<1> DEFINE R == S \cup {x}
<1>1. IsFiniteSet(R) /\ S \in SUBSET R /\ R \ {x} = S /\ x \in R
  BY FS_AddElement
<1>2. PICK g : SumsOver(f, R, g) /\ SumFunctionOnSet(f, R) = g[R]
  BY <1>1, SumsAreSums
<1>3. PICK h : SumsOver(f, S, h) /\ SumFunctionOnSet(f, S) = h[S]
  BY SumsAreSums
<1> HIDE DEF R
<1>4. g[S] = h[S]
  BY <1>1, <1>2, <1>3, SumsAgree
<1>5. \A y \in R : f[y] \in Nat
  BY DEF R
<1>6. g[R] = f[x] + g[R \ {x}]
  BY <1>1, <1>2, <1>5, SumsCommute
<1>7. QED
  BY <1>1, <1>2, <1>3, <1>4, <1>6 DEF R

(* Only the values in the set count. *)
LEMMA SumOfSame ==
    ASSUME NEW S, IsFiniteSet(S), NEW f, NEW g, \A x \in S : g[x] \in Nat /\ f[x] = g[x]
    PROVE  SumFunctionOnSet(f, S) = SumFunctionOnSet(g, S)
<1> DEFINE P == {U \in SUBSET S : SumFunctionOnSet(f, U) = SumFunctionOnSet(g, U)}
<1>1. {} \in P
  BY SumOfNone
<1>2. ASSUME NEW U \in P, NEW x \in S \ U PROVE U \cup {x} \in P
  <2>1. IsFiniteSet(U) /\ SumFunctionOnSet(f, U) = SumFunctionOnSet(g, U)
    BY FS_Subset
  <2>2. SumFunctionOnSet(f, U \cup {x}) = f[x] + SumFunctionOnSet(f, U)
    BY <2>1, SumOfOneMore, ZenonT(30)
  <2>3. SumFunctionOnSet(g, U \cup {x}) = g[x] + SumFunctionOnSet(g, U)
    BY <2>1, SumOfOneMore, Zenon
  <2>4. QED
    BY <2>1, <2>2, <2>3
<1>3. P = SUBSET S
  <2>1. P \in SUBSET SUBSET S
    OBVIOUS
  <2> HIDE DEF P
  <2>2. QED
    BY <1>1, <1>2, <2>1, InductionOnSubsets
<1>4. S \in P
  BY <1>3
<1>5. QED
  BY <1>4

(* The sum over two disjoint sets. *)
LEMMA SumOfUnion ==
    ASSUME NEW S, IsFiniteSet(S), NEW T, IsFiniteSet(T), S \cap T = {},
           NEW f, \A x \in S \cup T : f[x] \in Nat
    PROVE  SumFunctionOnSet(f, S \cup T) = SumFunctionOnSet(f, S) + SumFunctionOnSet(f, T)
<1> DEFINE P == {U \in SUBSET T :
                   SumFunctionOnSet(f, S \cup U) = SumFunctionOnSet(f, S) + SumFunctionOnSet(f, U)}
<1>1. {} \in P
  <2>1. S \cup {} = S /\ SumFunctionOnSet(f, S) \in Nat
    BY SumIsNat
  <2>2. QED
    BY <2>1, SumOfNone
<1>2. ASSUME NEW U \in P, NEW x \in T \ U PROVE U \cup {x} \in P
  <2>1. IsFiniteSet(U) /\ IsFiniteSet(S \cup U)
    BY FS_Subset, FS_Union, Zenon
  <2>2. SumFunctionOnSet(f, U \cup {x}) = f[x] + SumFunctionOnSet(f, U)
    BY <2>1, SumOfOneMore
  <2>3. SumFunctionOnSet(f, (S \cup U) \cup {x}) = f[x] + SumFunctionOnSet(f, S \cup U)
    BY <2>1, SumOfOneMore, SMTT(30)
  <2>4. /\ SumFunctionOnSet(f, S) \in Nat /\ SumFunctionOnSet(f, U) \in Nat
        /\ f[x] \in Nat
    BY <2>1, SumIsNat
  <2>5. S \cup (U \cup {x}) = (S \cup U) \cup {x}
    OBVIOUS
  <2>6. SumFunctionOnSet(f, S \cup U) = SumFunctionOnSet(f, S) + SumFunctionOnSet(f, U)
    OBVIOUS
  <2>7. SumFunctionOnSet(f, S \cup (U \cup {x}))
           = SumFunctionOnSet(f, S) + SumFunctionOnSet(f, U \cup {x})
    <3> DEFINE Sum(U_) == SumFunctionOnSet(f, U_)
    <3>1. Sum(S \cup (U \cup {x})) = f[x] + Sum(S \cup U)
      BY <2>3, <2>5, Zenon
    <3> HIDE DEF Sum
    <3>2. /\ Sum(U \cup {x}) = f[x] + Sum(U) /\ Sum(S \cup U) = Sum(S) + Sum(U)
          /\ Sum(S) \in Nat /\ Sum(U) \in Nat /\ f[x] \in Nat
      BY <2>2, <2>4, <2>6 DEF Sum
    <3>3. Sum(S \cup (U \cup {x})) = Sum(S) + Sum(U \cup {x})
      BY <3>1, <3>2
    <3>4. QED
      BY <3>3, Zenon DEF Sum
  <2>8. QED
    BY <2>7
<1>3. P = SUBSET T
  <2>1. P \in SUBSET SUBSET T
    OBVIOUS
  <2> HIDE DEF P
  <2>2. QED
    BY <1>1, <1>2, <2>1, InductionOnSubsets
<1>4. T \in P
  BY <1>3
<1>5. QED
  BY <1>4

(* Fewer elements have no larger sum. *)
LEMMA SumOfSubset ==
    ASSUME NEW S, IsFiniteSet(S), NEW T \in SUBSET S, NEW f, \A x \in S : f[x] \in Nat
    PROVE  SumFunctionOnSet(f, T) <= SumFunctionOnSet(f, S)
<1>1. IsFiniteSet(T) /\ IsFiniteSet(S \ T) /\ T \cap (S \ T) = {} /\ T \cup (S \ T) = S
  BY FS_Subset
<1>2. SumFunctionOnSet(f, T \cup (S \ T)) = SumFunctionOnSet(f, T) + SumFunctionOnSet(f, S \ T)
  BY <1>1, SumOfUnion
<1>3. SumFunctionOnSet(f, T) \in Nat /\ SumFunctionOnSet(f, S \ T) \in Nat
  BY <1>1, SumIsNat
<1>4. SumFunctionOnSet(f, S) = SumFunctionOnSet(f, T) + SumFunctionOnSet(f, S \ T)
  BY <1>1, <1>2, Zenon
<1>5. QED
  BY <1>3, <1>4

(* The sum over the images R of different elements. *)
LEMMA SumOfImage ==
    ASSUME NEW S, IsFiniteSet(S), NEW R, NEW f, NEW g, NEW h,
           \A x \in S : h[x] \in R,
           \A y \in R : \E x \in S : y = h[x],
           \A x, y \in S : h[x] = h[y] => x = y,
           \A x \in S : g[x] \in Nat /\ f[h[x]] = g[x]
    PROVE  IsFiniteSet(R) /\ SumFunctionOnSet(f, R) = SumFunctionOnSet(g, S)
<1> DEFINE I(U) == {h[x] : x \in U}
           P == {U \in SUBSET S : /\ IsFiniteSet(I(U))
                                  /\ SumFunctionOnSet(f, I(U)) = SumFunctionOnSet(g, U)}
<1>1. {} \in P
  <2>1. I({}) = {}
    OBVIOUS
  <2>2. QED
    BY <2>1, SumOfNone, FS_EmptySet
<1>2. ASSUME NEW U \in P, NEW x \in S \ U PROVE U \cup {x} \in P
  <2>1. IsFiniteSet(U) /\ IsFiniteSet(I(U))
    BY FS_Subset
  <2>2. I(U \cup {x}) = I(U) \cup {h[x]} /\ h[x] \notin I(U)
    OBVIOUS
  <2>3. \A y \in I(U) \cup {h[x]} : f[y] \in Nat
    OBVIOUS
  <2>4. SumFunctionOnSet(g, U \cup {x}) = g[x] + SumFunctionOnSet(g, U)
    BY <2>1, SumOfOneMore, Zenon
  <2>5. SumFunctionOnSet(f, I(U)) = SumFunctionOnSet(g, U) /\ f[h[x]] = g[x]
    OBVIOUS
  <2>6. IsFiniteSet(I(U \cup {x}))
    <3>1. IsFiniteSet(I(U) \cup {h[x]})
      BY <2>1, FS_AddElement, Zenon
    <3>2. QED
      BY <2>2, <3>1, Zenon
  <2>7. SumFunctionOnSet(f, I(U \cup {x})) = SumFunctionOnSet(g, U \cup {x})
    <3> HIDE DEF I
    <3>1. SumFunctionOnSet(f, I(U) \cup {h[x]}) = f[h[x]] + SumFunctionOnSet(f, I(U))
      BY <2>1, <2>2, <2>3, SumOfOneMore, Zenon
    <3>2. QED
      BY <2>2, <2>4, <2>5, <3>1, Zenon
  <2>8. QED
    BY <2>6, <2>7
<1>3. P = SUBSET S
  <2>1. P \in SUBSET SUBSET S
    OBVIOUS
  <2> HIDE DEF P
  <2>2. QED
    BY <1>1, <1>2, <2>1, InductionOnSubsets
<1>4. S \in P
  BY <1>3
<1>5. I(S) = R
  OBVIOUS
<1>6. QED
  BY <1>4, <1>5, Zenon

(* A bounded non-empty set of natural numbers has a greatest element. *)
LEMMA GreatestNatural ==
    ASSUME NEW T \in SUBSET Nat, T # {}, NEW n \in Nat, \A x \in T : x <= n
    PROVE  \E x \in T : \A y \in T : x >= y
<1> DEFINE D == {d \in Nat : n - d \in T}
<1>1. PICK t \in T : TRUE
  BY Zenon
<1>2. n - t \in D
  OBVIOUS
<1>3. PICK d \in D : \A e \in D : d <= e
  BY <1>2, LeastNatural, Zenon
<1>4. ASSUME NEW y \in T PROVE n - d >= y
  <2>1. n - y \in D
    OBVIOUS
  <2>2. QED
    BY <1>3, <2>1
<1>5. QED
  BY <1>4

(* The greatest of a non-empty set of positions is one of them. *)
LEMMA MaxIsGreatest ==
    ASSUME NEW n \in Nat, NEW T \in SUBSET (1..n), T # {}
    PROVE  Max(T) \in T /\ \A i \in T : Max(T) >= i
<1>1. \E x \in T : \A y \in T : x >= y
  <2>1. T \in SUBSET Nat /\ \A x \in T : x <= n
    OBVIOUS
  <2> QED
    BY <2>1, GreatestNatural, Zenon
<1> QED
  BY <1>1, Zenon DEF Max
=============================================================================
