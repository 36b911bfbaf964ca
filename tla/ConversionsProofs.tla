-------------------------- MODULE ConversionsProofs --------------------------
(***************************************************************************)
(* What the rep's conversions undo of each other, for every input: decimal *)
(* digits and numbers, configured stacks and their parts, root file system *)
(* providers and their JSON.                                               *)
(***************************************************************************)
EXTENDS Conversions, DataLemmas, SequenceTheorems

-----------------------------------------------------------------------------
(* Decimal digits.                                                         *)

(* The equation that defines the value of the digits of a text at a set of *)
(* positions.                                                              *)
ValuesOver(text, g) ==
    g = [T \in SUBSET DOMAIN text |->
            IF T = {} THEN 0 ELSE 10 * g[T \ {Max(T)}] + text[Max(T)]]

(* The equation has a solution. *)
LEMMA ValuesExist ==
    ASSUME NEW text \in Seq(Nat)
    PROVE  \E g : ValuesOver(text, g)
<1> DEFINE S == DOMAIN text
           Value1(g, T) == IF T = {} THEN 0 ELSE 10 * g[T \ {Max(T)}] + text[Max(T)]
           Upto(n) == {T \in SUBSET S : Cardinality(T) <= n}
           P == {n \in Nat : \E g : /\ DOMAIN g = SUBSET S
                                    /\ \A T \in Upto(n) : g[T] = Value1(g, T)}
<1>0. /\ Len(text) \in Nat /\ S = 1..Len(text) /\ IsFiniteSet(S)
      /\ \A T \in SUBSET S : T # {} => Max(T) \in T
  <2>1. Len(text) \in Nat /\ S = 1..Len(text)
    OBVIOUS
  <2>2. IsFiniteSet(S)
    BY <2>1, FS_Interval
  <2> QED
    BY <2>1, <2>2, MaxIsGreatest, Zenon
<1> HIDE DEF S
<1>1. 0 \in P
  <2> DEFINE g == [T \in SUBSET S |-> 0]
  <2>1. ASSUME NEW T \in Upto(0) PROVE T = {}
    <3>1. IsFiniteSet(T) /\ Cardinality(T) \in Nat /\ Cardinality(T) <= 0
      BY <1>0, FS_Subset, FS_CardinalityType, Zenon
    <3> QED
      BY <3>1, FS_EmptySet
  <2>2. \A T \in Upto(0) : g[T] = Value1(g, T)
    BY <2>1
  <2>3. DOMAIN g = SUBSET S
    OBVIOUS
  <2>4. QED
    BY <2>2, <2>3, Zenon
<1>2. ASSUME NEW n \in P PROVE n + 1 \in P
  <2>1. PICK g : DOMAIN g = SUBSET S /\ \A T \in Upto(n) : g[T] = Value1(g, T)
    BY Zenon
  <2> DEFINE h == [T \in SUBSET S |-> Value1(g, T)]
  <2>2. ASSUME NEW T \in Upto(n + 1), T # {} PROVE T \ {Max(T)} \in Upto(n)
    <3>1. Max(T) \in T
      BY <1>0, <2>2
    <3>2. IsFiniteSet(T)
      BY <1>0, FS_Subset
    <3>3. Cardinality(T \ {Max(T)}) = Cardinality(T) - 1
      BY <3>1, <3>2, FS_RemoveElement, Zenon
    <3>4. Cardinality(T) \in Nat /\ Cardinality(T) <= n + 1
      BY <3>2, FS_CardinalityType
    <3>5. QED
      BY <3>3, <3>4
  <2>3. \A T \in Upto(n) : h[T] = g[T]
    BY <2>1
  <2>4. ASSUME NEW T \in Upto(n + 1) PROVE h[T] = Value1(h, T)
    <3>1. CASE T = {}
      BY <3>1
    <3>2. CASE T # {}
      <4>1. h[T] = 10 * g[T \ {Max(T)}] + text[Max(T)]
        BY <3>2
      <4>2. h[T \ {Max(T)}] = g[T \ {Max(T)}]
        BY <2>2, <2>3, <3>2, Zenon
      <4>3. QED
        BY <3>2, <4>1, <4>2
    <3>3. QED
      BY <3>1, <3>2
  <2>5. DOMAIN h = SUBSET S /\ n + 1 \in Nat
    OBVIOUS
  <2>6. \E k : DOMAIN k = SUBSET S /\ \A T \in Upto(n + 1) : k[T] = Value1(k, T)
    <3> HIDE DEF h, Value1, Upto
    <3>1. QED
      BY <2>4, <2>5
  <2>7. QED
    BY <2>5, <2>6, Zenon
<1>3. Cardinality(S) \in P
  <2>1. P \in SUBSET Nat
    OBVIOUS
  <2>2. P = Nat
    <3> HIDE DEF P
    <3>1. QED
      BY <1>1, <1>2, <2>1, InductionOnNat, Zenon
  <2>3. QED
    BY <1>0, <2>2, FS_CardinalityType, Zenon
<1>4. PICK g : DOMAIN g = SUBSET S /\ \A T \in Upto(Cardinality(S)) : g[T] = Value1(g, T)
  BY <1>3, Zenon
<1>5. \A T \in SUBSET S : T \in Upto(Cardinality(S))
  BY <1>0, FS_Subset, Zenon
<1>6. QED
  <2> DEFINE h == [T \in SUBSET S |-> Value1(g, T)]
  <2>1. \A T \in SUBSET S : h[T] = g[T]
    BY <1>4, <1>5, Zenon
  <2>2. \A T \in SUBSET S : T \ {Max(T)} \in SUBSET S
    OBVIOUS
  <2>3. h = [T \in SUBSET S |-> Value1(h, T)]
    BY <2>1, <2>2, Zenon
  <2>4. QED
    BY <2>3, Zenon DEF ValuesOver, S

(* The number a text of digits stands for (the loop of strconv.Atoi). *)
Value(text) == FoldLeft(LAMBDA n, digit : 10 * n + digit, 0, text)

(* It solves the equation. *)
LEMMA ValueIsValue ==
    ASSUME NEW text \in Seq(Nat)
    PROVE  \E g : ValuesOver(text, g) /\ Value(text) = g[DOMAIN text]
<1>1. ValuesOver(text, CHOOSE g : ValuesOver(text, g))
  BY ValuesExist
<1>2. Value(text) = (CHOOSE g : ValuesOver(text, g))[DOMAIN text]
  BY DEF Value, FoldLeft, MapThenFoldSet, ValuesOver
<1> QED
  BY <1>1, <1>2, Zenon

(* It is taken digit by digit. *)
LEMMA ValuesByDigit ==
    ASSUME NEW text \in Seq(Nat), NEW g, ValuesOver(text, g)
    PROVE  /\ g[1..0] = 0
           /\ \A k \in 1..Len(text) : g[1..k] = 10 * g[1..(k - 1)] + text[k]
<1>1. Len(text) \in Nat /\ DOMAIN text = 1..Len(text) /\ 1..0 = {}
  OBVIOUS
<1>2. g[1..0] = 0
  BY <1>1 DEF ValuesOver
<1>3. ASSUME NEW k \in 1..Len(text) PROVE g[1..k] = 10 * g[1..(k - 1)] + text[k]
  <2>0. k \in Nat /\ k >= 1 /\ k <= Len(text) /\ k \in 1..k
    BY <1>1
  <2>1. 1..k \in SUBSET DOMAIN text /\ 1..k # {}
    <3>1. \A i \in 1..k : i \in 1..Len(text)
      BY <1>1, <2>0
    <3> QED
      BY <1>1, <2>0, <3>1, Zenon
  <2>2. Max(1..k) = k
    <3>1. 1..k \in SUBSET (1..k)
      OBVIOUS
    <3>2. Max(1..k) \in 1..k /\ \A i \in 1..k : Max(1..k) >= i
      BY <2>0, <2>1, <3>1, MaxIsGreatest, Zenon
    <3> QED
      BY <2>0, <3>2
  <2>3. (1..k) \ {k} = 1..(k - 1)
    BY <2>0
  <2>4. g[1..k] = 10 * g[(1..k) \ {Max(1..k)}] + text[Max(1..k)]
    BY <2>1, Zenon DEF ValuesOver
  <2> QED
    BY <2>2, <2>3, <2>4, Zenon
<1> QED
  BY <1>2, <1>3

(* One digit more. *)
LEMMA ValueOfAppend ==
    ASSUME NEW text \in Seq(Nat), NEW d \in Nat
    PROVE  /\ Value(text) \in Nat
           /\ Value(Append(text, d)) = 10 * Value(text) + d
<1> DEFINE more == Append(text, d)
<1>1. /\ more \in Seq(Nat) /\ Len(more) = Len(text) + 1 /\ Len(text) \in Nat
      /\ DOMAIN text = 1..Len(text) /\ DOMAIN more = 1..(Len(text) + 1)
      /\ \A i \in 1..Len(text) : more[i] = text[i] /\ text[i] \in Nat
      /\ more[Len(text) + 1] = d
  OBVIOUS
<1>2. PICK g : ValuesOver(text, g) /\ Value(text) = g[1..Len(text)]
  BY <1>1, ValueIsValue
<1> HIDE DEF more
<1>3. PICK h : ValuesOver(more, h) /\ Value(more) = h[1..(Len(text) + 1)]
  BY <1>1, ValueIsValue
<1>4. /\ g[1..0] = 0 /\ h[1..0] = 0
      /\ \A k \in 1..Len(text) : g[1..k] = 10 * g[1..(k - 1)] + text[k]
      /\ \A k \in 1..(Len(text) + 1) : h[1..k] = 10 * h[1..(k - 1)] + more[k]
  <2>1. /\ g[1..0] = 0
        /\ \A k \in 1..Len(text) : g[1..k] = 10 * g[1..(k - 1)] + text[k]
    BY <1>2, ValuesByDigit
  <2>2. /\ h[1..0] = 0
        /\ \A k \in 1..Len(more) : h[1..k] = 10 * h[1..(k - 1)] + more[k]
    BY <1>1, <1>3, ValuesByDigit, ZenonT(30)
  <2> QED
    BY <1>1, <2>1, <2>2
<1> DEFINE P == {k \in Nat : k <= Len(text) => g[1..k] \in Nat /\ h[1..k] = g[1..k]}
<1>5. 0 \in P
  BY <1>4
<1>6. ASSUME NEW k \in P PROVE k + 1 \in P
  <2> SUFFICES ASSUME k + 1 <= Len(text)
               PROVE  g[1..(k + 1)] \in Nat /\ h[1..(k + 1)] = g[1..(k + 1)]
    OBVIOUS
  <2>1. g[1..k] \in Nat /\ h[1..k] = g[1..k]
    BY <1>1
  <2>2. k + 1 \in 1..Len(text) /\ (k + 1) - 1 = k /\ k + 1 \in 1..(Len(text) + 1)
    BY <1>1
  <2>3. g[1..(k + 1)] = 10 * g[1..k] + text[k + 1] /\ h[1..(k + 1)] = 10 * h[1..k] + more[k + 1]
    BY <1>4, <2>2
  <2>4. more[k + 1] = text[k + 1] /\ text[k + 1] \in Nat
    BY <1>1, <2>2
  <2> DEFINE a == g[1..k]
             b == text[k + 1]
  <2>5. a \in Nat /\ b \in Nat => 10 * a + b \in Nat
    <3> HIDE DEF a, b
    <3> QED
      OBVIOUS
  <2>6. g[1..(k + 1)] = 10 * a + b /\ h[1..(k + 1)] = 10 * a + b
    BY <2>1, <2>3, <2>4, Zenon
  <2> QED
    BY <2>1, <2>4, <2>5, <2>6, Zenon
<1>7. P = Nat
  <2>1. P \in SUBSET Nat
    OBVIOUS
  <2> HIDE DEF P
  <2> QED
    BY <1>5, <1>6, <2>1, InductionOnNat, Zenon
<1>8. g[1..Len(text)] \in Nat /\ h[1..Len(text)] = g[1..Len(text)]
  BY <1>1, <1>7
<1>9. h[1..(Len(text) + 1)] = 10 * h[1..Len(text)] + d
  <2>1. (Len(text) + 1) - 1 = Len(text) /\ Len(text) + 1 \in 1..(Len(text) + 1)
    BY <1>1
  <2> QED
    BY <1>1, <1>4, <2>1, Zenon
<1> QED
  BY <1>2, <1>3, <1>8, <1>9 DEF more
(* The quotient and the remainder of a division by ten. *)
LEMMA DivisionByTen ==
    ASSUME NEW n \in Nat
    PROVE  /\ n \div 10 \in Nat /\ n % 10 \in Nat
           /\ 10 * (n \div 10) + (n % 10) = n
           /\ n >= 10 => n \div 10 < n
  OBVIOUS

(* The equation that defines the digits of a number, if those of others are g. *)
Digits(g, n) == IF n < 10 THEN <<n>> ELSE Append(g[n \div 10], n % 10)

(* It has a solution. *)
LEMMA DigitsExist == \E g : g = [n \in Nat |-> Digits(g, n)]
<1> DEFINE Q(k, g) == DOMAIN g = Nat /\ \A n \in 0..k : g[n] = Digits(g, n)
           P == {k \in Nat : \E g : Q(k, g)}
<1>1. 0 \in P
  <2> DEFINE g == [n \in Nat |-> <<n>>]
  <2>1. Q(0, g)
    BY DEF Digits
  <2> QED
    BY <2>1
<1>2. ASSUME NEW k \in P PROVE k + 1 \in P
  <2>1. PICK g : Q(k, g)
    OBVIOUS
  <2> DEFINE h == [n \in Nat |-> Digits(g, n)]
  <2>2. \A n \in 0..k : h[n] = g[n]
    BY <2>1
  <2>3. ASSUME NEW n \in 0..(k + 1) PROVE h[n] = Digits(h, n)
    <3>1. n \in Nat /\ h[n] = Digits(g, n)
      OBVIOUS
    <3>2. CASE n < 10
      BY <3>1, <3>2 DEF Digits
    <3>3. CASE ~(n < 10)
      <4>1. n \div 10 \in 0..k
        BY <3>1, <3>3, DivisionByTen
      <4>2. h[n \div 10] = g[n \div 10]
        BY <2>2, <4>1
      <4> HIDE DEF h
      <4> QED
        BY <3>1, <3>3, <4>2 DEF Digits
    <3> QED
      BY <3>2, <3>3
  <2>4. Q(k + 1, h)
    BY <2>3
  <2> HIDE DEF Q, h
  <2> QED
    BY <2>4
<1>3. P = Nat
  <2>1. P \in SUBSET Nat
    OBVIOUS
  <2> HIDE DEF P
  <2> QED
    BY <1>1, <1>2, <2>1, InductionOnNat
<1>4. ASSUME NEW k \in Nat, NEW m \in 0..k, NEW g, NEW h, Q(k, g), Q(m, h)
      PROVE  g[m] = h[m]
  <2> DEFINE R == {n \in Nat : n <= m => g[n] = h[n]}
  <2>1. ASSUME NEW n \in Nat, \A i \in 0..(n - 1) : i \in R PROVE n \in R
    <3> SUFFICES ASSUME n <= m PROVE g[n] = h[n]
      OBVIOUS
    <3>1. n \in 0..k /\ n \in 0..m
      BY <1>4
    <3>2. g[n] = Digits(g, n) /\ h[n] = Digits(h, n)
      BY <1>4, <3>1
    <3>3. CASE n < 10
      BY <3>2, <3>3 DEF Digits
    <3>4. CASE ~(n < 10)
      <4>1. n \div 10 \in 0..(n - 1) /\ n \div 10 <= m
        BY <3>4, DivisionByTen
      <4>2. g[n \div 10] = h[n \div 10]
        BY <2>1, <4>1
      <4> QED
        BY <3>2, <3>4, <4>2 DEF Digits
    <3> QED
      BY <3>3, <3>4
  <2>2. R = Nat
    <3>1. R \in SUBSET Nat
      OBVIOUS
    <3> HIDE DEF R
    <3> QED
      BY <2>1, <3>1, StrongInductionOnNat
  <2> QED
    BY <2>2
<1> DEFINE Part(k) == CHOOSE g : Q(k, g)
           G == [n \in Nat |-> Part(n)[n]]
<1>5. \A k \in Nat : Q(k, Part(k))
  BY <1>3
<1>6. ASSUME NEW n \in Nat PROVE G[n] = Digits(G, n)
  <2>1. G[n] = Digits(Part(n), n)
    BY <1>5
  <2>2. CASE n < 10
    BY <2>1, <2>2 DEF Digits
  <2>3. CASE ~(n < 10)
    <3> DEFINE m == n \div 10
    <3>1. m \in Nat /\ m \in 0..n
      BY <2>3, DivisionByTen
    <3> HIDE DEF m
    <3>2. G[m] = Part(m)[m]
      BY <3>1
    <3>3. Part(n)[m] = Part(m)[m]
      BY <1>4, <1>5, <3>1, SMTT(30)
    <3> HIDE DEF Part, G
    <3> QED
      BY <2>1, <2>3, <3>2, <3>3 DEF Digits, m
  <2> QED
    BY <2>2, <2>3
<1>7. G = [n \in Nat |-> Digits(G, n)]
  <2>1. DOMAIN G = Nat /\ G = [n \in Nat |-> G[n]]
    OBVIOUS
  <2> HIDE DEF G
  <2> QED
    BY <1>6, <2>1
<1> QED
  BY <1>7, Zenon

(* Itoa is that solution. *)
LEMMA ItoaByDigit ==
    /\ \A n \in Nat : n < 10 => Itoa[n] = <<n>>
    /\ \A n \in Nat : n >= 10 => Itoa[n] = Append(Itoa[n \div 10], n % 10)
<1> DEFINE I == CHOOSE g : g = [n \in Nat |-> Digits(g, n)]
<1>1. I = [n \in Nat |-> Digits(I, n)]
  BY DigitsExist
<1>2. Itoa = I
  BY DEF Itoa, Digits
<1> HIDE DEF I
<1>3. \A n \in Nat : Itoa[n] = Digits(Itoa, n)
  BY <1>1, <1>2
<1>4. ASSUME NEW n \in Nat, n < 10 PROVE Itoa[n] = <<n>>
  BY <1>3, <1>4, Zenon DEF Digits
<1>5. ASSUME NEW n \in Nat, n >= 10 PROVE Itoa[n] = Append(Itoa[n \div 10], n % 10)
  <2>1. ~(n < 10)
    BY <1>5
  <2> QED
    BY <1>3, <2>1, Zenon DEF Digits
<1> QED
  BY <1>4, <1>5, SMTT(30)

(* strconv.Atoi in ActualLRPKeyFromTags (conversion_helpers.go) returns    *)
(* the number that strconv.Itoa in lrpsToAllocationRequest                 *)
(* (auction_cell_rep.go) was given, for every natural number.              *)
LEMMA AtoiOfItoa == \A n \in Nat : Atoi(Itoa[n]) = <<n>>
<1> DEFINE P == {n \in Nat : Itoa[n] \in Seq(Nat) /\ Itoa[n] # <<>> /\ Value(Itoa[n]) = n}
<1>1. ASSUME NEW n \in Nat, \A m \in 0..(n - 1) : m \in P PROVE n \in P
  <2>1. CASE n < 10
    <3>1. Itoa[n] = <<n>> /\ <<n>> = Append(<<>>, n) /\ <<>> \in Seq(Nat)
      BY <2>1, ItoaByDigit
    <3>2. Value(<<>>) = 0
      <4>1. PICK g : ValuesOver(<<>>, g) /\ Value(<<>>) = g[DOMAIN <<>>]
        BY <3>1, ValueIsValue, Zenon
      <4>2. DOMAIN <<>> = {}
        OBVIOUS
      <4> QED
        BY <4>1, <4>2 DEF ValuesOver
    <3>3. Value(<<n>>) = 10 * Value(<<>>) + n
      BY <3>1, ValueOfAppend, Zenon
    <3>4. Value(<<n>>) = n /\ <<n>> \in Seq(Nat) /\ <<n>> # <<>>
      BY <3>2, <3>3
    <3> QED
      BY <3>1, <3>4, Zenon
  <2>2. CASE n >= 10
    <3> DEFINE m == n \div 10
    <3>1. m \in 0..(n - 1) /\ 10 * m + (n % 10) = n /\ n % 10 \in Nat
      BY <2>2, DivisionByTen
    <3>2. Itoa[n] = Append(Itoa[m], n % 10)
      BY <2>2, ItoaByDigit, SMTT(30)
    <3> HIDE DEF m
    <3>3. Itoa[m] \in Seq(Nat) /\ Value(Itoa[m]) = m
      BY <1>1, <3>1
    <3>4. Value(Append(Itoa[m], n % 10)) = 10 * Value(Itoa[m]) + (n % 10)
      BY <3>1, <3>3, ValueOfAppend
    <3>5. Append(Itoa[m], n % 10) \in Seq(Nat) /\ Append(Itoa[m], n % 10) # <<>>
      <4> DEFINE d == n % 10
                 s == Itoa[m]
      <4>1. d \in Nat /\ s \in Seq(Nat)
        BY <3>1, <3>3
      <4> HIDE DEF d, s
      <4>2. Append(s, d) \in Seq(Nat) /\ Append(s, d) # <<>>
        BY <4>1, AppendProperties
      <4> QED
        BY <4>2 DEF d, s
    <3> QED
      BY <3>1, <3>2, <3>3, <3>4, <3>5, Zenon
  <2> QED
    BY <2>1, <2>2
<1>2. P = Nat
  <2>1. P \in SUBSET Nat
    OBVIOUS
  <2> HIDE DEF P
  <2> QED
    BY <1>1, <2>1, StrongInductionOnNat
<1>3. ASSUME NEW n \in Nat PROVE Atoi(Itoa[n]) = <<n>>
  <2>1. Itoa[n] # <<>> /\ Value(Itoa[n]) = n
    BY <1>2
  <2> QED
    BY <2>1, Zenon DEF Atoi, Value, Blank
<1> QED
  BY <1>3

(* int32 keeps the numbers that fit. *)
LEMMA Int32Keeps ==
    ASSUME NEW n \in 0..(Half - 1) PROVE ToInt32(n) = n
<1>1. ASSUME NEW a \in Nat, NEW b \in Nat, a < b PROVE a % b = a
  BY <1>1
<1>2. n + Half \in Nat /\ 2 * Half \in Nat /\ n + Half < 2 * Half
  BY HalfAssumption
<1> QED
  BY <1>1, <1>2, HalfAssumption DEF ToInt32

(* The tags lrpsToAllocationRequest gives a container lead                 *)
(* ActualLRPKeyFromTags and ActualLRPInstanceKeyFromContainer back to the  *)
(* key of the LRP and to the instance, for every index an int32 holds.     *)
THEOREM KeysFromTags ==
    ASSUME NEW lrp, lrp.index \in 0..(Half - 1), NEW guid
    PROVE  /\ ActualLRPKeyFromTags(LRPTags(lrp, guid))
              = <<[process |-> lrp.process, index |-> lrp.index, domain |-> lrp.domain]>>
           /\ ActualLRPInstanceKeyFromContainer(LRPTags(lrp, guid)) = <<guid>>
<1> DEFINE tags == LRPTags(lrp, guid)
<1>1. /\ Tag(tags, "process") = <<lrp.process>> /\ Tag(tags, "domain") = <<lrp.domain>>
      /\ Tag(tags, "index") = Itoa[lrp.index] /\ Tag(tags, "instance") = <<guid>>
  BY Zenon DEF Tag, LRPTags
<1>2. Atoi(Itoa[lrp.index]) = <<lrp.index>>
  BY AtoiOfItoa, HalfAssumption
<1>3. /\ <<lrp.process>> # Blank /\ <<lrp.index>> # Error /\ <<lrp.domain>> # Blank
      /\ <<lrp.process>>[1] = lrp.process /\ <<lrp.index>>[1] = lrp.index
      /\ <<lrp.domain>>[1] = lrp.domain
  BY DEF Blank, Error
<1>4. ToInt32(lrp.index) = lrp.index /\ ~(lrp.index < 0)
  BY Int32Keeps, HalfAssumption
<1> QED
  BY <1>1, <1>2, <1>3, <1>4, Zenon DEF ActualLRPKeyFromTags, ActualLRPInstanceKeyFromContainer

-----------------------------------------------------------------------------
(* Configured stacks and root file systems.                                *)

(* The tokens of a text. *)
Token == STRING \cup {":"}

(* A colon is a text. *)
LEMMA ColonIsText == <<":">> \in Seq(Token) /\ Len(<<":">>) = 1 /\ <<":">>[1] = ":"
<1>1. ":" \in Token
  BY DEF Token
<1>2. ASSUME NEW S, NEW e \in S PROVE <<e>> \in Seq(S) /\ Len(<<e>>) = 1 /\ <<e>>[1] = e
  OBVIOUS
<1> QED
  BY <1>1, <1>2

(* Where SplitN splits a text. *)
FirstColon(text) == SelectInSeq(text, LAMBDA token : token = ":")

(* It is the first colon, or 0 if there is none. *)
LEMMA FirstColonIsFirst ==
    ASSUME NEW text \in Seq(Token)
    PROVE  \/ FirstColon(text) = 0 /\ \A i \in 1..Len(text) : text[i] # ":"
           \/ /\ FirstColon(text) \in 1..Len(text) /\ text[FirstColon(text)] = ":"
              /\ \A i \in 1..Len(text) : text[i] = ":" => FirstColon(text) <= i
<1> DEFINE I == {i \in 1..Len(text) : text[i] = ":"}
<1>1. FirstColon(text) = IF I # {} THEN Min(I) ELSE 0
  BY DEF FirstColon, SelectInSeq
<1>2. CASE I = {}
  BY <1>1, <1>2
<1>3. CASE I # {}
  <2>1. I \in SUBSET Nat
    OBVIOUS
  <2>2. \E x \in I : \A y \in I : x <= y
    <3> HIDE DEF I
    <3> QED
      BY <1>3, <2>1, LeastNatural
  <2>3. Min(I) \in I /\ \A y \in I : Min(I) <= y
    BY <2>2, Zenon DEF Min
  <2> QED
    BY <1>1, <1>3, <2>3
<1> QED
  BY <1>2, <1>3

(* SplitN in terms of that position. *)
LEMMA SplitNAt ==
    ASSUME NEW text
    PROVE  SplitN(text) = IF FirstColon(text) = 0 THEN <<text>>
                          ELSE <<SubSeq(text, 1, FirstColon(text) - 1),
                                 SubSeq(text, FirstColon(text) + 1, Len(text))>>
  BY DEF SplitN, FirstColon

(* What SplitN takes apart can be put together again, and its first part   *)
(* has no colon.                                                           *)
LEMMA SplitNSplits ==
    ASSUME NEW text \in Seq(Token), Len(SplitN(text)) = 2
    PROVE  /\ SplitN(text)[1] \in Seq(Token) /\ SplitN(text)[2] \in Seq(Token)
           /\ (SplitN(text)[1] \o <<":">>) \o SplitN(text)[2] = text
           /\ \A i \in 1..Len(SplitN(text)[1]) : SplitN(text)[1][i] # ":"
<1> DEFINE k == FirstColon(text)
           n == Len(text)
           a == SubSeq(text, 1, k - 1)
           b == SubSeq(text, k + 1, n)
           ac == a \o <<":">>
<1>1. k # 0
  <2>1. Len(<<text>>) = 1
    OBVIOUS
  <2>2. k = 0 => SplitN(text) = <<text>>
    BY SplitNAt, Zenon
  <2> QED
    BY <2>1, <2>2
<1>2. /\ k \in 1..n /\ text[k] = ":" /\ n \in Nat
      /\ \A i \in 1..n : text[i] = ":" => k <= i
      /\ \A i \in 1..n : text[i] \in Token
  BY <1>1, FirstColonIsFirst
<1>3. SplitN(text)[1] = a /\ SplitN(text)[2] = b
  BY <1>1, SplitNAt
<1> HIDE DEF k, n
<1>4. /\ a \in Seq(Token) /\ Len(a) = k - 1
      /\ \A i \in 1..(k - 1) : a[i] = text[i]
  <2>1. \A i \in 1..(k - 1) : text[i] \in Token
    BY <1>2
  <2>2. /\ a \in Seq(Token) /\ Len(a) = IF 1 <= k - 1 THEN (k - 1) - 1 + 1 ELSE 0
        /\ \A i \in 1..((k - 1) - 1 + 1) : a[i] = text[1 + i - 1]
    BY <1>2, <2>1, SubSeqProperties
  <2> HIDE DEF a
  <2> QED
    BY <1>2, <2>2
<1>5. /\ b \in Seq(Token) /\ Len(b) = n - k
      /\ \A i \in 1..(n - k) : b[i] = text[k + i]
  <2>1. \A i \in (k + 1)..n : text[i] \in Token
    BY <1>2
  <2>2. /\ b \in Seq(Token) /\ Len(b) = IF k + 1 <= n THEN n - (k + 1) + 1 ELSE 0
        /\ \A i \in 1..(n - (k + 1) + 1) : b[i] = text[(k + 1) + i - 1]
    BY <1>2, <2>1, SubSeqProperties
  <2> HIDE DEF b
  <2>3. Len(b) = n - k
    BY <1>2, <2>2
  <2>4. ASSUME NEW i \in 1..(n - k) PROVE b[i] = text[k + i]
    <3>1. i \in 1..(n - (k + 1) + 1) /\ (k + 1) + i - 1 = k + i
      BY <1>2
    <3> QED
      BY <2>2, <3>1
  <2> QED
    BY <2>2, <2>3, <2>4
<1> HIDE DEF a, b
<1>6. /\ ac \in Seq(Token) /\ Len(ac) = k /\ ac[k] = ":"
      /\ \A i \in 1..(k - 1) : ac[i] = text[i]
  <2>1. <<":">> \in Seq(Token) /\ Len(<<":">>) = 1 /\ <<":">>[1] = ":"
    BY ColonIsText
  <2>2. /\ ac \in Seq(Token) /\ Len(ac) = Len(a) + 1
        /\ \A i \in 1..(Len(a) + 1) :
              ac[i] = IF i <= Len(a) THEN a[i] ELSE <<":">>[i - Len(a)]
    BY <1>4, <2>1, ConcatProperties
  <2>3. k \in 1..(Len(a) + 1) /\ ~(k <= Len(a)) /\ k - Len(a) = 1
    BY <1>2, <1>4
  <2>4. ac[k] = ":"
    BY <2>1, <2>2, <2>3
  <2>5. ASSUME NEW i \in 1..(k - 1) PROVE ac[i] = text[i]
    <3>1. i \in 1..(Len(a) + 1) /\ i <= Len(a)
      BY <1>2, <1>4
    <3> QED
      BY <1>4, <2>2, <3>1
  <2> QED
    BY <1>2, <1>4, <2>2, <2>4, <2>5, SMTT(30)
<1>7. ac \o b = text
  <2> HIDE DEF ac
  <2>1. /\ ac \o b \in Seq(Token) /\ Len(ac \o b) = Len(ac) + Len(b)
        /\ \A i \in 1..(Len(ac) + Len(b)) :
              (ac \o b)[i] = IF i <= Len(ac) THEN ac[i] ELSE b[i - Len(ac)]
    BY <1>5, <1>6, ConcatProperties, ZenonT(30)
  <2>2. Len(ac) = k /\ Len(ac) + Len(b) = n
    BY <1>2, <1>5, <1>6
  <2>3. ASSUME NEW i \in 1..n PROVE (ac \o b)[i] = text[i]
    <3>1. CASE i <= k - 1
      <4>1. i \in 1..(k - 1) /\ i <= k
        BY <1>2, <3>1
      <4> QED
        BY <1>6, <2>1, <2>2, <4>1
    <3>2. CASE i = k
      BY <1>2, <1>6, <2>1, <2>2, <3>2, SMTT(30)
    <3>3. CASE i > k
      <4>1. i - k \in 1..(n - k) /\ ~(i <= k) /\ k + (i - k) = i
        BY <1>2, <3>3
      <4>2. (ac \o b)[i] = b[i - k]
        BY <2>1, <2>2, <4>1
      <4> QED
        BY <1>5, <4>1, <4>2
    <3>4. i <= k - 1 \/ i = k \/ i > k
      BY <1>2
    <3> QED
      BY <3>1, <3>2, <3>3, <3>4, Zenon
  <2> QED
    BY <2>1, <2>2, <2>3, SeqEqual DEF n
<1>8. ASSUME NEW i \in 1..Len(a) PROVE a[i] # ":"
  <2>1. i \in 1..(k - 1) /\ i \in 1..n /\ ~(k <= i)
    BY <1>2, <1>4
  <2> QED
    BY <1>2, <1>4, <2>1
<1> QED
  BY <1>3, <1>4, <1>5, <1>7, <1>8

(* A text that begins with a stack and a colon is split after the stack. *)
LEMMA SplitNOfPrefix ==
    ASSUME NEW text \in Seq(Token), NEW s \in Seq(Token), \A i \in 1..Len(s) : s[i] # ":",
           IsPrefix(s \o <<":">>, text)
    PROVE  SplitN(text)[1] = s
<1> DEFINE sc == s \o <<":">>
           m == Len(s)
           n == Len(text)
<1>1. /\ sc \in Seq(Token) /\ Len(sc) = m + 1 /\ m \in Nat /\ n \in Nat
      /\ sc[m + 1] = ":" /\ \A i \in 1..m : sc[i] = s[i]
      /\ \A i \in 1..n : text[i] \in Token
  <2>1. <<":">> \in Seq(Token) /\ Len(<<":">>) = 1 /\ <<":">>[1] = ":"
    BY ColonIsText
  <2>2. m \in Nat /\ n \in Nat /\ \A i \in 1..n : text[i] \in Token
    OBVIOUS
  <2> HIDE DEF m
  <2>3. /\ sc \in Seq(Token) /\ Len(sc) = m + 1
        /\ \A i \in 1..(m + 1) : sc[i] = IF i <= m THEN s[i] ELSE <<":">>[i - m]
    BY <2>1, ConcatProperties DEF m
  <2>4. m + 1 \in 1..(m + 1) /\ ~(m + 1 <= m) /\ (m + 1) - m = 1
    BY <2>2
  <2>5. sc[m + 1] = ":"
    BY <2>1, <2>3, <2>4
  <2>6. ASSUME NEW i \in 1..m PROVE sc[i] = s[i]
    <3>1. i \in 1..(m + 1) /\ i <= m
      BY <2>2
    <3> QED
      BY <2>3, <3>1
  <2> QED
    BY <2>2, <2>3, <2>5, <2>6
<1>2. m + 1 <= n /\ SubSeq(sc, 1, m + 1) = SubSeq(text, 1, m + 1)
  BY <1>1, Zenon DEF IsPrefix
<1> HIDE DEF m, n, sc
<1>3. \A i \in 1..(m + 1) : text[i] = sc[i]
  <2>1. \A i \in 1..(m + 1) : sc[i] \in Token /\ text[i] \in Token
    BY <1>1, <1>2, ElementOfSeq
  <2>2. \A i \in 1..((m + 1) - 1 + 1) : SubSeq(sc, 1, m + 1)[i] = sc[1 + i - 1]
    BY <1>1, <2>1, SubSeqProperties
  <2>3. \A i \in 1..((m + 1) - 1 + 1) : SubSeq(text, 1, m + 1)[i] = text[1 + i - 1]
    BY <1>1, <2>1, SubSeqProperties
  <2>4. ASSUME NEW i \in 1..(m + 1) PROVE text[i] = sc[i]
    <3>1. i \in 1..((m + 1) - 1 + 1) /\ 1 + i - 1 = i
      BY <1>1
    <3> QED
      BY <1>2, <2>2, <2>3, <3>1, Zenon
  <2> QED
    BY <2>4
<1>4. \A i \in 1..m : text[i] = s[i] /\ i \in 1..(m + 1) /\ i \in 1..n
  BY <1>1, <1>2, <1>3
<1>5. text[m + 1] = ":" /\ m + 1 \in 1..n
  BY <1>1, <1>2, <1>3
<1>6. FirstColon(text) = m + 1
  <2> DEFINE k == FirstColon(text)
  <2>1. k \in 1..n /\ text[k] = ":" /\ k <= m + 1
    BY <1>5, FirstColonIsFirst DEF n
  <2> HIDE DEF k
  <2>2. k \notin 1..m
    BY <1>4, <2>1 DEF m
  <2>3. k = m + 1
    BY <1>1, <2>1, <2>2
  <2> QED
    BY <2>3 DEF k
<1> DEFINE a == SubSeq(text, 1, m)
<1>7. SplitN(text)[1] = a
  <2>1. (m + 1) - 1 = m /\ m + 1 # 0
    BY <1>1
  <2> QED
    BY <1>6, <2>1, SplitNAt
<1>8. a \in Seq(Token) /\ Len(a) = m /\ \A i \in 1..m : a[i] = text[i]
  <2>1. \A i \in 1..m : text[i] \in Token
    BY <1>1, <1>4
  <2>2. /\ a \in Seq(Token) /\ Len(a) = IF 1 <= m THEN m - 1 + 1 ELSE 0
        /\ \A i \in 1..(m - 1 + 1) : a[i] = text[1 + i - 1]
    BY <1>1, <2>1, SubSeqProperties
  <2> HIDE DEF a
  <2> QED
    BY <1>1, <2>2
<1> HIDE DEF a
<1>9. a = s
  BY <1>4, <1>8, SeqEqual DEF m
<1> QED
  BY <1>7, <1>9

(* A stack map that UnmarshalJSON of StackMap (config.go) accepts has, for *)
(* each stack, the path of the last entry configured for it.               *)
THEOREM StackMapHasLastEntry ==
    ASSUME NEW entries \in Seq(Seq(Token)), UnmarshalStackMap(entries) # Error,
           NEW stack \in DOMAIN UnmarshalStackMap(entries)[1]
    PROVE  \E i \in DOMAIN entries :
              /\ entries[i] = stack \o <<":">> \o UnmarshalStackMap(entries)[1][stack]
              /\ \A j \in DOMAIN entries : IsPrefix(stack \o <<":">>, entries[j]) => j <= i
<1> DEFINE D == DOMAIN entries
           part(i) == SplitN(entries[i])
           own == {i \in D : part(i)[1] = stack}
           i == Max(own)
<1>1. \A j \in D : Len(part(j)) = 2 /\ entries[j] \in Seq(Token)
  BY DEF UnmarshalStackMap
<1>2. \E j \in D : stack = part(j)[1]
  BY DEF UnmarshalStackMap
<1>4. i \in own /\ \A j \in own : i >= j
  <2>1. own # {}
    BY <1>2
  <2>2. Len(entries) \in Nat /\ D = 1..Len(entries) /\ own \in SUBSET (1..Len(entries))
    OBVIOUS
  <2> HIDE DEF own
  <2> QED
    BY <2>1, <2>2, MaxIsGreatest, Zenon
<1>3. UnmarshalStackMap(entries)[1][stack] = part(i)[2]
  <2> DEFINE parts == [j \in D |-> SplitN(entries[j])]
             F == [s \in {parts[j][1] : j \in DOMAIN parts} |->
                     parts[Max({j \in DOMAIN parts : parts[j][1] = s})][2]]
  <2>1. UnmarshalStackMap(entries) = <<F>>
    BY Zenon DEF UnmarshalStackMap
  <2>2. stack \in {parts[j][1] : j \in DOMAIN parts}
    BY <1>2
  <2>3. F[stack] = parts[Max({j \in DOMAIN parts : parts[j][1] = stack})][2]
    BY <2>2, Zenon
  <2>4. {j \in DOMAIN parts : parts[j][1] = stack} = own
    OBVIOUS
  <2>5. F[stack] = parts[i][2]
    BY <2>3, <2>4, Zenon
  <2>6. <<F>>[1][stack] = parts[i][2]
    <3> HIDE DEF F, parts, i
    <3> QED
      BY <2>5
  <2>7. parts[i] = part(i)
    BY <1>4, Zenon
  <2> QED
    BY <2>1, <2>6, <2>7, Zenon
<1> HIDE DEF i
<1>5. i \in D /\ part(i)[1] = stack
  BY <1>4
<1>6. /\ stack \in Seq(Token) /\ (stack \o <<":">>) \o part(i)[2] = entries[i]
      /\ \A j \in 1..Len(stack) : stack[j] # ":"
  BY <1>1, <1>5, SplitNSplits, ZenonT(30)
<1>7. ASSUME NEW j \in D, IsPrefix(stack \o <<":">>, entries[j]) PROVE j <= i
  <2>1. part(j)[1] = stack
    BY <1>1, <1>6, <1>7, SplitNOfPrefix
  <2>2. j \in own
    BY <2>1
  <2>3. j \in Nat /\ i \in Nat
    BY <1>5
  <2> QED
    BY <1>4, <2>2, <2>3
<1> QED
  BY <1>3, <1>5, <1>6, <1>7, Zenon

(* A configuration consists of such texts. *)
LEMMA TextsOfTokens == ASSUME NEW e \in Seq(Seq(STRING)) PROVE e \in Seq(Seq(Token))
<1>1. STRING \subseteq Token
  BY DEF Token
<1>2. Seq(STRING) \subseteq Seq(Token)
  BY <1>1, SeqMonotonic, Zenon
<1>3. Seq(Seq(STRING)) \subseteq Seq(Seq(Token))
  BY <1>2, SeqMonotonic
<1> QED
  BY <1>3

(* The providers that rootFSProviders (auction_cell_rep.go) offers come    *)
(* out of the JSON of MarshalJSON and UnmarshalJSON (rootfs_providers.go)  *)
(* as they went in.                                                        *)
THEOREM ProvidersRoundTrip ==
    ASSUME NEW stackMap, NEW arbitrary
    PROVE  UnmarshalProviders(MarshalProviders(RootFSProviders(stackMap, arbitrary)))
           = RootFSProviders(stackMap, arbitrary)
<1> DEFINE ps == RootFSProviders(stackMap, arbitrary)
           Names == arbitrary \cup Preloaded
<1>1. ps = [s \in Names |-> IF s \in Preloaded THEN FixedSet(DOMAIN stackMap) ELSE Arbitrary]
  BY DEF RootFSProviders
<1>2. UnmarshalProvider(MarshalProvider(Arbitrary)) = Arbitrary
  BY DEF UnmarshalProvider, MarshalProvider, Arbitrary
<1>3. ASSUME NEW S PROVE UnmarshalProvider(MarshalProvider(FixedSet(S))) = FixedSet(S)
  <2>1. MarshalProvider(FixedSet(S)) = [type |-> "fixed_set", set |-> S]
    BY DEF MarshalProvider, FixedSet
  <2>2. UnmarshalProvider([type |-> "fixed_set", set |-> S]) = FixedSet(S)
    BY DEF UnmarshalProvider
  <2> QED
    BY <2>1, <2>2
<1>4. MarshalProviders(ps) = [s \in Names |-> MarshalProvider(ps[s])]
  BY <1>1 DEF MarshalProviders
<1>5. UnmarshalProviders(MarshalProviders(ps))
      = [s \in Names |-> UnmarshalProvider(MarshalProvider(ps[s]))]
  <2> DEFINE json == [s \in Names |-> MarshalProvider(ps[s])]
  <2>1. DOMAIN json = Names /\ \A s \in Names : json[s] = MarshalProvider(ps[s])
    OBVIOUS
  <2> HIDE DEF json
  <2>2. UnmarshalProviders(json) = [s \in Names |-> UnmarshalProvider(MarshalProvider(ps[s]))]
    BY <2>1 DEF UnmarshalProviders
  <2> QED
    BY <1>4, <2>2 DEF json
<1>6. \A s \in Names : UnmarshalProvider(MarshalProvider(ps[s])) = ps[s]
  <2> HIDE DEF Names
  <2> QED
    BY <1>1, <1>2, <1>3
<1>7. [s \in Names |-> UnmarshalProvider(MarshalProvider(ps[s]))] = [s \in Names |-> ps[s]]
  BY <1>6
<1>8. [s \in Names |-> ps[s]] = ps
  BY <1>1
<1> QED
  BY <1>5, <1>7, <1>8

(* The decoded providers match what Perform can translate. *)
LEMMA MatchingMeansPath ==
    ASSUME NEW stackMap, NEW arbitrary, arbitrary \cap (Preloaded \cup {Unparsable}) = {}, NEW r
    PROVE  LET ps == RootFSProviders(stackMap, arbitrary)
           IN  /\ MatchProviders(ps, r) => PathForRootFS(r, stackMap) # Error
               /\ r.scheme \in Preloaded =>
                     MatchProviders(ps, r) = (PathForRootFS(r, stackMap) # Error)
<1> DEFINE ps == RootFSProviders(stackMap, arbitrary)
<1>0. Unparsable \notin Preloaded
  BY DEF Unparsable, Preloaded
<1>1. CASE r.scheme \in Preloaded
  <2>1. ps[r.scheme] = FixedSet(DOMAIN stackMap) /\ r.scheme \in DOMAIN ps
    BY <1>1 DEF RootFSProviders
  <2>2. MatchProviders(ps, r) <=> r.opaque \in DOMAIN stackMap
    BY <2>1 DEF MatchProviders, FixedSet
  <2>3. r.opaque \in DOMAIN stackMap <=> PathForRootFS(r, stackMap) # Error
    BY <1>0, <1>1 DEF PathForRootFS, Error
  <2>4. MatchProviders(ps, r) \in BOOLEAN
    BY DEF MatchProviders
  <2> QED
    BY <2>2, <2>3, <2>4, Zenon
<1>2. CASE r.scheme \in arbitrary
  <2>1. r.scheme # Unparsable /\ r.scheme \notin Preloaded
    BY <1>2
  <2> QED
    BY <2>1 DEF PathForRootFS, Error
<1>3. CASE r.scheme \notin arbitrary \cup Preloaded
  BY <1>3, Zenon DEF MatchProviders, RootFSProviders
<1> QED
  BY <1>1, <1>2, <1>3

-----------------------------------------------------------------------------
(* Run requests.                                                           *)

(* What a run request has of the work it is for: the root file system is   *)
(* left out of the disk limit exactly if it is a preloaded one.            *)
LEMMA RunRequestFields ==
    ASSUME NEW work, NEW info, NEW ports, NEW tags, NEW run,
           run = RunRequest(work, info, ports, tags), run # Error
    PROVE  /\ run[1].info = info /\ run[1].ports = ports /\ run[1].tags = tags
           /\ run[1].scope = "exclusive" <=> work.rootfs.scheme = "preloaded"
<1> DEFINE scope  == DiskScopeForRootFS(work.rootfs)
           mounts == ConvertVolumeMounts(work.mounts)
           R      == [info |-> info, scope |-> scope[1], mounts |-> mounts[1],
                      ports |-> ports, tags |-> tags]
<1>1. scope # Error /\ run = <<R>>
  BY Zenon DEF RunRequest
<1>2. scope[1] = "exclusive" <=> work.rootfs.scheme = "preloaded"
  BY <1>1 DEF DiskScopeForRootFS, Error
<1>3. R.info = info /\ R.ports = ports /\ R.tags = tags /\ R.scope = scope[1]
  OBVIOUS
<1> HIDE DEF R, scope
<1>4. run[1] = R
  BY <1>1
<1> QED
  BY <1>2, <1>3, <1>4, Zenon

(* Exactly a preloaded root file system is replaced by a path alone. *)
LEMMA PathAlone ==
    ASSUME NEW rootfs, NEW stackMap, NEW path, PathForRootFS(rootfs, stackMap) = <<path>>
    PROVE  rootfs.scheme = "preloaded" <=> path.scheme = "" /\ rootfs.scheme \in Preloaded
<1>1. CASE rootfs.scheme \in Preloaded
  <2> DEFINE scheme == IF rootfs.scheme = "preloaded" THEN "" ELSE rootfs.scheme
             given  == [scheme |-> scheme, path |-> stackMap[rootfs.opaque]]
  <2>1. <<path>> # Error
    BY DEF Error
  <2>2. <<path>> = <<given>>
    BY <1>1, <2>1, Zenon DEF PathForRootFS
  <2>3. given.scheme = scheme
    OBVIOUS
  <2> HIDE DEF given
  <2>4. path = given
    BY <2>2
  <2> QED
    BY <1>1, <2>3, <2>4, Zenon DEF Preloaded
<1>2. CASE rootfs.scheme \notin Preloaded
  BY <1>2, Zenon DEF Preloaded
<1> QED
  BY <1>1, <1>2, Zenon

(* What uint16 leaves of a number. *)
Port == {p \in Nat : p < 65536}

(* A port of 16 bits is its own remainder, *)
LEMMA PortRemains == \A p \in Port : p % 65536 = p
BY DEF Port

(* and the conversion of such ports keeps them as they are. *)
LEMMA PortsKept == ASSUME NEW ports \in Seq(Port) PROVE ConvertPortMappings(ports) = ports
<1>1. \A i \in DOMAIN ports : ports[i] \in Port
  OBVIOUS
<1>2. ports = [i \in DOMAIN ports |-> ports[i]]
  OBVIOUS
<1> QED
  BY <1>1, <1>2, PortRemains DEF ConvertPortMappings
=============================================================================
