---------------------------- MODULE SumTheorems ----------------------------
(***************************************************************************)
(* Sums over finite sets and over sequences, for every number of terms.    *)
(* The models add up the rows of a table with SumFunction; the proof       *)
(* modules cite the facts below.  They are proved by an induction that     *)
(* takes the property as a set, which the pigeonhole facts of              *)
(* FiniteSetTheorems yield: the induction theorems of the library take it  *)
(* as an operator.                                                         *)
(***************************************************************************)
EXTENDS Integers, Sequences, FiniteSets, Functions, FiniteSetTheorems,
        FunctionTheorems, SequenceTheorems, TLAPS

(* Induction on the natural numbers, for a set instead of a predicate.  If a*)
(* number n were missing, adding one would map the members up to n into    *)
(* themselves, one to one; a finite set admits that only onto itself, and  *)
(* nothing maps to 0.                                                      *)
LEMMA Induction ==
    ASSUME NEW P, 0 \in P, \A n \in Nat : n \in P => n + 1 \in P
    PROVE  \A n \in Nat : n \in P
  <1> SUFFICES ASSUME NEW n \in Nat, n \notin P PROVE FALSE
    OBVIOUS
  <1> DEFINE A == {i \in 0..n : i \in P}
  <1> DEFINE f == [i \in A |-> i + 1]
  <1>1. IsFiniteSet(A)
    <2>1. IsFiniteSet(0..n) BY FS_Interval
    <2> QED BY <2>1, FS_Subset
  <1>2. f \in [A -> A]
    <2> SUFFICES ASSUME NEW i \in A PROVE i + 1 \in A
      OBVIOUS
    <2>1. i \in Nat /\ i <= n /\ i \in P /\ i # n OBVIOUS
    <2>2. i + 1 \in P BY <2>1
    <2> QED BY <2>1, <2>2
  <1>3. \A i, j \in A : f[i] = f[j] => i = j
    OBVIOUS
  <1>4. f \in Injection(A, A)
    BY <1>2, <1>3, Fun_IsInj
  <1>5. f \in Surjection(A, A)
    BY <1>1, <1>4, FS_Injection
  <1>6. 0 \in A
    OBVIOUS
  <1>7. \E i \in A : f[i] = 0
    BY <1>5, <1>6, Fun_IsSurj DEF Surjection
  <1> QED BY <1>7

(* Induction on a finite set: what holds of the empty set and is kept when *)
(* one more element is added holds of the whole set.                       *)
LEMMA SubsetInduction ==
    ASSUME NEW S, IsFiniteSet(S), NEW P, {} \in P,
           \A T \in SUBSET S : \A x \in S \ T : T \in P => T \cup {x} \in P
    PROVE  S \in P
  <1> DEFINE Q == {n \in Nat : \A T \in SUBSET S : Cardinality(T) = n => T \in P}
  <1>0. \A T \in SUBSET S : IsFiniteSet(T) /\ Cardinality(T) \in Nat
    BY FS_Subset, FS_CardinalityType
  <1>1. 0 \in Q
    BY <1>0, FS_EmptySet
  <1>2. ASSUME NEW n \in Nat, n \in Q PROVE n + 1 \in Q
    <2> SUFFICES ASSUME NEW T \in SUBSET S, Cardinality(T) = n + 1 PROVE T \in P
      OBVIOUS
    <2>1. T # {}
      <3>1. n + 1 # 0 OBVIOUS
      <3> QED BY <3>1, FS_EmptySet
    <2>2. PICK x \in T : TRUE BY <2>1
    <2>3. T \ {x} \in SUBSET S OBVIOUS
    <2>4. Cardinality(T \ {x}) = n
      <3>1. IsFiniteSet(T) BY <1>0
      <3>2. Cardinality(T \ {x}) = Cardinality(T) - 1 BY <3>1, FS_RemoveElement
      <3> QED BY <3>2
    <2>5. T \ {x} \in P BY <1>2, <2>3, <2>4
    <2>6. (T \ {x}) \cup {x} = T OBVIOUS
    <2>7. x \in S \ (T \ {x}) OBVIOUS
    <2> QED BY <2>3, <2>5, <2>6, <2>7
  <1>3. \A n \in Nat : n \in Q
    <2> HIDE DEF Q
    <2> QED BY <1>1, <1>2, Induction
  <1> QED BY <1>0, <1>3

(* The element a sum takes first, and the equation the sums over the       *)
(* subsets of S satisfy.                                                   *)
PickIn(T) == CHOOSE x \in T : TRUE
SumRule(f, g, S) ==
    \A T \in SUBSET S :
      g[T] = IF T = {} THEN 0 ELSE f[PickIn(T)] + g[T \ {PickIn(T)}]

(* What the definition of SumFunctionOnSet says: a function chosen because *)
(* it satisfies its own equation.                                          *)
LEMMA SumAsChoice ==
    ASSUME NEW f, NEW S
    PROVE  SumFunctionOnSet(f, S)
             = (CHOOSE g : g = [T \in SUBSET S |->
                                 IF T = {} THEN 0
                                   ELSE f[PickIn(T)] + g[T \ {PickIn(T)}]])[S]
  BY DEF SumFunctionOnSet, FoldFunctionOnSet, MapThenFoldSet, PickIn

(* Such a function exists when the set is finite: from one that satisfies  *)
(* the equation on the subsets of n elements follows one for n + 1.        *)
LEMMA SumRuleHolds ==
    ASSUME NEW f, NEW S, IsFiniteSet(S)
    PROVE  \E g : SumRule(f, g, S) /\ g[S] = SumFunctionOnSet(f, S)
  <1> DEFINE Body(g, T) == IF T = {} THEN 0 ELSE f[PickIn(T)] + g[T \ {PickIn(T)}]
  <1> DEFINE P == {n \in Nat :
                     \E g : \A T \in SUBSET S : Cardinality(T) <= n => g[T] = Body(g, T)}
  <1>0. \A T \in SUBSET S : IsFiniteSet(T) /\ Cardinality(T) \in Nat
    BY FS_Subset, FS_CardinalityType
  <1>p. \A T \in SUBSET S : T # {} => PickIn(T) \in T
    BY DEF PickIn
  <1>1. 0 \in P
    <2> DEFINE g == [T \in SUBSET S |-> 0]
    <2>1. \A T \in SUBSET S : Cardinality(T) <= 0 => T = {}
      BY <1>0, FS_EmptySet
    <2>2. \A T \in SUBSET S : Cardinality(T) <= 0 => g[T] = Body(g, T)
      BY <2>1
    <2> QED BY <2>2
  <1>2. ASSUME NEW n \in Nat, n \in P PROVE n + 1 \in P
    <2>1. PICK g : \A T \in SUBSET S : Cardinality(T) <= n => g[T] = Body(g, T)
      BY <1>2
    <2> DEFINE h == [T \in SUBSET S |-> IF Cardinality(T) <= n THEN g[T] ELSE Body(g, T)]
    <2>2. ASSUME NEW T \in SUBSET S, Cardinality(T) <= n + 1
          PROVE  h[T] = Body(h, T)
      <3>1. h[T] = Body(g, T)
        BY <2>1
      <3>2. CASE T = {}
        BY <3>1, <3>2
      <3>3. CASE T # {}
        <4> DEFINE U == T \ {PickIn(T)}
        <4>1. U \in SUBSET S /\ Cardinality(U) <= n
          BY <3>3, <1>0, <1>p, <2>2, FS_RemoveElement
        <4>2. h[U] = g[U]
          BY <4>1
        <4> QED BY <3>1, <3>3, <4>2
      <3> QED BY <3>2, <3>3
    <2>3. \E e : \A T \in SUBSET S : Cardinality(T) <= n + 1 => e[T] = Body(e, T)
      <3> HIDE DEF h
      <3> QED BY <2>2
    <2>4. n + 1 \in Nat
      OBVIOUS
    <2> QED BY <2>3, <2>4, Zenon
  <1>3. Cardinality(S) \in P
    <2> HIDE DEF P
    <2> QED BY <1>0, <1>1, <1>2, Induction
  <1>4. PICK g : \A T \in SUBSET S : Cardinality(T) <= Cardinality(S) => g[T] = Body(g, T)
    BY <1>3
  <1>5. \A T \in SUBSET S : g[T] = Body(g, T)
    BY <1>0, <1>4, FS_Subset
  <1> DEFINE h == [T \in SUBSET S |-> g[T]]
  <1>6. h = [T \in SUBSET S |-> Body(h, T)]
    <2>1. \A T \in SUBSET S : Body(h, T) = Body(g, T)
      OBVIOUS
    <2> QED BY <1>5, <2>1
  <1>7. \E e : e = [T \in SUBSET S |-> Body(e, T)]
    <2> HIDE DEF h
    <2> QED BY <1>6
  <1> DEFINE c == CHOOSE e : e = [T \in SUBSET S |-> Body(e, T)]
  <1>8. c = [T \in SUBSET S |-> Body(c, T)]
    BY <1>7
  <1>9. c[S] = SumFunctionOnSet(f, S)
    BY SumAsChoice
  <1>10. SumRule(f, c, S)
    <2> HIDE DEF c
    <2> QED BY <1>8 DEF SumRule
  <1> QED BY <1>9, <1>10

(* Two functions with the equation agree on the set.                       *)
LEMMA SumRuleUnique ==
    ASSUME NEW f, NEW S, IsFiniteSet(S), NEW g, NEW h, SumRule(f, g, S), SumRule(f, h, S)
    PROVE  g[S] = h[S]
  <1> DEFINE Q == {n \in Nat : \A T \in SUBSET S : Cardinality(T) = n => g[T] = h[T]}
  <1>0. \A T \in SUBSET S : IsFiniteSet(T) /\ Cardinality(T) \in Nat
    BY FS_Subset, FS_CardinalityType
  <1>1. 0 \in Q
    BY <1>0, FS_EmptySet DEF SumRule
  <1>2. ASSUME NEW n \in Nat, n \in Q PROVE n + 1 \in Q
    <2> SUFFICES ASSUME NEW T \in SUBSET S, Cardinality(T) = n + 1 PROVE g[T] = h[T]
      OBVIOUS
    <2> DEFINE U == T \ {PickIn(T)}
    <2>1. T # {} BY FS_EmptySet
    <2>2. PickIn(T) \in T BY <2>1 DEF PickIn
    <2>3. U \in SUBSET S /\ Cardinality(U) = n
      <3>1. IsFiniteSet(T) BY <1>0
      <3>2. Cardinality(U) = Cardinality(T) - 1 BY <2>2, <3>1, FS_RemoveElement
      <3> QED BY <3>2
    <2>4. g[U] = h[U] BY <1>2, <2>3
    <2>5. g[T] = f[PickIn(T)] + g[U] /\ h[T] = f[PickIn(T)] + h[U] BY <2>1 DEF SumRule
    <2> QED BY <2>4, <2>5
  <1>3. \A n \in Nat : n \in Q
    <2> HIDE DEF Q
    <2> QED BY <1>1, <1>2, Induction
  <1> QED BY <1>0, <1>3

(* The sum over nothing, and the sum over something, by the element taken  *)
(* first.                                                                  *)
LEMMA SumEmpty ==
    ASSUME NEW f
    PROVE  SumFunctionOnSet(f, {}) = 0
  <1>1. PICK g : SumRule(f, g, {}) /\ g[{}] = SumFunctionOnSet(f, {})
    BY SumRuleHolds, FS_EmptySet
  <1> QED BY <1>1 DEF SumRule

LEMMA SumPicked ==
    ASSUME NEW f, NEW S, IsFiniteSet(S), S # {}
    PROVE  /\ PickIn(S) \in S
           /\ SumFunctionOnSet(f, S) = f[PickIn(S)] + SumFunctionOnSet(f, S \ {PickIn(S)})
  <1> DEFINE U == S \ {PickIn(S)}
  <1>1. PickIn(S) \in S BY DEF PickIn
  <1>2. IsFiniteSet(U) BY FS_Subset
  <1>3. PICK g : SumRule(f, g, S) /\ g[S] = SumFunctionOnSet(f, S)
    BY SumRuleHolds
  <1>4. PICK h : SumRule(f, h, U) /\ h[U] = SumFunctionOnSet(f, U)
    BY <1>2, SumRuleHolds
  <1>5. SumRule(f, g, U) BY <1>3 DEF SumRule
  <1>6. g[U] = h[U] BY <1>2, <1>4, <1>5, SumRuleUnique
  <1>7. g[S] = f[PickIn(S)] + g[U] BY <1>3 DEF SumRule
  <1> QED BY <1>1, <1>3, <1>4, <1>6, <1>7

(* A sum of integers is an integer, and one of natural numbers is natural. *)
LEMMA SumInt ==
    ASSUME NEW S, IsFiniteSet(S), NEW f, \A x \in S : f[x] \in Int
    PROVE  SumFunctionOnSet(f, S) \in Int
  <1> DEFINE Sum(T) == SumFunctionOnSet(f, T)
  <1> DEFINE Q == {n \in Nat : \A T \in SUBSET S : Cardinality(T) = n => Sum(T) \in Int}
  <1>0. \A T \in SUBSET S : IsFiniteSet(T) /\ Cardinality(T) \in Nat
    BY FS_Subset, FS_CardinalityType
  <1>1. 0 \in Q
    <2> SUFFICES ASSUME NEW T \in SUBSET S, Cardinality(T) = 0 PROVE Sum(T) \in Int
      OBVIOUS
    <2>1. T = {} BY <1>0, FS_EmptySet
    <2> QED BY <2>1, SumEmpty
  <1>2. ASSUME NEW n \in Nat, n \in Q PROVE n + 1 \in Q
    <2> SUFFICES ASSUME NEW T \in SUBSET S, Cardinality(T) = n + 1 PROVE Sum(T) \in Int
      OBVIOUS
    <2> DEFINE p == PickIn(T)
    <2>1. IsFiniteSet(T) BY <1>0
    <2>2. T # {}
      <3>1. n + 1 # 0 OBVIOUS
      <3> QED BY <3>1, FS_EmptySet
    <2>3. p \in T /\ Sum(T) = f[p] + Sum(T \ {p}) BY <2>1, <2>2, SumPicked
    <2>4. Cardinality(T \ {p}) = Cardinality(T) - 1 BY <2>1, <2>3, FS_RemoveElement
    <2>5. Sum(T \ {p}) \in Int BY <1>2, <2>4
    <2>6. f[p] \in Int BY <2>3
    <2> HIDE DEF p, Sum
    <2> QED BY <2>3, <2>5, <2>6
  <1>3. \A n \in Nat : n \in Q
    <2> HIDE DEF Q
    <2> QED BY <1>1, <1>2, Induction
  <1> QED BY <1>0, <1>3

LEMMA SumNat ==
    ASSUME NEW S, IsFiniteSet(S), NEW f, \A x \in S : f[x] \in Nat
    PROVE  SumFunctionOnSet(f, S) \in Nat
  <1> DEFINE Sum(T) == SumFunctionOnSet(f, T)
  <1> DEFINE Q == {n \in Nat : \A T \in SUBSET S : Cardinality(T) = n => Sum(T) \in Nat}
  <1>0. \A T \in SUBSET S : IsFiniteSet(T) /\ Cardinality(T) \in Nat
    BY FS_Subset, FS_CardinalityType
  <1>1. 0 \in Q
    <2> SUFFICES ASSUME NEW T \in SUBSET S, Cardinality(T) = 0 PROVE Sum(T) \in Nat
      OBVIOUS
    <2>1. T = {} BY <1>0, FS_EmptySet
    <2> QED BY <2>1, SumEmpty
  <1>2. ASSUME NEW n \in Nat, n \in Q PROVE n + 1 \in Q
    <2> SUFFICES ASSUME NEW T \in SUBSET S, Cardinality(T) = n + 1 PROVE Sum(T) \in Nat
      OBVIOUS
    <2> DEFINE p == PickIn(T)
    <2>1. IsFiniteSet(T) BY <1>0
    <2>2. T # {}
      <3>1. n + 1 # 0 OBVIOUS
      <3> QED BY <3>1, FS_EmptySet
    <2>3. p \in T /\ Sum(T) = f[p] + Sum(T \ {p}) BY <2>1, <2>2, SumPicked
    <2>4. Cardinality(T \ {p}) = Cardinality(T) - 1 BY <2>1, <2>3, FS_RemoveElement
    <2>5. Sum(T \ {p}) \in Nat BY <1>2, <2>4
    <2>6. f[p] \in Nat BY <2>3
    <2> HIDE DEF p, Sum
    <2> QED BY <2>3, <2>5, <2>6
  <1>3. \A n \in Nat : n \in Q
    <2> HIDE DEF Q
    <2> QED BY <1>1, <1>2, Induction
  <1> QED BY <1>0, <1>3

(* Any element may be taken out first, since addition commutes.            *)
LEMMA SumRemove ==
    ASSUME NEW S, IsFiniteSet(S), NEW f, \A x \in S : f[x] \in Int
    PROVE  /\ SumFunctionOnSet(f, S) \in Int
           /\ \A x \in S : SumFunctionOnSet(f, S) = f[x] + SumFunctionOnSet(f, S \ {x})
  <1> DEFINE Sum(T) == SumFunctionOnSet(f, T)
  <1> DEFINE Good(T) == Sum(T) \in Int /\ \A x \in T : Sum(T) = f[x] + Sum(T \ {x})
  <1> DEFINE Q == {n \in Nat : \A T \in SUBSET S : Cardinality(T) = n => Good(T)}
  <1>0. \A T \in SUBSET S : IsFiniteSet(T) /\ Cardinality(T) \in Nat
    BY FS_Subset, FS_CardinalityType
  <1>1. 0 \in Q
    <2> SUFFICES ASSUME NEW T \in SUBSET S, Cardinality(T) = 0 PROVE Good(T)
      OBVIOUS
    <2>1. T = {} BY <1>0, FS_EmptySet
    <2> QED BY <2>1, SumEmpty
  <1>2. ASSUME NEW n \in Nat, n \in Q PROVE n + 1 \in Q
    <2> SUFFICES ASSUME NEW T \in SUBSET S, Cardinality(T) = n + 1 PROVE Good(T)
      OBVIOUS
    <2> DEFINE p == PickIn(T)
    <2>1. T # {}
      <3>1. n + 1 # 0 OBVIOUS
      <3> QED BY <3>1, FS_EmptySet
    <2>2. IsFiniteSet(T) BY <1>0
    <2>3. p \in T /\ Sum(T) = f[p] + Sum(T \ {p}) BY <2>1, <2>2, SumPicked
    <2>4. \A x \in T : T \ {x} \in SUBSET S /\ Cardinality(T \ {x}) = n
      <3> SUFFICES ASSUME NEW x \in T PROVE Cardinality(T \ {x}) = n
        OBVIOUS
      <3>1. Cardinality(T \ {x}) = Cardinality(T) - 1 BY <2>2, FS_RemoveElement
      <3> QED BY <3>1
    <2>5. \A x \in T : Good(T \ {x})
      <3> HIDE DEF Good
      <3> QED BY <1>2, <2>4
    <2>6. Sum(T) \in Int
      <3>1. f[p] \in Int /\ Sum(T \ {p}) \in Int BY <2>3, <2>5
      <3> HIDE DEF p, Sum
      <3> QED BY <2>3, <3>1
    <2>7. ASSUME NEW x \in T PROVE Sum(T) = f[x] + Sum(T \ {x})
      <3>1. CASE x = p BY <2>3, <3>1
      <3>2. CASE x # p
        <4> DEFINE U == (T \ {p}) \ {x}
        <4>1. x \in T \ {p} /\ p \in T \ {x} BY <2>3, <3>2
        <4>2. Sum(T \ {p}) = f[x] + Sum(U) BY <2>3, <2>5, <4>1
        <4>3. (T \ {x}) \ {p} = U OBVIOUS
        <4>4. Sum(T \ {x}) = f[p] + Sum(U) BY <2>5, <4>1, <4>3
        <4>5. f[x] \in Int /\ f[p] \in Int BY <2>3
        <4>6. Sum(U) \in Int
          <5>1. IsFiniteSet(U) BY <1>0
          <5>2. \A y \in U : f[y] \in Int OBVIOUS
          <5> QED BY <5>1, <5>2, SumInt
        <4> HIDE DEF p, Sum, U
        <4> QED BY <2>3, <4>2, <4>4, <4>5, <4>6
      <3> QED BY <3>1, <3>2
    <2> QED BY <2>6, <2>7
  <1>3. \A n \in Nat : n \in Q
    <2> HIDE DEF Q
    <2> QED BY <1>1, <1>2, Induction
  <1>4. Good(S)
    <2> HIDE DEF Good
    <2> QED BY <1>0, <1>3
  <1> QED BY <1>4
LEMMA SumAdd ==
    ASSUME NEW S, IsFiniteSet(S), NEW x, x \notin S,
           NEW f, \A y \in S \cup {x} : f[y] \in Int
    PROVE  SumFunctionOnSet(f, S \cup {x}) = f[x] + SumFunctionOnSet(f, S)
  <1>1. IsFiniteSet(S \cup {x}) BY FS_AddElement
  <1>2. (S \cup {x}) \ {x} = S OBVIOUS
  <1>3. x \in S \cup {x} OBVIOUS
  <1> QED BY <1>1, <1>2, <1>3, SumRemove

(* A sum depends only on the values over its set.                          *)
LEMMA SumSame ==
    ASSUME NEW S, IsFiniteSet(S), NEW f, NEW g,
           \A x \in S : f[x] = g[x] /\ f[x] \in Int
    PROVE  SumFunctionOnSet(f, S) = SumFunctionOnSet(g, S)
  <1> DEFINE P == {T \in SUBSET S : SumFunctionOnSet(f, T) = SumFunctionOnSet(g, T)}
  <1>1. {} \in P BY SumEmpty
  <1>2. ASSUME NEW T \in SUBSET S, NEW x \in S \ T, T \in P PROVE T \cup {x} \in P
    <2>1. IsFiniteSet(T) BY FS_Subset
    <2>2. SumFunctionOnSet(f, T \cup {x}) = f[x] + SumFunctionOnSet(f, T)
      BY <2>1, SumAdd
    <2>3. SumFunctionOnSet(g, T \cup {x}) = g[x] + SumFunctionOnSet(g, T)
      BY <2>1, SumAdd
    <2> QED BY <1>2, <2>2, <2>3
  <1>3. S \in P
    <2> HIDE DEF P
    <2> QED BY <1>1, <1>2, SubsetInduction
  <1> QED BY <1>3

(* A sum over two disjoint sets is the sum of the sums.                    *)
LEMMA SumUnion ==
    ASSUME NEW S, IsFiniteSet(S), NEW R, IsFiniteSet(R), S \cap R = {},
           NEW f, \A x \in S \cup R : f[x] \in Int
    PROVE  SumFunctionOnSet(f, S \cup R) = SumFunctionOnSet(f, S) + SumFunctionOnSet(f, R)
  <1> DEFINE Sum(T) == SumFunctionOnSet(f, T)
  <1> DEFINE P == {T \in SUBSET R : Sum(S \cup T) = Sum(S) + Sum(T)}
  <1>0. Sum(S) \in Int BY SumInt
  <1>1. {} \in P
    <2>1. S \cup {} = S OBVIOUS
    <2> QED BY <1>0, <2>1, SumEmpty
  <1>2. ASSUME NEW T \in SUBSET R, NEW x \in R \ T, T \in P PROVE T \cup {x} \in P
    <2>1. IsFiniteSet(T) /\ IsFiniteSet(S \cup T) BY FS_Subset, FS_Union
    <2>2. Sum(T \cup {x}) = f[x] + Sum(T)
      BY <2>1, SumAdd
    <2>3. Sum((S \cup T) \cup {x}) = f[x] + Sum(S \cup T)
      <3>1. x \notin S \cup T OBVIOUS
      <3> QED BY <2>1, <3>1, SumAdd
    <2>4. (S \cup T) \cup {x} = S \cup (T \cup {x}) OBVIOUS
    <2>5. Sum(T) \in Int BY <2>1, SumInt
    <2>6. f[x] \in Int OBVIOUS
    <2>7. Sum(S \cup T) = Sum(S) + Sum(T) BY <1>2
    <2>8. Sum(S \cup (T \cup {x})) = Sum(S) + Sum(T \cup {x})
      <3>1. \A a, b, c \in Int : c + (a + b) = a + (c + b) OBVIOUS
      <3>2. Sum(S \cup (T \cup {x})) = f[x] + (Sum(S) + Sum(T))
        BY <2>3, <2>4, <2>7
      <3>3. f[x] + (Sum(S) + Sum(T)) = Sum(S) + (f[x] + Sum(T))
        BY <1>0, <2>5, <2>6, <3>1
      <3> QED BY <2>2, <3>2, <3>3
    <2> QED BY <2>8
  <1>3. R \in P
    <2> HIDE DEF P
    <2> QED BY <1>1, <1>2, SubsetInduction
  <1> QED BY <1>3

(* When one value changes the sum changes by as much.                      *)
LEMMA SumChange ==
    ASSUME NEW S, IsFiniteSet(S), NEW k \in S, NEW f, NEW g,
           \A x \in S : f[x] \in Int, g[k] \in Int,
           \A x \in S \ {k} : f[x] = g[x]
    PROVE  SumFunctionOnSet(g, S) = SumFunctionOnSet(f, S) - f[k] + g[k]
  <1>1. IsFiniteSet(S \ {k}) BY FS_Subset
  <1>2. SumFunctionOnSet(f, S \ {k}) = SumFunctionOnSet(g, S \ {k}) BY <1>1, SumSame
  <1>3. SumFunctionOnSet(f, S) = f[k] + SumFunctionOnSet(f, S \ {k}) BY SumRemove
  <1>4. SumFunctionOnSet(g, S) = g[k] + SumFunctionOnSet(g, S \ {k})
    <2>1. \A x \in S : g[x] \in Int OBVIOUS
    <2> QED BY <2>1, SumRemove
  <1>5. SumFunctionOnSet(f, S \ {k}) \in Int BY <1>1, SumInt
  <1>6. f[k] \in Int OBVIOUS
  <1> QED BY <1>2, <1>3, <1>4, <1>5, <1>6

(* Sums keep the order of their values.                                    *)
LEMMA SumBelow ==
    ASSUME NEW S, IsFiniteSet(S), NEW f, NEW g,
           \A x \in S : f[x] \in Int /\ g[x] \in Int /\ f[x] <= g[x]
    PROVE  SumFunctionOnSet(f, S) <= SumFunctionOnSet(g, S)
  <1> DEFINE P == {T \in SUBSET S : SumFunctionOnSet(f, T) <= SumFunctionOnSet(g, T)}
  <1>1. {} \in P BY SumEmpty
  <1>2. ASSUME NEW T \in SUBSET S, NEW x \in S \ T, T \in P PROVE T \cup {x} \in P
    <2>1. IsFiniteSet(T) BY FS_Subset
    <2>2. SumFunctionOnSet(f, T \cup {x}) = f[x] + SumFunctionOnSet(f, T)
      BY <2>1, SumAdd
    <2>3. SumFunctionOnSet(g, T \cup {x}) = g[x] + SumFunctionOnSet(g, T)
      BY <2>1, SumAdd
    <2>4. SumFunctionOnSet(f, T) \in Int /\ SumFunctionOnSet(g, T) \in Int BY <2>1, SumInt
    <2>5. f[x] \in Int /\ g[x] \in Int /\ f[x] <= g[x] OBVIOUS
    <2>6. SumFunctionOnSet(f, T \cup {x}) <= SumFunctionOnSet(g, T \cup {x})
      BY <1>2, <2>2, <2>3, <2>4, <2>5
    <2> QED BY <2>6
  <1>3. S \in P
    <2> HIDE DEF P
    <2> QED BY <1>1, <1>2, SubsetInduction
  <1> QED BY <1>3

(* Two sums are as far apart as their values, over the set where these     *)
(* differ.                                                                 *)
LEMMA SumNear ==
    ASSUME NEW S, IsFiniteSet(S), NEW B, B \subseteq S, NEW u \in Nat, NEW f, NEW g,
           \A x \in S : f[x] \in Int /\ g[x] \in Int,
           \A x \in B : 2 * (f[x] - g[x]) <= u,
           \A x \in S \ B : f[x] <= g[x]
    PROVE  2 * (SumFunctionOnSet(f, S) - SumFunctionOnSet(g, S)) <= u * Cardinality(B)
  <1> DEFINE F(T) == SumFunctionOnSet(f, T)
             G(T) == SumFunctionOnSet(g, T)
             n(T) == Cardinality(T \cap B)
  <1> DEFINE P == {T \in SUBSET S : 2 * (F(T) - G(T)) <= u * n(T)}
  <1>1. {} \in P
    <2>1. F({}) = 0 /\ G({}) = 0 /\ n({}) = 0
      <3>1. {} \cap B = {} OBVIOUS
      <3> QED BY <3>1, SumEmpty, FS_EmptySet
    <2> HIDE DEF F, G, n
    <2> QED BY <2>1
  <1>2. ASSUME NEW T \in SUBSET S, NEW x \in S \ T, T \in P PROVE T \cup {x} \in P
    <2>1. IsFiniteSet(T) /\ IsFiniteSet(T \cap B) BY FS_Subset
    <2>2. F(T \cup {x}) = f[x] + F(T)
      BY <2>1, SumAdd
    <2>3. G(T \cup {x}) = g[x] + G(T)
      BY <2>1, SumAdd
    <2>4. F(T) \in Int /\ G(T) \in Int BY <2>1, SumInt
    <2>5. f[x] \in Int /\ g[x] \in Int OBVIOUS
    <2>6. n(T) \in Nat BY <2>1, FS_CardinalityType
    <2>7. 2 * (F(T) - G(T)) <= u * n(T) BY <1>2
    <2>8. CASE x \in B
      <3>1. (T \cup {x}) \cap B = (T \cap B) \cup {x} /\ x \notin T \cap B BY <2>8
      <3>2. n(T \cup {x}) = n(T) + 1 BY <2>1, <3>1, FS_AddElement
      <3>3. 2 * (f[x] - g[x]) <= u BY <2>8
      <3> HIDE DEF F, G, n
      <3>4. u * (n(T) + 1) = u * n(T) + u /\ u * n(T) \in Int BY <2>6
      <3> QED BY <2>2, <2>3, <2>4, <2>5, <2>7, <3>2, <3>3, <3>4
    <2>9. CASE x \notin B
      <3>1. (T \cup {x}) \cap B = T \cap B BY <2>9
      <3>2. n(T \cup {x}) = n(T) BY <3>1
      <3>3. f[x] <= g[x] BY <2>9
      <3> HIDE DEF F, G, n
      <3>4. u * n(T) \in Int BY <2>6
      <3> QED BY <2>2, <2>3, <2>4, <2>5, <2>7, <3>2, <3>3, <3>4
    <2> QED BY <2>8, <2>9
  <1>3. S \in P
    <2> HIDE DEF P
    <2> QED BY <1>1, <1>2, SubsetInduction
  <1>4. S \cap B = B OBVIOUS
  <1> QED BY <1>3, <1>4

(* The sum of sums taken value by value.                                   *)
LEMMA SumPlus ==
    ASSUME NEW S, IsFiniteSet(S), NEW f, NEW g, NEW h,
           \A x \in S : f[x] \in Int /\ g[x] \in Int /\ h[x] = f[x] + g[x]
    PROVE  SumFunctionOnSet(h, S) = SumFunctionOnSet(f, S) + SumFunctionOnSet(g, S)
  <1> DEFINE P == {T \in SUBSET S : SumFunctionOnSet(h, T)
                                       = SumFunctionOnSet(f, T) + SumFunctionOnSet(g, T)}
  <1>1. {} \in P BY SumEmpty
  <1>2. ASSUME NEW T \in SUBSET S, NEW x \in S \ T, T \in P PROVE T \cup {x} \in P
    <2>1. IsFiniteSet(T) BY FS_Subset
    <2>2. SumFunctionOnSet(f, T \cup {x}) = f[x] + SumFunctionOnSet(f, T)
      BY <2>1, SumAdd
    <2>3. SumFunctionOnSet(g, T \cup {x}) = g[x] + SumFunctionOnSet(g, T)
      BY <2>1, SumAdd
    <2>4. SumFunctionOnSet(h, T \cup {x}) = h[x] + SumFunctionOnSet(h, T)
      <3>1. \A y \in T \cup {x} : h[y] \in Int OBVIOUS
      <3> QED BY <2>1, <3>1, SumAdd
    <2>5. SumFunctionOnSet(f, T) \in Int /\ SumFunctionOnSet(g, T) \in Int BY <2>1, SumInt
    <2>6. f[x] \in Int /\ g[x] \in Int /\ h[x] = f[x] + g[x] OBVIOUS
    <2>7. SumFunctionOnSet(h, T \cup {x})
            = SumFunctionOnSet(f, T \cup {x}) + SumFunctionOnSet(g, T \cup {x})
      BY <1>2, <2>2, <2>3, <2>4, <2>5, <2>6
    <2> QED BY <2>7
  <1>3. S \in P
    <2> HIDE DEF P
    <2> QED BY <1>1, <1>2, SubsetInduction
  <1> QED BY <1>3

(* A sum of equal values.                                                  *)
LEMMA SumConstant ==
    ASSUME NEW S, IsFiniteSet(S), NEW f, NEW c \in Int, \A x \in S : f[x] = c
    PROVE  SumFunctionOnSet(f, S) = Cardinality(S) * c
  <1> DEFINE P == {T \in SUBSET S : SumFunctionOnSet(f, T) = Cardinality(T) * c}
  <1>1. {} \in P BY SumEmpty, FS_EmptySet
  <1>2. ASSUME NEW T \in SUBSET S, NEW x \in S \ T, T \in P PROVE T \cup {x} \in P
    <2>1. IsFiniteSet(T) BY FS_Subset
    <2>2. SumFunctionOnSet(f, T \cup {x}) = c + SumFunctionOnSet(f, T)
      <3>1. \A y \in T \cup {x} : f[y] \in Int OBVIOUS
      <3>2. f[x] = c OBVIOUS
      <3> QED BY <2>1, <3>1, <3>2, SumAdd
    <2>3. Cardinality(T \cup {x}) = Cardinality(T) + 1 /\ Cardinality(T) \in Nat
      BY <2>1, FS_AddElement, FS_CardinalityType
    <2>4. \A a \in Nat : c + a * c = (a + 1) * c
      OBVIOUS
    <2>5. SumFunctionOnSet(f, T \cup {x}) = Cardinality(T \cup {x}) * c
      BY <1>2, <2>2, <2>3, <2>4
    <2> QED BY <2>5
  <1>3. S \in P
    <2> HIDE DEF P
    <2> QED BY <1>1, <1>2, SubsetInduction
  <1> QED BY <1>3

(* The sum over a sequence joined from two.                                *)
LEMMA SumConcat ==
    ASSUME NEW s \in Seq(Int), NEW t \in Seq(Int)
    PROVE  SumFunction(s \o t) = SumFunction(s) + SumFunction(t)
  <1> DEFINE m == Len(s)
             n == Len(t)
             u == s \o t
             Sum(f, k) == SumFunctionOnSet(f, 1 .. k)
  <1>1. m \in Nat /\ n \in Nat OBVIOUS
  <1>2. DOMAIN s = 1 .. m /\ DOMAIN t = 1 .. n /\ DOMAIN u = 1 .. (m + n) OBVIOUS
  <1>3. \A k \in 1 .. m : u[k] = s[k] /\ s[k] \in Int OBVIOUS
  <1>4. \A k \in 1 .. n : u[m + k] = t[k] /\ t[k] \in Int OBVIOUS
  <1>5. \A k \in 1 .. (m + n) : u[k] \in Int
    <2>1. u \in Seq(Int) /\ Len(u) = m + n OBVIOUS
    <2> QED BY <2>1
  <1> DEFINE P == {k \in Nat : k <= n => Sum(u, m + k) = Sum(s, m) + Sum(t, k)}
  <1> HIDE DEF m, n, u
  <1>6. Sum(s, m) \in Int
    <2>1. IsFiniteSet(1 .. m) BY <1>1, FS_Interval
    <2> QED BY <1>3, <2>1, SumInt
  <1>7. 0 \in P
    <2>1. Sum(u, m) = Sum(s, m)
      <3>1. IsFiniteSet(1 .. m) BY <1>1, FS_Interval
      <3> QED BY <1>3, <3>1, SumSame
    <2>2. Sum(t, 0) = 0
      <3>1. 1 .. 0 = {} OBVIOUS
      <3> QED BY <3>1, SumEmpty
    <2>3. m + 0 = m BY <1>1
    <2> QED BY <1>6, <2>1, <2>2, <2>3
  <1>8. ASSUME NEW k \in Nat, k \in P PROVE k + 1 \in P
    <2> SUFFICES ASSUME k + 1 <= n
                 PROVE  Sum(u, m + (k + 1)) = Sum(s, m) + Sum(t, k + 1)
      OBVIOUS
    <2> DEFINE A == 1 .. (m + k)
               B == 1 .. k
               a == m + (k + 1)
    <2>1. IsFiniteSet(A) /\ IsFiniteSet(B)
      <3>1. m + k \in Int BY <1>1
      <3> QED BY <3>1, FS_Interval
    <2>2. /\ 1 .. (m + (k + 1)) = A \cup {a}
          /\ 1 .. (k + 1) = B \cup {k + 1}
          /\ a \notin A
          /\ k + 1 \notin B
      BY <1>1
    <2>3. \A y \in A \cup {a} : u[y] \in Int
      BY <1>1, <1>5
    <2>4. \A y \in B \cup {k + 1} : t[y] \in Int
      BY <1>1, <1>4
    <2>5. u[a] = t[k + 1]
      <3>1. k + 1 \in 1 .. n BY <1>1
      <3> QED BY <1>4, <3>1
    <2>6. Sum(u, m + k) = Sum(s, m) + Sum(t, k)
      BY <1>1, <1>8
    <2>7. t[k + 1] \in Int /\ Sum(t, k) \in Int
      BY <2>1, <2>4, SumInt
    <2> HIDE DEF A, B, a
    <2>8. SumFunctionOnSet(u, A \cup {a}) = u[a] + SumFunctionOnSet(u, A)
      BY <2>1, <2>2, <2>3, SumAdd
    <2>9. SumFunctionOnSet(t, B \cup {k + 1}) = t[k + 1] + SumFunctionOnSet(t, B)
      BY <2>1, <2>2, <2>4, SumAdd
    <2>10. Sum(u, m + (k + 1)) = t[k + 1] + Sum(u, m + k)
      BY <2>2, <2>5, <2>8 DEF A
    <2>11. Sum(t, k + 1) = t[k + 1] + Sum(t, k)
      BY <2>2, <2>9 DEF B
    <2> HIDE DEF Sum
    <2> QED BY <1>6, <2>6, <2>7, <2>10, <2>11
  <1>9. \A k \in Nat : k \in P
    <2> HIDE DEF P
    <2> QED BY <1>7, <1>8, Induction
  <1>10. Sum(u, m + n) = Sum(s, m) + Sum(t, n)
    BY <1>1, <1>9
  <1>11. SumFunction(u) = SumFunction(s) + SumFunction(t)
    BY <1>2, <1>10 DEF SumFunction
  <1> QED BY <1>11 DEF u

(* The sum over a sequence, by a prefix and what follows it.               *)
LEMMA SumDropped ==
    ASSUME NEW s \in Seq(Int), NEW n \in 0 .. Len(s)
    PROVE  SumFunction(s)
             = SumFunction(SubSeq(s, 1, n)) + SumFunction(SubSeq(s, n + 1, Len(s)))
  <1>1. SubSeq(s, 1, n) \in Seq(Int) /\ SubSeq(s, n + 1, Len(s)) \in Seq(Int)
    OBVIOUS
  <1>2. s = SubSeq(s, 1, n) \o SubSeq(s, n + 1, Len(s))
    <2>1. 1 \in 1 .. Len(s) + 1 /\ n \in 1 - 1 .. Len(s) /\ Len(s) \in n .. Len(s)
      OBVIOUS
    <2>2. SubSeq(s, 1, n) \o SubSeq(s, n + 1, Len(s)) = SubSeq(s, 1, Len(s))
      BY <2>1, ConcatAdjacentSubSeq, Zenon
    <2> QED BY <2>2, SubSeqFull
  <1> QED BY <1>1, <1>2, SumConcat

=============================================================================
