------------------------------- MODULE FoldLemmas -------------------------------
(* Sums over finite sets, for proofs. The library's FoldSet is a recursion    *)
(* that no prover expands for a set of any size; what is shown here is that a *)
(* recursive function over the subsets of a finite set exists and is unique,  *)
(* and from that what a sum is and what Max and Min of a finite set are. The  *)
(* induction that all of it rests on takes a set where the library's takes an *)
(* operator.                                                                  *)
EXTENDS Integers, FiniteSetsExt, FiniteSetTheorems, WellFoundedInduction, TLAPS

(* What holds of a subset whenever it holds of all its proper subsets holds   *)
(* of every subset of a finite set.                                           *)
LEMMA SetInduction ==
    ASSUME NEW S, IsFiniteSet(S), NEW P,
           \A T \in SUBSET S : (\A R \in SUBSET T : R # T => R \in P) => T \in P
    PROVE  \A T \in SUBSET S : T \in P
<1> DEFINE Bad == {T \in SUBSET S : T \notin P}
<1> SUFFICES ASSUME Bad # {} PROVE FALSE
  OBVIOUS
<1>1. IsWellFoundedOn(StrictSubsetOrdering(S), SUBSET S)
  <2>1. FiniteSubsetsOf(S) = SUBSET S
    BY FS_FiniteSubsetsOfFinite
  <2>2. IsWellFoundedOn(StrictSubsetOrdering(S), FiniteSubsetsOf(S))
    BY FS_StrictSubsetOrderingWellFounded
  <2> QED
    BY <2>1, <2>2
<1>2. PICK T \in Bad : \A R \in Bad : <<R, T>> \notin StrictSubsetOrdering(S)
  <2> HIDE DEF Bad
  <2>1. Bad \subseteq SUBSET S
    BY DEF Bad
  <2> QED
    BY <1>1, <2>1, WFMin
<1>3. ASSUME NEW R \in SUBSET T, R # T PROVE R \in P
  BY <1>2, <1>3 DEF StrictSubsetOrdering
<1> QED
  BY <1>2, <1>3

(* The element that a fold takes from a set first.                            *)
Chosen(s) == CHOOSE x \in s : TRUE

(* It is one of the set.                                                      *)
LEMMA ChosenIn == ASSUME NEW s, s # {} PROVE Chosen(s) \in s
  BY DEF Chosen

(* g folds F over every subset of S, from base.                               *)
IsFold(g, F, base, S) ==
    /\ g \in [SUBSET S -> Int]
    /\ \A s \in SUBSET S :
          g[s] = IF s = {} THEN base ELSE F[<<Chosen(s), g[s \ {Chosen(s)}]>>]

(* Two folds of the same function agree wherever both are defined.            *)
LEMMA FoldUnique ==
    ASSUME NEW A, NEW B, NEW F, NEW base, NEW g, NEW h,
           IsFold(g, F, base, A), IsFold(h, F, base, B),
           NEW S \in SUBSET A, S \subseteq B, IsFiniteSet(S)
    PROVE  g[S] = h[S]
<1> DEFINE P == {T \in SUBSET S : g[T] = h[T]}
<1>1. ASSUME NEW T \in SUBSET S, \A R \in SUBSET T : R # T => R \in P
      PROVE  T \in P
  <2>1. CASE T = {}
    BY <2>1 DEF IsFold
  <2>2. CASE T # {}
    <3>1. Chosen(T) \in T
      BY <2>2, ChosenIn
    <3>2. T \ {Chosen(T)} \in P
      BY <1>1, <3>1
    <3>3. g[T] = F[<<Chosen(T), g[T \ {Chosen(T)}]>>]
      BY <2>2 DEF IsFold
    <3>4. h[T] = F[<<Chosen(T), h[T \ {Chosen(T)}]>>]
      BY <2>2 DEF IsFold
    <3> QED
      BY <3>2, <3>3, <3>4
  <2> QED
    BY <2>1, <2>2
<1> HIDE DEF P
<1>2. S \in P
  BY <1>1, SetInduction
<1> QED
  BY <1>2 DEF P

(* An integer-valued function can be folded over every finite set.            *)
LEMMA FoldExists ==
    ASSUME NEW U, NEW F \in [U \X Int -> Int], NEW base \in Int,
           NEW S \in SUBSET U, IsFiniteSet(S)
    PROVE  \E g : IsFold(g, F, base, S)
<1> DEFINE P == {T \in SUBSET S : \E g : IsFold(g, F, base, T)}
<1>1. ASSUME NEW T \in SUBSET S, \A R \in SUBSET T : R # T => R \in P
      PROVE  T \in P
  <2> DEFINE
        k(R) == CHOOSE g : IsFold(g, F, base, R)
        top == IF T = {} THEN base ELSE F[<<Chosen(T), k(T \ {Chosen(T)})[T \ {Chosen(T)}]>>]
        h == [s \in SUBSET T |-> IF s = T THEN top ELSE k(s)[s]]
  <2>1. ASSUME NEW R \in SUBSET T, R # T PROVE IsFold(k(R), F, base, R)
    <3>1. \E g : IsFold(g, F, base, R)
      BY <1>1, <2>1
    <3> QED
      BY <3>1
  <2> HIDE DEF k
  <2>2. ASSUME NEW R \in SUBSET T, R # T PROVE k(R)[R] \in Int
    BY <2>1, <2>2 DEF IsFold
  <2>3. ASSUME T # {} PROVE /\ Chosen(T) \in T
                            /\ T \ {Chosen(T)} \in SUBSET T
                            /\ T \ {Chosen(T)} # T
    BY <2>3, ChosenIn
  <2>4. top \in Int
    <3>1. CASE T = {}
      BY <3>1
    <3>2. CASE T # {}
      <4>1. <<Chosen(T), k(T \ {Chosen(T)})[T \ {Chosen(T)}]>> \in U \X Int
        BY <3>2, <2>3, <2>2
      <4> QED
        BY <4>1, <3>2
    <3> QED
      BY <3>1, <3>2
  <2> HIDE DEF top
  <2>5. h \in [SUBSET T -> Int]
    BY <2>2, <2>4
  <2>6. ASSUME NEW s \in SUBSET T
        PROVE  h[s] = IF s = {} THEN base ELSE F[<<Chosen(s), h[s \ {Chosen(s)}]>>]
    <3>1. CASE s = T
      <4>1. CASE T = {}
        BY <3>1, <4>1 DEF top
      <4>2. CASE T # {}
        BY <3>1, <4>2, <2>3 DEF top
      <4> QED
        BY <4>1, <4>2
    <3>2. CASE s # T
      <4>1. IsFold(k(s), F, base, s)
        BY <3>2, <2>1
      <4>2. CASE s = {}
        BY <3>2, <4>1, <4>2 DEF IsFold
      <4>3. CASE s # {}
        <5> DEFINE r == s \ {Chosen(s)}
        <5>1. Chosen(s) \in s
          BY <4>3, ChosenIn
        <5>2. r \in SUBSET s /\ r # T /\ r \in SUBSET T
          BY <5>1, <3>2
        <5>3. IsFold(k(r), F, base, r)
          BY <5>2, <2>1
        <5>4. IsFiniteSet(r)
          BY FS_Subset, <5>2
        <5>5. k(r)[r] = k(s)[r]
          BY <4>1, <5>2, <5>3, <5>4, FoldUnique
        <5>6. k(s)[s] = F[<<Chosen(s), k(s)[r]>>]
          BY <4>1, <4>3 DEF IsFold
        <5>7. h[s] = k(s)[s] /\ h[r] = k(r)[r]
          BY <3>2, <5>2
        <5> QED
          BY <5>5, <5>6, <5>7, <4>3
      <4> QED
        BY <4>2, <4>3
    <3> QED
      BY <3>1, <3>2
  <2>7. IsFold(h, F, base, T)
    <3> HIDE DEF h
    <3> QED
    BY <2>5, <2>6 DEF IsFold
  <2> QED
    BY <2>7
<1> HIDE DEF P
<1>2. S \in P
  BY <1>1, SetInduction
<1> QED
  BY <1>2 DEF P

-----------------------------------------------------------------------------
(* g is the sum of f over every subset of S.                                  *)
IsSum(g, f, S) ==
    \A s \in SUBSET S : g[s] = IF s = {} THEN 0 ELSE f[Chosen(s)] + g[s \ {Chosen(s)}]

(* The sum of f over S.                                                       *)
Total(f, S) ==
    LET g == CHOOSE g : g \in [SUBSET S -> Int] /\ IsSum(g, f, S) IN g[S]

(* There is a sum over every finite set.                                      *)
LEMMA SumExists ==
    ASSUME NEW U, NEW f \in [U -> Int], NEW S \in SUBSET U, IsFiniteSet(S)
    PROVE  \E g \in [SUBSET S -> Int] : IsSum(g, f, S)
<1> DEFINE F == [a \in U \X Int |-> f[a[1]] + a[2]]
<1>1. F \in [U \X Int -> Int]
  OBVIOUS
<1>2. ASSUME NEW g \in [SUBSET S -> Int], NEW s \in SUBSET S, s # {}
      PROVE  F[<<Chosen(s), g[s \ {Chosen(s)}]>>] = f[Chosen(s)] + g[s \ {Chosen(s)}]
  <2>1. Chosen(s) \in U /\ s \ {Chosen(s)} \in SUBSET S
    BY <1>2, ChosenIn
  <2>2. <<Chosen(s), g[s \ {Chosen(s)}]>> \in U \X Int
    BY <1>2, <2>1
  <2> QED
    BY <2>2
<1> HIDE DEF F
<1>3. PICK g : IsFold(g, F, 0, S)
  <2>1. 0 \in Int
    OBVIOUS
  <2> QED
    BY <1>1, <2>1, FoldExists, Zenon
<1>4. g \in [SUBSET S -> Int] /\ IsSum(g, f, S)
  BY <1>2, <1>3 DEF IsSum, IsFold
<1> QED
  BY <1>4

(* Two sums of the same function agree wherever both are defined.             *)
LEMMA SumUnique ==
    ASSUME NEW f, NEW A, NEW B, NEW g, NEW h, IsSum(g, f, A), IsSum(h, f, B),
           NEW S \in SUBSET A, S \subseteq B, IsFiniteSet(S)
    PROVE  g[S] = h[S]
<1> DEFINE P == {T \in SUBSET S : g[T] = h[T]}
<1>1. ASSUME NEW T \in SUBSET S, \A R \in SUBSET T : R # T => R \in P
      PROVE  T \in P
  <2>1. CASE T = {}
    BY <2>1 DEF IsSum
  <2>2. CASE T # {}
    <3>1. T \ {Chosen(T)} \in P
      BY <1>1, <2>2, ChosenIn
    <3>2. g[T] = f[Chosen(T)] + g[T \ {Chosen(T)}]
      BY <2>2 DEF IsSum
    <3>3. h[T] = f[Chosen(T)] + h[T \ {Chosen(T)}]
      BY <2>2 DEF IsSum
    <3> QED
      BY <3>1, <3>2, <3>3
  <2> QED
    BY <2>1, <2>2
<1> HIDE DEF P
<1>2. S \in P
  BY <1>1, SetInduction
<1> QED
  BY <1>2 DEF P

(* Whatever is a sum of f over the subsets of S is the total of f on each of  *)
(* them.                                                                      *)
LEMMA SumIsTotal ==
    ASSUME NEW U, NEW f \in [U -> Int], NEW S \in SUBSET U, IsFiniteSet(S),
           NEW g, IsSum(g, f, S), NEW T \in SUBSET S
    PROVE  g[T] = Total(f, T)
<1> DEFINE h == CHOOSE x : x \in [SUBSET T -> Int] /\ IsSum(x, f, T)
<1>1. IsFiniteSet(T)
  BY FS_Subset
<1>2. h \in [SUBSET T -> Int] /\ IsSum(h, f, T)
  BY <1>1, SumExists
<1>3. Total(f, T) = h[T]
  BY DEF Total
<1> HIDE DEF h
<1>4. g[T] = h[T]
  BY <1>1, <1>2, SumUnique
<1> QED
  BY <1>3, <1>4

(* A total is an integer, 0 over no elements, and the first element's value   *)
(* plus the total of the rest.                                                *)
LEMMA TotalStep ==
    ASSUME NEW U, NEW f \in [U -> Int], NEW S \in SUBSET U, IsFiniteSet(S)
    PROVE  /\ Total(f, S) \in Int
           /\ S = {} => Total(f, S) = 0
           /\ S # {} => /\ Chosen(S) \in S
                        /\ Total(f, S) = f[Chosen(S)] + Total(f, S \ {Chosen(S)})
<1>1. PICK g \in [SUBSET S -> Int] : IsSum(g, f, S)
  BY SumExists
<1>2. \A T \in SUBSET S : g[T] = Total(f, T)
  BY <1>1, SumIsTotal
<1> QED
  BY <1>1, <1>2, ChosenIn DEF IsSum

(* That holds of every element, not only of the one that is taken first.      *)
LEMMA TotalRemove ==
    ASSUME NEW U, NEW f \in [U -> Int], NEW S \in SUBSET U, IsFiniteSet(S), NEW x \in S
    PROVE  Total(f, S) = f[x] + Total(f, S \ {x})
<1> DEFINE P == {T \in SUBSET S : \A y \in T : Total(f, T) = f[y] + Total(f, T \ {y})}
<1>1. ASSUME NEW T \in SUBSET S, \A R \in SUBSET T : R # T => R \in P
      PROVE  T \in P
  <2> SUFFICES ASSUME NEW y \in T PROVE Total(f, T) = f[y] + Total(f, T \ {y})
    OBVIOUS
  <2> DEFINE c == Chosen(T)
  <2>1. c \in T
    BY ChosenIn
  <2>2. \A R \in SUBSET T : IsFiniteSet(R) /\ R \in SUBSET U
    BY FS_Subset
  <2>3. Total(f, T) = f[c] + Total(f, T \ {c})
    BY <2>2, TotalStep
  <2>4. CASE y = c
    BY <2>3, <2>4
  <2>5. CASE y # c
    <3>1. T \ {c} \in P /\ T \ {y} \in P
      BY <1>1, <2>1
    <3>2. Total(f, T \ {c}) = f[y] + Total(f, (T \ {c}) \ {y})
      BY <3>1, <2>5
    <3>3. Total(f, T \ {y}) = f[c] + Total(f, (T \ {y}) \ {c})
      BY <3>1, <2>5, <2>1
    <3>4. (T \ {c}) \ {y} = (T \ {y}) \ {c}
      OBVIOUS
    <3>5. Total(f, (T \ {y}) \ {c}) \in Int /\ f[c] \in Int /\ f[y] \in Int
      <4>1. (T \ {y}) \ {c} \in SUBSET T
        OBVIOUS
      <4> QED
        BY <4>1, <2>2, <2>1, TotalStep
    <3>6. Total(f, (T \ {c}) \ {y}) = Total(f, (T \ {y}) \ {c})
      BY <3>4
    <3> HIDE DEF c
    <3> QED
      BY <2>3, <3>2, <3>3, <3>5, <3>6
  <2> QED
    BY <2>4, <2>5
<1> HIDE DEF P
<1>2. S \in P
  BY <1>1, SetInduction
<1> QED
  BY <1>2 DEF P

(* The total of numbers that are not negative is not negative.                *)
LEMMA TotalNat ==
    ASSUME NEW U, NEW f \in [U -> Nat], NEW S \in SUBSET U, IsFiniteSet(S)
    PROVE  Total(f, S) \in Nat
<1> DEFINE P == {T \in SUBSET S : Total(f, T) \in Nat}
<1>1. ASSUME NEW T \in SUBSET S, \A R \in SUBSET T : R # T => R \in P
      PROVE  T \in P
  <2>1. IsFiniteSet(T) /\ T \in SUBSET U /\ f \in [U -> Int]
    BY FS_Subset
  <2>2. CASE T = {}
    <3>1. Total(f, T) = 0
      BY <2>1, <2>2, TotalStep
    <3> QED
      BY <3>1
  <2>3. CASE T # {}
    <3>1. Chosen(T) \in T
      BY <2>3, ChosenIn
    <3>2. T \ {Chosen(T)} \in P
      BY <3>1, <1>1
    <3>3. Total(f, T) = f[Chosen(T)] + Total(f, T \ {Chosen(T)})
      BY <2>1, <2>3, TotalStep
    <3> QED
      BY <3>1, <3>2, <3>3
  <2> QED
    BY <2>2, <2>3
<1> HIDE DEF P
<1>2. S \in P
  BY <1>1, SetInduction
<1> QED
  BY <1>2 DEF P

(* It is at most that of a larger set.                                        *)
LEMMA TotalMonotone ==
    ASSUME NEW U, NEW f \in [U -> Nat], NEW S \in SUBSET U, IsFiniteSet(S), NEW R \in SUBSET S
    PROVE  Total(f, R) <= Total(f, S)
<1> DEFINE P == {T \in SUBSET S : R \subseteq T => Total(f, R) <= Total(f, T)}
<1>1. ASSUME NEW T \in SUBSET S, \A Q \in SUBSET T : Q # T => Q \in P
      PROVE  T \in P
  <2> SUFFICES ASSUME R \subseteq T PROVE Total(f, R) <= Total(f, T)
    OBVIOUS
  <2>1. \A Q \in SUBSET S : IsFiniteSet(Q) /\ Q \in SUBSET U
    BY FS_Subset
  <2>2. \A Q \in SUBSET S : Total(f, Q) \in Nat
    BY <2>1, TotalNat
  <2>3. CASE R = T
    BY <2>2, <2>3
  <2>4. CASE R # T
    <3>1. PICK x \in T : x \notin R
      BY <2>4
    <3>2. T \ {x} \in P
      BY <1>1
    <3>3. Total(f, R) <= Total(f, T \ {x})
      BY <3>1, <3>2
    <3>4. Total(f, T) = f[x] + Total(f, T \ {x})
      <4>1. f \in [U -> Int]
        OBVIOUS
      <4> QED
        BY <2>1, <4>1, TotalRemove
    <3>5. f[x] \in Nat /\ Total(f, T \ {x}) \in Nat /\ Total(f, R) \in Nat
      BY <2>2
    <3> QED
      BY <3>3, <3>4, <3>5
  <2> QED
    BY <2>3, <2>4
<1> HIDE DEF P
<1>2. S \in P
  BY <1>1, SetInduction
<1> QED
  BY <1>2 DEF P

-----------------------------------------------------------------------------
(* A finite set of integers has a maximum, which is one of them.              *)
LEMMA MaxIsBound ==
    ASSUME NEW S \in SUBSET Int, IsFiniteSet(S), S # {}
    PROVE  Max(S) \in S /\ \A x \in S : Max(S) >= x
<1> DEFINE P == {T \in SUBSET S : T # {} => \E m \in T : \A x \in T : m >= x}
<1>1. ASSUME NEW T \in SUBSET S, \A R \in SUBSET T : R # T => R \in P
      PROVE  T \in P
  <2> SUFFICES ASSUME T # {} PROVE \E m \in T : \A x \in T : m >= x
    OBVIOUS
  <2>1. PICK y \in T : TRUE
    OBVIOUS
  <2>2. T \ {y} \in P
    BY <1>1, <2>1
  <2>3. CASE T \ {y} = {}
    <3>1. \A x \in T : x = y
      BY <2>3
    <3> QED
      BY <3>1
  <2>4. CASE T \ {y} # {}
    <3>1. PICK m \in T \ {y} : \A x \in T \ {y} : m >= x
      BY <2>2, <2>4
    <3>2. CASE m >= y
      BY <3>1, <3>2
    <3>3. CASE y > m
      BY <3>1, <3>3
    <3> QED
      BY <3>2, <3>3
  <2> QED
    BY <2>3, <2>4
<1> HIDE DEF P
<1>2. S \in P
  BY <1>1, SetInduction
<1>3. \E m \in S : \A x \in S : m >= x
  BY <1>2 DEF P
<1> QED
  BY <1>3 DEF Max

(* The maximum of two integers.                                               *)
LEMMA MaxOfTwo ==
    ASSUME NEW a \in Int, NEW b \in Int
    PROVE  Max({a, b}) = IF a >= b THEN a ELSE b
  BY DEF Max

(* The minimum of two integers.                                               *)
LEMMA MinOfTwo ==
    ASSUME NEW a \in Int, NEW b \in Int
    PROVE  Min({a, b}) = IF a <= b THEN a ELSE b
  BY DEF Min

(* The minimum of three integers is one of them, and at most the second and   *)
(* the third.                                                                 *)
LEMMA MinOfThree ==
    ASSUME NEW a \in Int, NEW b \in Int, NEW c \in Int
    PROVE  Min({a, b, c}) \in {a, b, c} /\ Min({a, b, c}) <= b /\ Min({a, b, c}) <= c
<1>1. \E m \in {a, b, c} : \A x \in {a, b, c} : m <= x
  OBVIOUS
<1> QED
  BY <1>1 DEF Min
=============================================================================
