----------------------------- MODULE FiniteSums -----------------------------
(***************************************************************************)
(* Sums over finite sets and folds over sequences, as the community modules *)
(* define them (SumFunctionOnSet, FoldLeft): recursive functions, of which  *)
(* the provers know nothing but that a CHOOSE picks one.  That there is one *)
(* is proved here by induction, and induction itself from the well-founded  *)
(* orders of the library; the reports of an audit are sums and folds.      *)
(***************************************************************************)
EXTENDS SequencesExt, Integers, FiniteSetTheorems, SequenceTheorems, TLAPS

-----------------------------------------------------------------------------
(* Induction over numbers and over the subsets of a finite set.            *)

\* A set of natural numbers has a smallest element.
LEMMA SmallestElement ==
  ASSUME NEW T, T \subseteq Nat, T # {}
  PROVE  \E n \in T : \A m \in T : n <= m
<1> DEFINE R == OpToRel(<, Nat)
<1>1. \A m, n \in Nat : m < n => <<m, n>> \in R
  BY DEF OpToRel
<1>2. IsWellFoundedOn(R, Nat)
  BY NatLessThanWellFounded
<1> HIDE DEF R
<1>3. PICK n \in T : \A m \in T : ~ (<<m, n>> \in R)
  BY <1>2, WFMin
<1>4. ASSUME NEW m \in T PROVE n <= m
  <2>1. m \in Nat /\ n \in Nat /\ (n <= m \/ m < n)
    OBVIOUS
  <2>2. ~ (m < n)
    BY <1>1, <1>3, <2>1
  <2> QED
    BY <2>1, <2>2
<1> QED
  BY <1>4

\* A set that has 0, and with each number the next one, has all numbers.
LEMMA InductionOnNumbers ==
  ASSUME NEW P, 0 \in P, \A n \in Nat : n \in P => n + 1 \in P
  PROVE  \A n \in Nat : n \in P
<1> DEFINE Q == Nat \ P
<1> SUFFICES ASSUME Q # {} PROVE FALSE
  OBVIOUS
<1>1. PICK n \in Q : \A m \in Q : n <= m
  <2>1. Q \subseteq Nat
    OBVIOUS
  <2> HIDE DEF Q
  <2> QED
    BY <2>1, SmallestElement
<1>2. n # 0 /\ n - 1 \in Nat
  BY <1>1
<1>3. n - 1 \in P
  BY <1>1, <1>2
<1> QED
  BY <1>1, <1>2, <1>3

\* A property of sets that holds when it holds for all smaller sets, holds.
LEMMA InductionOnSubsets ==
  ASSUME NEW S, IsFiniteSet(S), NEW P,
         \A T \in SUBSET S : (\A U \in SUBSET T : U # T => U \in P) => T \in P
  PROVE  \A T \in SUBSET S : T \in P
<1> DEFINE Q == (SUBSET S) \ P
<1> SUFFICES ASSUME Q # {} PROVE FALSE
  OBVIOUS
<1> DEFINE R == StrictSubsetOrdering(S)
<1>1. FiniteSubsetsOf(S) = SUBSET S
  BY FS_FiniteSubsetsOfFinite
<1>2. IsWellFoundedOn(R, FiniteSubsetsOf(S))
  BY FS_StrictSubsetOrderingWellFounded
<1>3. \A U, T \in SUBSET S : U \subseteq T /\ U # T => <<U, T>> \in R
  BY DEF StrictSubsetOrdering
<1> HIDE DEF R
<1>4. \E T \in Q : \A U \in Q : ~ (<<U, T>> \in R)
  <2>1. Q \subseteq SUBSET S
    OBVIOUS
  <2> HIDE DEF Q
  <2> QED
    BY <1>1, <1>2, <2>1, WFMin
<1>5. PICK T \in Q : \A U \in Q : ~ (<<U, T>> \in R)
  BY <1>4
<1>6. ASSUME NEW U \in SUBSET T, U # T PROVE U \in P
  <2>1. U \in SUBSET S /\ T \in SUBSET S
    OBVIOUS
  <2>2. <<U, T>> \in R
    BY <1>3, <1>6, <2>1
  <2> QED
    BY <1>5, <2>1, <2>2
<1> QED
  BY <1>6

-----------------------------------------------------------------------------
(* Recursion on the subsets of a finite set.                               *)

\* g folds every subset of S by F, taking off the element that c says.
IsFold(g, S, base, F, c) ==
    \A s \in SUBSET S : g[s] = IF s = {} THEN base ELSE F[<<c[s], g[s \ {c[s]}]>>]

\* Such a fold exists, whatever element c takes off a set next.
LEMMA FoldExists ==
  ASSUME NEW S, IsFiniteSet(S), NEW A, NEW base \in A, NEW F \in [S \X A -> A],
         NEW c, \A s \in SUBSET S : s # {} => c[s] \in s
  PROVE  \E g \in [SUBSET S -> A] : IsFold(g, S, base, F, c)
<1> DEFINE Upto(n) == {s \in SUBSET S : Cardinality(s) <= n}
           Step(g, s) == IF s = {} THEN base ELSE F[<<c[s], g[s \ {c[s]}]>>]
           Good(n) == \E g \in [Upto(n) -> A] : \A s \in Upto(n) : g[s] = Step(g, s)
<1>1. \A s \in SUBSET S : /\ IsFiniteSet(s) /\ Cardinality(s) \in Nat
                          /\ Cardinality(s) <= Cardinality(S)
                          /\ Cardinality(s) = 0 <=> s = {}
  BY FS_Subset, FS_CardinalityType, FS_EmptySet
<1>2. Good(0)
  <2> DEFINE g == [s \in Upto(0) |-> base]
  <2>1. g \in [Upto(0) -> A]
    OBVIOUS
  <2>2. ASSUME NEW s \in Upto(0) PROVE g[s] = Step(g, s)
    <3>1. s = {}
      BY <1>1
    <3> QED
      BY <3>1
  <2> HIDE DEF g, Step
  <2> QED
    BY <2>1, <2>2
<1>3. ASSUME NEW n \in Nat, Good(n) PROVE Good(n + 1)
  <2>1. PICK g \in [Upto(n) -> A] : \A s \in Upto(n) : g[s] = Step(g, s)
    BY <1>3
  <2> DEFINE h == [s \in Upto(n + 1) |-> Step(g, s)]
  <2>2. ASSUME NEW s \in Upto(n + 1), s # {} 
        PROVE  s \ {c[s]} \in Upto(n) /\ s \ {c[s]} \in Upto(n + 1) /\ c[s] \in S
    <3>1. c[s] \in s /\ IsFiniteSet(s)
      BY <1>1, <2>2
    <3>2. Cardinality(s \ {c[s]}) = Cardinality(s) - 1 /\ Cardinality(s) \in Nat
      BY <3>1, <1>1, FS_RemoveElement
    <3> QED
      BY <3>1, <3>2
  <2>3. h \in [Upto(n + 1) -> A]
    <3> SUFFICES ASSUME NEW s \in Upto(n + 1) PROVE Step(g, s) \in A
      OBVIOUS
    <3> HIDE DEF Upto
    <3> QED
      BY <2>1, <2>2
  <2>4. \A s \in Upto(n) : s \in Upto(n + 1) /\ h[s] = g[s]
    <3>1. \A s \in Upto(n) : s \in Upto(n + 1)
      BY <1>1
    <3> HIDE DEF Upto, Step
    <3> QED
      BY <2>1, <3>1
  <2>5. ASSUME NEW s \in Upto(n + 1) PROVE h[s] = Step(h, s)
    <3>1. h[s] = Step(g, s)
      OBVIOUS
    <3>2. s # {} => h[s \ {c[s]}] = g[s \ {c[s]}]
      <4> HIDE DEF Upto, h
      <4> QED
      BY <2>2, <2>4
    <3> HIDE DEF h, Upto
    <3> QED
      BY <3>1, <3>2
  <2> HIDE DEF h, Step, Upto
  <2> QED
    BY <2>3, <2>5
<1>4. \A n \in Nat : Good(n)
  <2> DEFINE P == {n \in Nat : Good(n)}
  <2> HIDE DEF Good
  <2>1. 0 \in P /\ \A n \in Nat : n \in P => n + 1 \in P
    BY <1>2, <1>3
  <2>2. \A n \in Nat : n \in P
    <3> HIDE DEF P
    <3> QED
      BY <2>1, InductionOnNumbers
  <2> QED
    BY <2>2
<1>5. Good(Cardinality(S))
  <2> HIDE DEF Good
  <2> QED
    BY <1>1, <1>4
<1>6. Upto(Cardinality(S)) = SUBSET S
  BY <1>1
<1>7. PICK g \in [SUBSET S -> A] : \A s \in SUBSET S : g[s] = Step(g, s)
  <2> HIDE DEF Upto, Step
  <2> QED
    BY <1>5, <1>6
<1> QED
  BY <1>7 DEF IsFold

-----------------------------------------------------------------------------
(* Sums over a finite set.                                                 *)

\* g sums f over every subset of S, as MapThenFoldSet does it.
Unfolded(f, g, S) ==
    g = [s \in SUBSET S |->
            IF s = {} THEN 0 ELSE f[CHOOSE x \in s : TRUE] + g[s \ {CHOOSE x \in s : TRUE}]]

\* A sum is the value of the recursive function that defines it.
LEMMA SumIsUnfolded ==
  ASSUME NEW f, NEW S
  PROVE  SumFunctionOnSet(f, S) = (CHOOSE g : Unfolded(f, g, S))[S]
BY Zenon DEF SumFunctionOnSet, FoldFunctionOnSet, MapThenFoldSet, Unfolded

\* That function exists.
LEMMA ChosenIsUnfolded ==
  ASSUME NEW S, IsFiniteSet(S), NEW f, \A x \in S : f[x] \in Int
  PROVE  Unfolded(f, CHOOSE g : Unfolded(f, g, S), S)
<1> DEFINE c == [s \in SUBSET S |-> CHOOSE x \in s : TRUE]
           F == [p \in S \X Int |-> f[p[1]] + p[2]]
<1>1. \A s \in SUBSET S : s # {} => c[s] \in s
  OBVIOUS
<1>2. F \in [S \X Int -> Int]
  OBVIOUS
<1>3. 0 \in Int
  OBVIOUS
<1>4. PICK g \in [SUBSET S -> Int] : IsFold(g, S, 0, F, c)
  <2> HIDE DEF c, F
  <2> QED
    BY <1>1, <1>2, <1>3, FoldExists
<1>5. ASSUME NEW s \in SUBSET S
      PROVE  g[s] = IF s = {} THEN 0 ELSE f[CHOOSE x \in s : TRUE] + g[s \ {CHOOSE x \in s : TRUE}]
  <2>1. CASE s = {}
    BY <1>4, <2>1 DEF IsFold
  <2>2. CASE s # {}
    <3> DEFINE x == CHOOSE x \in s : TRUE
    <3>1. x \in s /\ c[s] = x
      BY <2>2
    <3>2. g[s] = F[<<c[s], g[s \ {c[s]}]>>]
      BY <1>4, <2>2 DEF IsFold
    <3> HIDE DEF x, c
    <3>3. x \in S /\ g[s \ {x}] \in Int
      BY <3>1
    <3>4. F[<<x, g[s \ {x}]>>] = f[x] + g[s \ {x}]
      BY <3>3
    <3> HIDE DEF F
    <3>5. g[s] = f[x] + g[s \ {x}]
      BY <3>1, <3>2, <3>4
    <3> QED
      BY <2>2, <3>5 DEF x
  <2> QED
    BY <2>1, <2>2
<1>6. Unfolded(f, g, S)
  BY <1>5 DEF Unfolded
<1>7. \E h : Unfolded(f, h, S)
  BY <1>6
<1> QED
  BY <1>7, Zenon

\* The sum over a subset does not depend on the set around it.
LEMMA UnfoldedAgree ==
  ASSUME NEW S, IsFiniteSet(S), NEW f, \A x \in S : f[x] \in Int,
         NEW U \in SUBSET S, NEW g, Unfolded(f, g, S), NEW h, Unfolded(f, h, U)
  PROVE  g[U] = h[U] /\ g[U] \in Int
<1> DEFINE P == {T \in SUBSET U : g[T] = h[T] /\ g[T] \in Int}
<1>1. ASSUME NEW T \in SUBSET U, \A V \in SUBSET T : V # T => V \in P
      PROVE  T \in P
  <2>1. CASE T = {}
    BY <2>1 DEF Unfolded
  <2>2. CASE T # {}
    <3> DEFINE x == CHOOSE x \in T : TRUE
    <3>1. x \in T
      BY <2>2
    <3>2. T \in SUBSET S /\ T \in SUBSET U
      OBVIOUS
    <3>3. g[T] = f[x] + g[T \ {x}] /\ h[T] = f[x] + h[T \ {x}]
      BY <2>2, <3>2 DEF Unfolded
    <3> HIDE DEF x
    <3>4. T \ {x} \in P
      BY <1>1, <3>1
    <3>5. f[x] \in Int
      BY <3>1, <3>2
    <3> QED
      BY <3>3, <3>4, <3>5
  <2> QED
    BY <2>1, <2>2
<1>2. \A T \in SUBSET U : T \in P
  <2>1. IsFiniteSet(U)
    BY FS_Subset
  <2>2. \A T \in SUBSET U : (\A V \in SUBSET T : V # T => V \in P) => T \in P
    BY <1>1
  <2> HIDE DEF P
  <2> QED
    BY <2>1, <2>2, InductionOnSubsets
<1> QED
  BY <1>2

\* The first step of a sum.
LEMMA SumStep ==
  ASSUME NEW S, IsFiniteSet(S), NEW f, \A x \in S : f[x] \in Int
  PROVE  /\ SumFunctionOnSet(f, S) \in Int
         /\ S = {} => SumFunctionOnSet(f, S) = 0
         /\ S # {} => \E x \in S : SumFunctionOnSet(f, S) = f[x] + SumFunctionOnSet(f, S \ {x})
<1> DEFINE g(T) == CHOOSE g : Unfolded(f, g, T)
<1>1. \A T \in SUBSET S : IsFiniteSet(T) /\ SumFunctionOnSet(f, T) = g(T)[T]
  BY FS_Subset, SumIsUnfolded
<1>2. \A T \in SUBSET S : Unfolded(f, g(T), T)
  BY <1>1, ChosenIsUnfolded
<1> HIDE DEF g
<1>3. \A T \in SUBSET S : g(S)[T] = g(T)[T] /\ g(S)[T] \in Int
  <2> TAKE T \in SUBSET S
  <2>1. Unfolded(f, g(S), S) /\ Unfolded(f, g(T), T)
    BY <1>2
  <2> QED
    BY <2>1, UnfoldedAgree
<1>4. S \in SUBSET S
  OBVIOUS
<1>5. \A T \in SUBSET S : SumFunctionOnSet(f, T) = g(S)[T]
  BY <1>1, <1>3
<1>6. g(S) = [s \in SUBSET S |->
                IF s = {} THEN 0 ELSE f[CHOOSE x \in s : TRUE] + g(S)[s \ {CHOOSE x \in s : TRUE}]]
  BY <1>2, <1>4 DEF Unfolded
<1>7. g(S)[S] = IF S = {} THEN 0 ELSE f[CHOOSE x \in S : TRUE] + g(S)[S \ {CHOOSE x \in S : TRUE}]
  <2> DEFINE G == g(S)
  <2>1. G = [s \in SUBSET S |->
                IF s = {} THEN 0 ELSE f[CHOOSE x \in s : TRUE] + G[s \ {CHOOSE x \in s : TRUE}]]
    BY <1>6
  <2> HIDE DEF G
  <2>2. G[S] = IF S = {} THEN 0 ELSE f[CHOOSE x \in S : TRUE] + G[S \ {CHOOSE x \in S : TRUE}]
    BY <1>4, <2>1
  <2> QED
    BY <2>2 DEF G
<1>8. SumFunctionOnSet(f, S) \in Int
  BY <1>3, <1>4, <1>5
<1>9. S = {} => SumFunctionOnSet(f, S) = 0
  BY <1>4, <1>5, <1>7
<1>10. ASSUME S # {} PROVE \E x \in S : SumFunctionOnSet(f, S) = f[x] + SumFunctionOnSet(f, S \ {x})
  <2>1. PICK x \in S : x = CHOOSE y \in S : TRUE
    BY <1>10
  <2>2. SumFunctionOnSet(f, S \ {x}) = g(S)[S \ {x}]
    BY <1>5
  <2> QED
    BY <1>4, <1>5, <1>7, <1>10, <2>1, <2>2
<1> QED
  BY <1>8, <1>9, <1>10

\* A sum is that of all elements but one, and the one.
LEMMA SumWithout ==
  ASSUME NEW S, IsFiniteSet(S), NEW f, \A y \in S : f[y] \in Int, NEW x \in S
  PROVE  SumFunctionOnSet(f, S) = f[x] + SumFunctionOnSet(f, S \ {x})
<1> DEFINE Sum(T) == SumFunctionOnSet(f, T)
           P == {T \in SUBSET S : \A y \in T : Sum(T) = f[y] + Sum(T \ {y})}
<1>1. \A T \in SUBSET S : IsFiniteSet(T) /\ \A y \in T : f[y] \in Int
  BY FS_Subset
<1>2. \A T \in SUBSET S : Sum(T) \in Int /\ (T # {} => \E y \in T : Sum(T) = f[y] + Sum(T \ {y}))
  BY <1>1, SumStep
<1> HIDE DEF Sum
<1>3. ASSUME NEW T \in SUBSET S, \A V \in SUBSET T : V # T => V \in P, NEW y \in T
      PROVE  Sum(T) = f[y] + Sum(T \ {y})
  <2>1. PICK z \in T : Sum(T) = f[z] + Sum(T \ {z})
    BY <1>2
  <2>2. CASE z = y
    BY <2>1, <2>2
  <2>3. CASE z # y
    <3>1. T \ {z} \in P /\ T \ {y} \in P
      BY <1>3
    <3>2. Sum(T \ {z}) = f[y] + Sum((T \ {z}) \ {y}) /\ Sum(T \ {y}) = f[z] + Sum((T \ {y}) \ {z})
      BY <2>3, <3>1
    <3>3. (T \ {z}) \ {y} = (T \ {y}) \ {z}
      OBVIOUS
    <3>4. f[y] \in Int /\ f[z] \in Int
      BY <1>1
    <3>5. (T \ {z}) \ {y} \in SUBSET S
      OBVIOUS
    <3>6. Sum((T \ {z}) \ {y}) \in Int
      BY <1>2, <3>5
    <3>7. Sum(T \ {y}) = f[z] + Sum((T \ {z}) \ {y})
      BY <3>2, <3>3, Zenon
    <3> HIDE DEF P
    <3> QED
      BY <2>1, <3>2, <3>4, <3>6, <3>7
  <2> QED
    BY <2>2, <2>3
<1>4. \A T \in SUBSET S : T \in P
  <2>1. \A T \in SUBSET S : (\A V \in SUBSET T : V # T => V \in P) => T \in P
    BY <1>3
  <2> HIDE DEF P
  <2> QED
    BY <2>1, InductionOnSubsets
<1> QED
  BY <1>4 DEF Sum

\* A set of sets that has {}, and with each set the one with an element more.
LEMMA InductionByElements ==
  ASSUME NEW S, IsFiniteSet(S), NEW P, {} \in P,
         \A T \in SUBSET S : \A x \in S \ T : T \in P => T \cup {x} \in P
  PROVE  \A T \in SUBSET S : T \in P
<1>1. ASSUME NEW T \in SUBSET S, \A V \in SUBSET T : V # T => V \in P
      PROVE  T \in P
  <2>1. CASE T = {}
    BY <2>1
  <2>2. CASE T # {}
    <3>1. PICK x \in T : TRUE
      BY <2>2
    <3>2. T \ {x} \in P /\ T = (T \ {x}) \cup {x} /\ x \in S \ (T \ {x}) /\ T \ {x} \in SUBSET S
      BY <1>1, <3>1
    <3> DEFINE V == T \ {x}
    <3>3. V \cup {x} \in P
      <4> HIDE DEF V
      <4>1. V \in P /\ x \in S \ V /\ V \in SUBSET S
        BY <3>2 DEF V
      <4> QED
        BY <4>1
    <3> QED
      BY <3>2, <3>3
  <2> QED
    BY <2>1, <2>2
<1> QED
  BY <1>1, InductionOnSubsets

\* The sum of one element more.
LEMMA SumWith ==
  ASSUME NEW S, IsFiniteSet(S), NEW f, NEW x, x \notin S, \A y \in S \cup {x} : f[y] \in Int
  PROVE  /\ IsFiniteSet(S \cup {x})
         /\ SumFunctionOnSet(f, S) \in Int
         /\ SumFunctionOnSet(f, S \cup {x}) = SumFunctionOnSet(f, S) + f[x]
<1>1. IsFiniteSet(S \cup {x}) /\ x \in S \cup {x}
  BY FS_AddElement
<1>2. SumFunctionOnSet(f, S \cup {x}) = f[x] + SumFunctionOnSet(f, (S \cup {x}) \ {x})
  BY <1>1, SumWithout
<1>3. (S \cup {x}) \ {x} = S
  OBVIOUS
<1>4. SumFunctionOnSet(f, S) \in Int /\ f[x] \in Int
  BY SumStep
<1>5. SumFunctionOnSet(f, S \cup {x}) = f[x] + SumFunctionOnSet(f, S)
  BY <1>2, <1>3, Zenon
<1> QED
  BY <1>1, <1>4, <1>5

\* How a sum grows with its set, element by element.
SumGrows(f, S) ==
    /\ SumFunctionOnSet(f, {}) = 0
    /\ \A T \in SUBSET S : SumFunctionOnSet(f, T) \in Int
    /\ \A T \in SUBSET S : \A x \in S \ T :
          /\ SumFunctionOnSet(f, T \cup {x}) = SumFunctionOnSet(f, T) + f[x]
          /\ f[x] \in Int

\* Sums grow so.
LEMMA SumsGrow ==
  ASSUME NEW S, IsFiniteSet(S), NEW f, \A x \in S : f[x] \in Int
  PROVE  SumGrows(f, S)
<1>1. SumFunctionOnSet(f, {}) = 0
  BY SumStep, FS_EmptySet
<1>2. \A T \in SUBSET S : IsFiniteSet(T)
  BY FS_Subset
<1>3. \A T \in SUBSET S : SumFunctionOnSet(f, T) \in Int
  BY <1>2, SumStep
<1>4. ASSUME NEW T \in SUBSET S, NEW x \in S \ T
      PROVE  SumFunctionOnSet(f, T \cup {x}) = SumFunctionOnSet(f, T) + f[x] /\ f[x] \in Int
  <2>1. IsFiniteSet(T) /\ x \notin T /\ f[x] \in Int /\ \A y \in T \cup {x} : f[y] \in Int
    BY <1>2
  <2> QED
    BY <2>1, SumWith
<1> QED
  BY <1>1, <1>3, <1>4 DEF SumGrows

\* Sums of the same numbers are equal.
LEMMA SumOfEquals ==
  ASSUME NEW S, IsFiniteSet(S), NEW f, NEW g,
         \A x \in S : f[x] \in Int /\ f[x] = g[x]
  PROVE  SumFunctionOnSet(f, S) = SumFunctionOnSet(g, S)
<1> DEFINE F(T) == SumFunctionOnSet(f, T)
           G(T) == SumFunctionOnSet(g, T)
           P == {T \in SUBSET S : F(T) = G(T)}
<1>1. F({}) = 0 /\ \A T \in SUBSET S : \A x \in S \ T : F(T \cup {x}) = F(T) + f[x]
  BY SumsGrow DEF SumGrows
<1>2. G({}) = 0 /\ \A T \in SUBSET S : \A x \in S \ T : G(T \cup {x}) = G(T) + g[x]
  BY SumsGrow DEF SumGrows
<1> HIDE DEF F, G
<1>3. {} \in P /\ \A T \in SUBSET S : \A x \in S \ T : T \in P => T \cup {x} \in P
  BY <1>1, <1>2
<1>4. \A T \in SUBSET S : T \in P
  <2> HIDE DEF P
  <2> QED
    BY <1>3, InductionByElements
<1> QED
  BY <1>4 DEF F, G

\* The sum over two sets without a common element.
LEMMA SumOfUnion ==
  ASSUME NEW S, IsFiniteSet(S), NEW T, IsFiniteSet(T), S \cap T = {},
         NEW f, \A x \in S \cup T : f[x] \in Int
  PROVE  SumFunctionOnSet(f, S \cup T) = SumFunctionOnSet(f, S) + SumFunctionOnSet(f, T)
<1> DEFINE F(U) == SumFunctionOnSet(f, U)
           P == {U \in SUBSET T : F(S \cup U) = F(S) + F(U)}
<1>1. IsFiniteSet(S \cup T)
  BY FS_Union
<1>2. /\ F({}) = 0
      /\ \A U \in SUBSET (S \cup T) : F(U) \in Int
      /\ \A U \in SUBSET (S \cup T) : \A x \in (S \cup T) \ U : F(U \cup {x}) = F(U) + f[x] /\ f[x] \in Int
  BY <1>1, SumsGrow DEF SumGrows
<1> HIDE DEF F
<1>3. {} \in P
  <2>1. S \cup {} = S /\ F(S) \in Int
    BY <1>2
  <2> QED
    BY <1>2, <2>1
<1>4. ASSUME NEW U \in SUBSET T, NEW x \in T \ U, U \in P
      PROVE  U \cup {x} \in P
  <2>1. /\ S \cup U \in SUBSET (S \cup T) /\ U \in SUBSET (S \cup T) /\ S \in SUBSET (S \cup T)
        /\ x \in (S \cup T) \ (S \cup U) /\ x \in (S \cup T) \ U /\ U \cup {x} \in SUBSET T
        /\ (S \cup U) \cup {x} = S \cup (U \cup {x})
    OBVIOUS
  <2>2. F(U \cup {x}) = F(U) + f[x] /\ F(U) \in Int /\ F(S) \in Int /\ f[x] \in Int
    BY <1>2, <2>1
  <2>3. F((S \cup U) \cup {x}) = F(S \cup U) + f[x]
    BY <1>2, <2>1
  <2>4. F(S \cup (U \cup {x})) = F(S \cup U) + f[x]
    BY <2>1, <2>3, Zenon
  <2>5. F(S \cup U) = F(S) + F(U)
    BY <1>4
  <2>6. F(S \cup (U \cup {x})) = F(S) + F(U \cup {x})
    BY <2>2, <2>4, <2>5
  <2> QED
    BY <2>1, <2>6
<1>5. \A U \in SUBSET T : U \in P
  <2> HIDE DEF P
  <2> QED
    BY <1>3, <1>4, InductionByElements
<1> QED
  BY <1>5 DEF F

\* Sums compare as their numbers do.
LEMMA SumsCompared ==
  ASSUME NEW S, IsFiniteSet(S), NEW f, NEW g, \A x \in S : f[x] \in Int /\ g[x] \in Int
  PROVE  /\ (\A x \in S : f[x] <= g[x]) => SumFunctionOnSet(f, S) <= SumFunctionOnSet(g, S)
         /\ S # {} /\ (\A x \in S : f[x] < g[x]) => SumFunctionOnSet(f, S) < SumFunctionOnSet(g, S)
<1> DEFINE F(T) == SumFunctionOnSet(f, T)
           G(T) == SumFunctionOnSet(g, T)
           P == {T \in SUBSET S : /\ (\A x \in T : f[x] <= g[x]) => F(T) <= G(T)
                                  /\ T # {} /\ (\A x \in T : f[x] < g[x]) => F(T) < G(T)}
<1>1. /\ F({}) = 0 /\ \A T \in SUBSET S : F(T) \in Int
      /\ \A T \in SUBSET S : \A x \in S \ T : F(T \cup {x}) = F(T) + f[x] /\ f[x] \in Int
  BY SumsGrow DEF SumGrows
<1>2. /\ G({}) = 0 /\ \A T \in SUBSET S : G(T) \in Int
      /\ \A T \in SUBSET S : \A x \in S \ T : G(T \cup {x}) = G(T) + g[x] /\ g[x] \in Int
  BY SumsGrow DEF SumGrows
<1> HIDE DEF F, G
<1>3. {} \in P
  BY <1>1, <1>2
<1>4. ASSUME NEW T \in SUBSET S, NEW x \in S \ T, T \in P
      PROVE  T \cup {x} \in P
  <2>1. /\ F(T) \in Int /\ F(T \cup {x}) = F(T) + f[x] /\ f[x] \in Int
        /\ G(T) \in Int /\ G(T \cup {x}) = G(T) + g[x] /\ g[x] \in Int
    BY <1>1, <1>2
  <2>2. (\A y \in T \cup {x} : f[y] <= g[y]) => F(T \cup {x}) <= G(T \cup {x})
    BY <1>4, <2>1
  <2>3. ASSUME \A y \in T \cup {x} : f[y] < g[y] PROVE F(T \cup {x}) < G(T \cup {x})
    <3>1. f[x] < g[x] /\ \A y \in T : f[y] < g[y]
      BY <2>3
    <3>2. F(T) <= G(T)
      BY <1>1, <1>2, <1>4, <2>1, <3>1
    <3> QED
      BY <2>1, <3>1, <3>2
  <2> QED
    BY <2>2, <2>3
<1>5. \A T \in SUBSET S : T \in P
  <2> HIDE DEF P
  <2> QED
    BY <1>3, <1>4, InductionByElements
<1>6. S \in P
  BY <1>5
<1> QED
  BY <1>6 DEF F, G

\* The sum of sums.
LEMMA SumOfSums ==
  ASSUME NEW S, IsFiniteSet(S), NEW f, NEW g, NEW h,
         \A x \in S : f[x] \in Int /\ g[x] \in Int /\ h[x] = f[x] + g[x]
  PROVE  SumFunctionOnSet(h, S) = SumFunctionOnSet(f, S) + SumFunctionOnSet(g, S)
<1> DEFINE F(T) == SumFunctionOnSet(f, T)
           G(T) == SumFunctionOnSet(g, T)
           H(T) == SumFunctionOnSet(h, T)
           P == {T \in SUBSET S : H(T) = F(T) + G(T)}
<1>1. /\ F({}) = 0 /\ \A T \in SUBSET S : F(T) \in Int
      /\ \A T \in SUBSET S : \A x \in S \ T : F(T \cup {x}) = F(T) + f[x] /\ f[x] \in Int
  BY SumsGrow DEF SumGrows
<1>2. /\ G({}) = 0 /\ \A T \in SUBSET S : G(T) \in Int
      /\ \A T \in SUBSET S : \A x \in S \ T : G(T \cup {x}) = G(T) + g[x] /\ g[x] \in Int
  BY SumsGrow DEF SumGrows
<1>3. H({}) = 0 /\ \A T \in SUBSET S : \A x \in S \ T : H(T \cup {x}) = H(T) + h[x]
  BY SumsGrow DEF SumGrows
<1> HIDE DEF F, G, H
<1>4. {} \in P
  BY <1>1, <1>2, <1>3
<1>5. ASSUME NEW T \in SUBSET S, NEW x \in S \ T, T \in P
      PROVE  T \cup {x} \in P
  <2>1. /\ F(T) \in Int /\ F(T \cup {x}) = F(T) + f[x] /\ f[x] \in Int
        /\ G(T) \in Int /\ G(T \cup {x}) = G(T) + g[x] /\ g[x] \in Int
        /\ H(T \cup {x}) = H(T) + h[x]
    BY <1>1, <1>2, <1>3
  <2> QED
    BY <1>5, <2>1
<1>6. \A T \in SUBSET S : T \in P
  <2> HIDE DEF P
  <2> QED
    BY <1>4, <1>5, InductionByElements
<1> QED
  BY <1>6 DEF F, G, H

\* A common factor of the numbers.
LEMMA SumOfMultiples ==
  ASSUME NEW S, IsFiniteSet(S), NEW k \in Int, NEW f, NEW h,
         \A x \in S : f[x] \in Int /\ h[x] = k * f[x]
  PROVE  SumFunctionOnSet(h, S) = k * SumFunctionOnSet(f, S)
<1> DEFINE F(T) == SumFunctionOnSet(f, T)
           H(T) == SumFunctionOnSet(h, T)
           P == {T \in SUBSET S : H(T) = k * F(T)}
<1>1. /\ F({}) = 0 /\ \A T \in SUBSET S : F(T) \in Int
      /\ \A T \in SUBSET S : \A x \in S \ T : F(T \cup {x}) = F(T) + f[x] /\ f[x] \in Int
    BY SumsGrow DEF SumGrows
<1>2. H({}) = 0 /\ \A T \in SUBSET S : \A x \in S \ T : H(T \cup {x}) = H(T) + h[x]
  BY SumsGrow DEF SumGrows
<1> HIDE DEF F, H
<1>3. {} \in P
  BY <1>1, <1>2
<1>4. ASSUME NEW T \in SUBSET S, NEW x \in S \ T, T \in P
      PROVE  T \cup {x} \in P
  <2>1. F(T) \in Int /\ F(T \cup {x}) = F(T) + f[x] /\ f[x] \in Int
    BY <1>1
  <2>2. H(T \cup {x}) = H(T) + h[x]
    BY <1>2
  <2>3. H(T) = k * F(T) /\ h[x] = k * f[x]
    BY <1>4
  <2>4. k * (F(T) + f[x]) = k * F(T) + k * f[x]
    BY <2>1
  <2> QED
    BY <2>1, <2>2, <2>3, <2>4
<1>5. \A T \in SUBSET S : T \in P
  <2> HIDE DEF P
  <2> QED
    BY <1>3, <1>4, InductionByElements
<1> QED
  BY <1>5 DEF F, H

\* A set has as many elements as ones in it.
LEMMA SumOfOnes ==
  ASSUME NEW S, IsFiniteSet(S), NEW f, \A x \in S : f[x] = 1
  PROVE  SumFunctionOnSet(f, S) = Cardinality(S)
<1> DEFINE F(T) == SumFunctionOnSet(f, T)
           P == {T \in SUBSET S : F(T) = Cardinality(T)}
<1>1. F({}) = 0 /\ \A T \in SUBSET S : \A x \in S \ T : F(T \cup {x}) = F(T) + f[x]
  BY SumsGrow DEF SumGrows
<1>2. \A T \in SUBSET S : IsFiniteSet(T)
  BY FS_Subset
<1>3. \A T \in SUBSET S : \A x \in S \ T : Cardinality(T \cup {x}) = Cardinality(T) + 1
  BY <1>2, FS_AddElement
<1> HIDE DEF F
<1>4. {} \in P
  BY <1>1, FS_EmptySet
<1>5. \A T \in SUBSET S : \A x \in S \ T : T \in P => T \cup {x} \in P
  BY <1>1, <1>3
<1>6. \A T \in SUBSET S : T \in P
  <2> HIDE DEF P
  <2> QED
    BY <1>4, <1>5, InductionByElements
<1> QED
  BY <1>6 DEF F

\* The elements of S with key k.
Class(S, key, k) == {x \in S : key[x] = k}

\* A sum is the sum of the sums of its classes.
LEMMA SumOverClasses ==
  ASSUME NEW S, IsFiniteSet(S), NEW f, \A x \in S : f[x] \in Int,
         NEW K, IsFiniteSet(K), NEW key, \A x \in S : key[x] \in K,
         NEW sums,
         \A k \in K : sums[k] = SumFunctionOnSet(f, Class(S, key, k))
  PROVE  SumFunctionOnSet(sums, K) = SumFunctionOnSet(f, S)
<1> DEFINE Of(L) == {x \in S : key[x] \in L}
           F(T) == SumFunctionOnSet(f, T)
           G(L) == SumFunctionOnSet(sums, L)
           P == {L \in SUBSET K : G(L) = F(Of(L))}
<1>1. F({}) = 0 /\ \A T \in SUBSET S : F(T) \in Int
  BY SumsGrow DEF SumGrows
<1>2. \A k \in K : sums[k] \in Int
  <2> TAKE k \in K
  <2>1. Class(S, key, k) \in SUBSET S
    BY DEF Class
  <2> QED
    BY <1>1, <2>1
<1>3. G({}) = 0 /\ \A L \in SUBSET K : \A k \in K \ L : G(L \cup {k}) = G(L) + sums[k]
  BY <1>2, SumsGrow DEF SumGrows
<1>4. \A L \in SUBSET K : \A k \in K \ L : F(Of(L \cup {k})) = F(Of(L)) + sums[k]
  <2> TAKE L \in SUBSET K
  <2> TAKE k \in K \ L
  <2> DEFINE A == Of(L)
             B == Class(S, key, k)
  <2>1. /\ Of(L \cup {k}) = A \cup B /\ A \cap B = {}
        /\ A \subseteq S /\ B \subseteq S /\ \A x \in A \cup B : f[x] \in Int
    BY DEF Class
  <2>2. IsFiniteSet(A) /\ IsFiniteSet(B)
    BY <2>1, FS_Subset
  <2>3. sums[k] = F(B)
    OBVIOUS
  <2> HIDE DEF A, B
  <2>4. SumFunctionOnSet(f, A \cup B) = SumFunctionOnSet(f, A) + SumFunctionOnSet(f, B)
    BY <2>1, <2>2, SumOfUnion
  <2> HIDE DEF Of
  <2>5. F(Of(L \cup {k})) = F(A) + F(B)
    BY <2>1, <2>4, Zenon
  <2> HIDE DEF F
  <2> QED
    BY <2>3, <2>5 DEF A
<1>5. Of({}) = {} /\ Of(K) = S
  OBVIOUS
<1> HIDE DEF F, G, Of
<1>6. {} \in P
  BY <1>1, <1>3, <1>5
<1>7. \A L \in SUBSET K : \A k \in K \ L : L \in P => L \cup {k} \in P
  BY <1>3, <1>4
<1>8. \A L \in SUBSET K : L \in P
  <2> HIDE DEF P
  <2> QED
    BY <1>6, <1>7, InductionByElements
<1>9. G(K) = F(Of(K))
  BY <1>8
<1> QED
  BY <1>5, <1>9 DEF F, G

\* The classes of a set have as many elements together as the set.
LEMMA ElementsOfClasses ==
  ASSUME NEW S, IsFiniteSet(S), NEW K, IsFiniteSet(K), NEW key, \A x \in S : key[x] \in K,
         NEW sizes,
         \A k \in K : sizes[k] = Cardinality(Class(S, key, k))
  PROVE  SumFunctionOnSet(sizes, K) = Cardinality(S)
<1> DEFINE one == [x \in S |-> 1]
<1>1. one \in [S -> Int] /\ \A x \in S : one[x] = 1
  OBVIOUS
<1> HIDE DEF one
<1>2. SumFunctionOnSet(one, S) = Cardinality(S)
  BY <1>1, SumOfOnes
<1>3. ASSUME NEW k \in K PROVE sizes[k] = SumFunctionOnSet(one, Class(S, key, k))
  <2> DEFINE T == Class(S, key, k)
  <2>1. T \subseteq S /\ sizes[k] = Cardinality(T) /\ \A x \in T : one[x] = 1
    BY <1>1 DEF Class
  <2>2. IsFiniteSet(T)
    BY <2>1, FS_Subset
  <2> HIDE DEF T
  <2>3. SumFunctionOnSet(one, T) = Cardinality(T)
    BY <1>1, <2>1, <2>2, SumOfOnes
  <2>4. sizes[k] = SumFunctionOnSet(one, T)
    BY <2>1, <2>3
  <2> QED
    BY <2>4 DEF T
<1>4. SumFunctionOnSet(sizes, K) = SumFunctionOnSet(one, S)
  <2>1. \A x \in S : one[x] \in Int
    BY <1>1
  <2> QED
    BY <1>3, <2>1, SumOverClasses
<1> QED
  BY <1>2, <1>4

\* The sums of the rows and of the columns of a table of numbers.
SumsOfTable(S, T, row, column, rows, columns) ==
    /\ IsFiniteSet(S) /\ IsFiniteSet(T)
    /\ \A x \in S, y \in T : row[x][y] \in Int /\ column[y][x] = row[x][y]
    /\ \A x \in S : rows[x] = SumFunctionOnSet(row[x], T)
    /\ \A y \in T : columns[y] = SumFunctionOnSet(column[y], S)

\* A table has the same sum by rows and by columns.
LEMMA SumsByRowAndColumn ==
  ASSUME NEW S, NEW T, NEW row, NEW column, NEW rows, NEW columns,
         SumsOfTable(S, T, row, column, rows, columns)
  PROVE  SumFunctionOnSet(rows, S) = SumFunctionOnSet(columns, T)
<1> SUFFICES ASSUME IsFiniteSet(S), IsFiniteSet(T),
                    \A x \in S, y \in T : row[x][y] \in Int /\ column[y][x] = row[x][y],
                    \A x \in S : rows[x] = SumFunctionOnSet(row[x], T),
                    \A y \in T : columns[y] = SumFunctionOnSet(column[y], S)
             PROVE  SumFunctionOnSet(rows, S) = SumFunctionOnSet(columns, T)
  BY DEF SumsOfTable
<1> DEFINE R(U) == SumFunctionOnSet(rows, U)
           part(U) == [y \in T |-> SumFunctionOnSet(column[y], U)]
           C(U) == SumFunctionOnSet(part(U), T)
           P == {U \in SUBSET S : R(U) = C(U)}
<1>1. \A x \in S : rows[x] \in Int
  BY SumStep
<1>2. R({}) = 0 /\ \A U \in SUBSET S : \A x \in S \ U : R(U \cup {x}) = R(U) + rows[x]
  BY <1>1, SumsGrow DEF SumGrows
<1>3. ASSUME NEW y \in T
      PROVE  /\ SumFunctionOnSet(column[y], {}) = 0
             /\ \A U \in SUBSET S : SumFunctionOnSet(column[y], U) \in Int
             /\ \A U \in SUBSET S : \A x \in S \ U :
                   SumFunctionOnSet(column[y], U \cup {x}) = SumFunctionOnSet(column[y], U) + row[x][y]
  <2>1. \A x \in S : column[y][x] \in Int /\ column[y][x] = row[x][y]
    OBVIOUS
  <2> QED
    BY <2>1, SumsGrow DEF SumGrows
<1>4. \A U \in SUBSET S : part(U) \in [T -> Int]
  BY <1>3
<1>5. C({}) = 0
  <2> DEFINE zero == [y \in T |-> 0]
  <2>1. part({}) = zero /\ zero \in [T -> Int] /\ \A y \in T : zero[y] = 0 * zero[y]
    BY <1>3
  <2> HIDE DEF zero, part
  <2>2. SumFunctionOnSet(zero, T) = 0 * SumFunctionOnSet(zero, T) /\ SumFunctionOnSet(zero, T) \in Int
    BY <2>1, SumOfMultiples, SumStep
  <2>3. SumFunctionOnSet(zero, T) = 0
    BY <2>2
  <2> QED
    BY <2>1, <2>3
<1>6. ASSUME NEW U \in SUBSET S, NEW x \in S \ U PROVE C(U \cup {x}) = C(U) + rows[x]
  <2> DEFINE r == row[x]
             p == part(U)
             q == part(U \cup {x})
  <2>1. rows[x] = SumFunctionOnSet(r, T) /\ \A y \in T : r[y] \in Int
    OBVIOUS
  <2>2. p \in [T -> Int] /\ q \in [T -> Int]
    BY <1>4
  <2>3. \A y \in T : q[y] = p[y] + r[y]
    BY <1>3
  <2>4. C(U) = SumFunctionOnSet(p, T) /\ C(U \cup {x}) = SumFunctionOnSet(q, T)
    OBVIOUS
  <2> HIDE DEF p, q, r, C
  <2>5. \A y \in T : p[y] \in Int /\ r[y] \in Int /\ q[y] = p[y] + r[y]
    BY <2>1, <2>2, <2>3
  <2>6. SumFunctionOnSet(q, T) = SumFunctionOnSet(p, T) + SumFunctionOnSet(r, T)
    BY <2>5, SumOfSums
  <2> QED
    BY <2>1, <2>4, <2>6
<1>7. \A y \in T : part(S)[y] = columns[y]
  OBVIOUS
<1>8. C(S) = SumFunctionOnSet(columns, T)
  <2>1. part(S) \in [T -> Int]
    BY <1>4
  <2> HIDE DEF part
  <2> QED
    BY <1>7, <2>1, SumOfEquals
<1> HIDE DEF R, C
<1>9. {} \in P /\ \A U \in SUBSET S : \A x \in S \ U : U \in P => U \cup {x} \in P
  BY <1>2, <1>5, <1>6
<1>10. \A U \in SUBSET S : U \in P
  <2> HIDE DEF P
  <2> QED
    BY <1>9, InductionByElements
<1>11. R(S) = C(S)
  BY <1>10
<1> QED
  BY <1>8, <1>11 DEF R

\* The sum of a function is that of any other with the same values.
LEMMA SumOfFunction ==
  ASSUME NEW S, IsFiniteSet(S), NEW f, NEW g, DOMAIN g = S,
         \A x \in S : f[x] \in Int /\ g[x] = f[x]
  PROVE  SumFunction(g) = SumFunctionOnSet(f, S) /\ SumFunction(g) \in Int
<1>1. SumFunctionOnSet(f, S) = SumFunctionOnSet(g, S)
  BY SumOfEquals
<1>2. SumFunction(g) = SumFunctionOnSet(g, S)
  BY Zenon DEF SumFunction
<1>3. SumFunctionOnSet(f, S) \in Int
  BY SumStep
<1> QED
  BY <1>1, <1>2, <1>3

\* The values of a function on a finite set are finitely many.
LEMMA FiniteImage ==
  ASSUME NEW S, IsFiniteSet(S), NEW f
  PROVE  IsFiniteSet({f[x] : x \in S})
<1> DEFINE T == {f[x] : x \in S}
           g == [x \in S |-> f[x]]
<1>1. g \in Surjection(S, T)
  <2>1. g \in [S -> T]
    OBVIOUS
  <2>2. \A t \in T : \E x \in S : g[x] = t
    OBVIOUS
  <2> HIDE DEF g, T
  <2> QED
    BY <2>1, <2>2 DEF Surjection
<1> HIDE DEF g, T
<1>2. IsFiniteSet(T)
  BY <1>1, FS_Surjection
<1> QED
  BY <1>2 DEF T

\* The sum over one element.
LEMMA SumOfOne ==
  ASSUME NEW f, NEW x, f[x] \in Int
  PROVE  SumFunctionOnSet(f, {x}) = f[x]
<1>1. IsFiniteSet({}) /\ {} \cup {x} = {x} /\ x \notin {} /\ \A y \in {} \cup {x} : f[y] \in Int
  BY FS_EmptySet
<1>2. SumFunctionOnSet(f, {} \cup {x}) = SumFunctionOnSet(f, {}) + f[x]
  BY <1>1, SumWith
<1>3. SumFunctionOnSet(f, {}) = 0
  BY <1>1, SumStep
<1>4. SumFunctionOnSet(f, {x}) = SumFunctionOnSet(f, {} \cup {x})
  BY <1>1, Zenon
<1> QED
  BY <1>2, <1>3, <1>4

\* Sums of natural numbers are natural numbers.
LEMMA SumOfNaturals ==
  ASSUME NEW S, IsFiniteSet(S), NEW f, \A x \in S : f[x] \in Nat
  PROVE  SumFunctionOnSet(f, S) \in Nat
<1> DEFINE zero == [x \in S |-> 0]
<1>1. \A x \in S : zero[x] \in Int /\ zero[x] = 0 * f[x] /\ f[x] \in Int /\ zero[x] <= f[x]
  OBVIOUS
<1> HIDE DEF zero
<1>2. SumFunctionOnSet(f, S) \in Int
  BY <1>1, SumStep
<1>3. SumFunctionOnSet(zero, S) = 0 * SumFunctionOnSet(f, S)
  BY <1>1, SumOfMultiples
<1>4. SumFunctionOnSet(zero, S) <= SumFunctionOnSet(f, S)
  BY <1>1, SumsCompared
<1> QED
  BY <1>2, <1>3, <1>4

\* The ones of a subset.
LEMMA SumOfMembers ==
  ASSUME NEW S, IsFiniteSet(S), NEW T, T \subseteq S, NEW f,
         \A x \in S : f[x] = IF x \in T THEN 1 ELSE 0
  PROVE  SumFunctionOnSet(f, S) = Cardinality(T)
<1> DEFINE U == S \ T
<1>1. IsFiniteSet(T) /\ IsFiniteSet(U) /\ T \cap U = {} /\ T \cup U = S
  BY FS_Subset
<1>2. \A x \in T : f[x] = 1
  OBVIOUS
<1>3. \A x \in U : f[x] \in Int /\ f[x] = 0 * f[x]
  OBVIOUS
<1>4. \A x \in T \cup U : f[x] \in Int
  OBVIOUS
<1> HIDE DEF U
<1>5. SumFunctionOnSet(f, T \cup U) = SumFunctionOnSet(f, T) + SumFunctionOnSet(f, U)
  BY <1>1, <1>4, SumOfUnion
<1>6. SumFunctionOnSet(f, T) = Cardinality(T) /\ Cardinality(T) \in Nat
  BY <1>1, <1>2, SumOfOnes, FS_CardinalityType
<1>7. SumFunctionOnSet(f, U) = 0
  <2>1. SumFunctionOnSet(f, U) = 0 * SumFunctionOnSet(f, U) /\ SumFunctionOnSet(f, U) \in Int
    BY <1>1, <1>3, SumOfMultiples, SumStep
  <2> QED
    BY <2>1
<1>8. SumFunctionOnSet(f, S) = SumFunctionOnSet(f, T \cup U)
  BY <1>1, Zenon
<1> QED
  BY <1>5, <1>6, <1>7, <1>8

\* Counted items whose counts sum up to n.
AddUpTo(items, n) ==
    /\ IsFiniteSet(items)
    /\ \A item \in items : item.count \in Nat
    /\ SumFunctionOnSet([item \in items |-> item.count], items) = n

\* Items that count the columns of a table sum up to the sum of its rows.
LEMMA ItemsAddUp ==
  ASSUME NEW I, NEW X, NEW row, NEW column, NEW total, NEW count,
         SumsOfTable(I, X, row, column, total, count), \A x \in X : count[x] \in Nat, NEW name
  PROVE  AddUpTo({[id |-> x, key |-> name[x], count |-> count[x]] : x \in X},
                 SumFunctionOnSet(total, I))
<1> DEFINE item == [x \in X |-> [id |-> x, key |-> name[x], count |-> count[x]]]
           items == {item[x] : x \in X}
           counts == [z \in items |-> z.count]
           ids == [z \in items |-> z.id]
<1>1. IsFiniteSet(items) /\ IsFiniteSet(X)
  <2>1. IsFiniteSet(X)
    BY DEF SumsOfTable
  <2> HIDE DEF item
  <2> QED
    BY <2>1, FiniteImage
<1>3. \A x \in X : item[x] \in items /\ item[x].id = x /\ item[x].count = count[x]
  OBVIOUS
<1>4. \A z \in items : \E x \in X : z = item[x]
  OBVIOUS
<1>5. \A z \in items : counts[z] = z.count /\ ids[z] = z.id
  OBVIOUS
<1> HIDE DEF item, items, counts, ids
<1>6. \A z \in items : z.count \in Nat /\ counts[z] \in Int /\ ids[z] \in X
  BY <1>3, <1>4, <1>5
<1>7. ASSUME NEW x \in X PROVE count[x] = SumFunctionOnSet(counts, Class(items, ids, x))
  <2>1. Class(items, ids, x) = {item[x]}
    BY <1>3, <1>4, <1>5 DEF Class
  <2>2. counts[item[x]] \in Int /\ counts[item[x]] = count[x]
    BY <1>3, <1>5, <1>6
  <2>3. SumFunctionOnSet(counts, {item[x]}) = counts[item[x]]
    BY <2>2, SumOfOne
  <2> QED
    BY <2>1, <2>2, <2>3, Zenon
<1>8. SumFunctionOnSet(count, X) = SumFunctionOnSet(counts, items)
  BY <1>1, <1>6, <1>7, SumOverClasses
<1>9. SumFunctionOnSet(total, I) = SumFunctionOnSet(count, X)
  BY SumsByRowAndColumn
<1>10. AddUpTo(items, SumFunctionOnSet(total, I))
  <2>1. counts = [z \in items |-> z.count]
    BY DEF counts
  <2>2. SumFunctionOnSet([z \in items |-> z.count], items) = SumFunctionOnSet(total, I)
    BY <1>8, <1>9, <2>1, Zenon
  <2> QED
    BY <1>1, <1>6, <2>2, Zenon DEF AddUpTo
<1>11. items = {[id |-> x, key |-> name[x], count |-> count[x]] : x \in X}
  BY DEF items, item
<1> QED
  BY <1>10, <1>11, Zenon

-----------------------------------------------------------------------------
(* Finite sets, and sequences without repetition.                          *)

\* A subset of a finite set, and the rest of it.
LEMMA PartsOfASet ==
  ASSUME NEW S, IsFiniteSet(S), NEW T, T \subseteq S
  PROVE  /\ IsFiniteSet(T) /\ IsFiniteSet(S \ T)
         /\ Cardinality(S) \in Nat /\ Cardinality(T) \in Nat /\ Cardinality(S \ T) \in Nat
         /\ Cardinality(S \ T) = Cardinality(S) - Cardinality(T)
<1>1. IsFiniteSet(T) /\ IsFiniteSet(S \ T)
  BY FS_Subset
<1>2. Cardinality(S) \in Nat /\ Cardinality(T) \in Nat /\ Cardinality(S \ T) \in Nat
  BY <1>1, FS_CardinalityType
<1>3. S \cap T = T
  OBVIOUS
<1>4. Cardinality(S \cap T) = Cardinality(T)
  BY <1>3, Zenon
<1>5. Cardinality(S \ T) = Cardinality(S) - Cardinality(S \cap T)
  BY <1>1, FS_Difference
<1> QED
  BY <1>1, <1>2, <1>4, <1>5

\* A finite set of integers has a smallest and a largest element.
LEMMA FiniteBounds ==
  ASSUME NEW S, IsFiniteSet(S), S \subseteq Int, S # {}
  PROVE  /\ Min(S) \in S /\ \A x \in S : Min(S) <= x
         /\ Max(S) \in S /\ \A x \in S : x <= Max(S)
<1> DEFINE Bounded(T) == \E a, b \in T : \A x \in T : a <= x /\ x <= b
           P == {T \in SUBSET S : T # {} => Bounded(T)}
<1>1. {} \in P
  OBVIOUS
<1>2. ASSUME NEW T \in SUBSET S, NEW x \in S \ T, T \in P PROVE T \cup {x} \in P
  <2>1. CASE T = {}
    <3>1. x \in Int /\ T \cup {x} = {x}
      BY <2>1
    <3>2. Bounded({x})
      BY <3>1
    <3> HIDE DEF Bounded
    <3> QED
      BY <3>1, <3>2
  <2>2. CASE T # {}
    <3>1. PICK a, b \in T : \A y \in T : a <= y /\ y <= b
      BY <1>2, <2>2
    <3> DEFINE U == T \cup {x}
               c == IF x <= a THEN x ELSE a
               d == IF x <= b THEN b ELSE x
    <3>2. x \in Int /\ a \in Int /\ b \in Int /\ \A y \in T : y \in Int
      OBVIOUS
    <3>3. c \in U /\ d \in U /\ \A y \in U : c <= y /\ y <= d
      BY <3>1, <3>2
    <3> HIDE DEF c, d, U
    <3>4. Bounded(U)
      BY <3>3
    <3> HIDE DEF Bounded
    <3> QED
      BY <3>4 DEF U
  <2> QED
    BY <2>1, <2>2
<1>3. \A T \in SUBSET S : T \in P
  <2> HIDE DEF P
  <2> QED
    BY <1>1, <1>2, InductionByElements
<1>4. PICK a, b \in S : \A x \in S : a <= x /\ x <= b
  BY <1>3
<1>5. Min(S) \in S /\ \A x \in S : Min(S) <= x
  BY <1>4 DEF Min
<1>6. Max(S) \in S /\ \A x \in S : Max(S) >= x
  <2>1. \A x \in S : b >= x
    BY <1>4
  <2> QED
    BY <2>1 DEF Max
<1> QED
  BY <1>5, <1>6

\* A sequence without repetition, and one more element.
LEMMA AppendedIsInjective ==
  ASSUME NEW B, NEW s \in Seq(B), NEW x \in B
  PROVE  /\ Append(s, x) \in Seq(B) /\ Len(Append(s, x)) = Len(s) + 1 /\ Len(s) \in Nat
         /\ Range(Append(s, x)) = Range(s) \cup {x}
         /\ IsInjective(s) /\ x \notin Range(s) => IsInjective(Append(s, x))
<1> DEFINE n == Len(s)
           t == Append(s, x)
<1>1. /\ n \in Nat /\ DOMAIN s = 1 .. n /\ t \in Seq(B) /\ Len(t) = n + 1
      /\ DOMAIN t = 1 .. (n + 1) /\ t[n + 1] = x /\ \A i \in 1 .. n : t[i] = s[i]
  BY AppendProperties, LenProperties
<1>2. 1 .. (n + 1) = (1 .. n) \cup {n + 1}
  BY <1>1
<1> HIDE DEF n, t
<1>3. Range(t) = Range(s) \cup {x}
  BY <1>1, <1>2 DEF Range
<1>4. IsInjective(s) /\ x \notin Range(s) => IsInjective(t)
  BY <1>1, <1>2 DEF Range, IsInjective
<1> QED
  BY <1>1, <1>3, <1>4 DEF n, t

\* Two sequences without repetition or common element, one after the other.
LEMMA JoinedIsInjective ==
  ASSUME NEW B, NEW s \in Seq(B), NEW t \in Seq(B),
         IsInjective(s), IsInjective(t), Range(s) \cap Range(t) = {}
  PROVE  /\ s \o t \in Seq(B) /\ Len(s \o t) = Len(s) + Len(t)
         /\ Range(s \o t) = Range(s) \cup Range(t)
         /\ IsInjective(s \o t)
<1> DEFINE m == Len(s)
           n == Len(t)
           u == s \o t
<1>1. /\ m \in Nat /\ n \in Nat /\ DOMAIN s = 1 .. m /\ DOMAIN t = 1 .. n
      /\ u \in Seq(B) /\ Len(u) = m + n /\ DOMAIN u = 1 .. (m + n)
      /\ \A i \in 1 .. m + n : u[i] = IF i <= m THEN s[i] ELSE t[i - m]
  BY ConcatProperties, LenProperties
<1> HIDE DEF m, n, u
<1>2. ASSUME NEW i \in 1 .. m + n
      PROVE  \/ i \in 1 .. m /\ u[i] = s[i] /\ u[i] \in Range(s)
             \/ i - m \in 1 .. n /\ u[i] = t[i - m] /\ u[i] \in Range(t)
  <2>1. CASE i <= m
    <3>1. i \in 1 .. m
      BY <1>1, <2>1
    <3> QED
      BY <1>1, <2>1, <3>1 DEF Range
  <2>2. CASE ~ (i <= m)
    <3>1. i - m \in 1 .. n
      BY <1>1, <2>2
    <3> QED
      BY <1>1, <2>2, <3>1 DEF Range
  <2> QED
    BY <2>1, <2>2
<1>3. ASSUME NEW i \in 1 .. m PROVE i \in 1 .. m + n /\ u[i] = s[i]
  BY <1>1
<1>4. ASSUME NEW i \in 1 .. n PROVE i + m \in 1 .. m + n /\ u[i + m] = t[i]
  <2>1. i + m \in 1 .. m + n /\ ~ (i + m <= m) /\ (i + m) - m = i
    BY <1>1
  <2> QED
    BY <1>1, <2>1
<1>5. Range(u) = Range(s) \cup Range(t)
  <2>1. \A x \in Range(u) : x \in Range(s) \cup Range(t)
    BY <1>1, <1>2 DEF Range
  <2>2. \A x \in Range(s) : x \in Range(u)
    BY <1>1, <1>3 DEF Range
  <2>3. \A x \in Range(t) : x \in Range(u)
    BY <1>1, <1>4 DEF Range
  <2> QED
    BY <2>1, <2>2, <2>3
<1>6. ASSUME NEW i \in 1 .. m + n, NEW j \in 1 .. m + n, u[i] = u[j] PROVE i = j
  <2>1. CASE i \in 1 .. m /\ u[i] = s[i] /\ u[i] \in Range(s)
    <3>1. j \in 1 .. m /\ u[j] = s[j]
      BY <1>2, <1>6, <2>1
    <3> QED
      BY <1>1, <1>6, <2>1, <3>1 DEF IsInjective
  <2>2. CASE i - m \in 1 .. n /\ u[i] = t[i - m] /\ u[i] \in Range(t)
    <3>1. j - m \in 1 .. n /\ u[j] = t[j - m]
      BY <1>2, <1>6, <2>2
    <3>2. i - m = j - m
      BY <1>1, <1>6, <2>2, <3>1 DEF IsInjective
    <3> QED
      BY <1>1, <3>2
  <2> QED
    BY <1>2, <2>1, <2>2
<1>7. IsInjective(u)
  BY <1>1, <1>6 DEF IsInjective
<1> QED
  BY <1>1, <1>5, <1>7 DEF m, n, u

\* a sequence without repetition has as many elements as positions
LEMMA SizeOfRange ==
  ASSUME NEW B, NEW s \in Seq(B)
  PROVE  /\ IsFiniteSet(Range(s))
         /\ IsInjective(s) => Cardinality(Range(s)) = Len(s)
<1>1. /\ Len(s) \in Nat /\ DOMAIN s = 1 .. Len(s)
  BY LenProperties
<1>2. IsFiniteSet(1 .. Len(s)) /\ Cardinality(1 .. Len(s)) = Len(s)
  <2> DEFINE n == Len(s)
  <2> HIDE DEF n
  <2>1. IsFiniteSet(1 .. n) /\ Cardinality(1 .. n) = n
    BY <1>1, FS_Interval DEF n
  <2> QED
    BY <2>1 DEF n
<1>3. s \in Surjection(DOMAIN s, Range(s))
  <2>1. s \in [DOMAIN s -> Range(s)]
    BY DEF Range
  <2> QED
    BY <2>1 DEF Surjection, Range
<1>4. IsFiniteSet(Range(s))
  BY <1>1, <1>2, <1>3, FS_Surjection
<1>5. ASSUME IsInjective(s) PROVE Cardinality(Range(s)) = Len(s)
  <2>1. s \in Bijection(DOMAIN s, Range(s))
    BY <1>3, <1>5 DEF Bijection, Surjection, Injection, IsInjective
  <2> QED
    BY <1>1, <1>2, <2>1, FS_Bijection DEF ExistsBijection
<1> QED
  BY <1>4, <1>5

-----------------------------------------------------------------------------
(* Folds over a sequence: FoldLeft goes from the last element to the first.*)

\* A set of numbers up to n has a largest element.
LEMMA LargestElement ==
  ASSUME NEW n \in Nat, NEW T, T \subseteq 1 .. n, T # {}
  PROVE  Max(T) \in T /\ \A x \in T : x <= Max(T)
<1> DEFINE U == {n - x : x \in T}
<1>1. U \subseteq Nat /\ U # {}
  <2>1. \A x \in T : n - x \in Nat
    OBVIOUS
  <2> QED
    BY <2>1
<1>2. PICK u \in U : \A v \in U : u <= v
  <2> HIDE DEF U
  <2> QED
    BY <1>1, SmallestElement
<1>3. PICK x \in T : u = n - x
  BY <1>2
<1>4. \A y \in T : x >= y
  <2> TAKE y \in T
  <2>1. n - x <= n - y
    BY <1>2, <1>3
  <2> QED
    BY <2>1
<1>5. Max(T) \in T /\ \A y \in T : Max(T) >= y
  BY <1>4 DEF Max
<1> QED
  BY <1>5

\* The interval 1 .. n is 1 .. n - 1 and n.
LEMMA LastOfInterval ==
  ASSUME NEW n \in Nat \ {0}
  PROVE  Max(1 .. n) = n /\ (1 .. n) \ {n} = 1 .. (n - 1)
<1>1. Max(1 .. n) \in 1 .. n /\ \A x \in 1 .. n : x <= Max(1 .. n)
  <2> DEFINE T == 1 .. n
  <2>1. T \subseteq 1 .. n /\ T # {} /\ n \in Nat
    OBVIOUS
  <2> HIDE DEF T
  <2> QED
    BY <2>1, LargestElement DEF T
<1>2. n \in 1 .. n
  OBVIOUS
<1>3. n <= Max(1 .. n)
  BY <1>1, <1>2
<1> QED
  BY <1>1, <1>3

\* g is the fold of the items by F, from the last one on.
Folding(g, items, base, F) ==
    \A s \in SUBSET DOMAIN items :
        g[s] = IF s = {} THEN base ELSE F[<<g[s \ {Max(s)}], items[Max(s)]>>]

\* A fold over a sequence has a value.
LEMMA FoldingExists ==
  ASSUME NEW A, NEW B, NEW items \in Seq(B), NEW base \in A, NEW F \in [A \X B -> A]
  PROVE  \E g \in [SUBSET DOMAIN items -> A] : Folding(g, items, base, F)
<1> DEFINE n == Len(items)
           S == DOMAIN items
           c == [s \in SUBSET S |-> Max(s)]
           G == [p \in S \X A |-> F[<<p[2], items[p[1]]>>]]
<1>1. n \in Nat /\ S = 1 .. n /\ \A i \in S : items[i] \in B
  OBVIOUS
<1> HIDE DEF n, S
<1>2. IsFiniteSet(S)
  BY <1>1, FS_Interval
<1>3. G \in [S \X A -> A]
  <2> SUFFICES ASSUME NEW p \in S \X A PROVE F[<<p[2], items[p[1]]>>] \in A
    OBVIOUS
  <2>1. p[2] \in A /\ items[p[1]] \in B
    BY <1>1
  <2> QED
    BY <2>1
<1>4. ASSUME NEW s \in SUBSET S, s # {} PROVE Max(s) \in s /\ c[s] = Max(s)
  BY <1>1, <1>4, LargestElement
<1>5. PICK g \in [SUBSET S -> A] : IsFold(g, S, base, G, c)
  <2>1. \A s \in SUBSET S : s # {} => c[s] \in s
    BY <1>4
  <2> HIDE DEF c, G
  <2> QED
    BY <1>2, <1>3, <2>1, FoldExists
<1>6. ASSUME NEW s \in SUBSET S
      PROVE  g[s] = IF s = {} THEN base ELSE F[<<g[s \ {Max(s)}], items[Max(s)]>>]
  <2>1. g[s] = IF s = {} THEN base ELSE G[<<c[s], g[s \ {c[s]}]>>]
    BY <1>5 DEF IsFold
  <2>2. ASSUME s # {} PROVE G[<<c[s], g[s \ {c[s]}]>>] = F[<<g[s \ {Max(s)}], items[Max(s)]>>]
    <3> DEFINE m == Max(s)
    <3>1. c[s] = m /\ m \in S
      BY <1>4, <2>2
    <3> HIDE DEF m, c
    <3>2. g[s \ {m}] \in A
      OBVIOUS
    <3>3. G[<<m, g[s \ {m}]>>] = F[<<g[s \ {m}], items[m]>>]
      BY <3>1, <3>2
    <3> HIDE DEF G
    <3> QED
      BY <3>1, <3>3, Zenon DEF m
  <2> QED
    BY <2>1, <2>2
<1> QED
  BY <1>6 DEF Folding, S
=============================================================================
