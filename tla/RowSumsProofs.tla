--------------------------- MODULE RowSumsProofs ---------------------------
(***************************************************************************)
(* What SumTo computes, for sums of any length, and SumFunctionOnSet of the *)
(* Functions module, for finite sets of any size.                           *)
(*                                                                         *)
(* The induction theorems of the proof library take an operator as their    *)
(* parameter, which the backends cannot instantiate.  Here induction is     *)
(* over a set: WFMin of the library, applied to < on Nat, gives every set   *)
(* of natural numbers a least element, and with it a set that contains 0    *)
(* and is closed under successor contains Nat.                              *)
(***************************************************************************)
EXTENDS RowSums, Functions, FiniteSetTheorems, TLAPS

\* A set of natural numbers has a least element.
LEMMA LeastElement ==
    ASSUME NEW S, S \subseteq Nat, S # {}
    PROVE  \E n \in S : \A m \in S : n <= m
<1> DEFINE R == OpToRel(<, Nat)
<1>1. IsWellFoundedOn(R, Nat)
  BY NatLessThanWellFounded
<1>2. \E x \in S : \A y \in S : ~ (<<y, x>> \in R)
  <2> HIDE DEF R
  <2> QED BY <1>1, WFMin
<1>3. PICK x \in S : \A y \in S : ~ (<<y, x>> \in R)
  BY <1>2
<1>4. \A y \in S : ~ (y < x)
  <2> SUFFICES ASSUME NEW y \in S, y < x PROVE FALSE
    OBVIOUS
  <2>1. <<y, x>> \in R
    BY SMT DEF OpToRel
  <2> QED BY <2>1, <1>3
<1> QED BY <1>4, SMT

\* Induction over the natural numbers, for a set in place of a predicate.
LEMMA InductionOnSet ==
    ASSUME NEW S, 0 \in S, \A n \in Nat : n \in S => n + 1 \in S
    PROVE  Nat \subseteq S
<1> SUFFICES ASSUME Nat \ S # {} PROVE FALSE
  OBVIOUS
<1>1. PICK n \in Nat \ S : \A m \in Nat \ S : n <= m
  BY LeastElement
<1>2. n # 0 /\ n - 1 \in Nat
  BY <1>1, SMT
<1>3. n - 1 \in S
  BY <1>1, <1>2, SMT
<1> QED BY <1>1, <1>2, <1>3, SMT

\* f is the function that SumTo(v, n) defines
IsPartialSum(f, v, n) ==
    f = [k \in 0..n |-> IF k = 0 THEN 0 ELSE f[k - 1] + v[k]]

\* The recursive definition has a solution.
LEMMA PartialSumExists ==
    ASSUME NEW v, NEW n \in Nat
    PROVE  \E f : IsPartialSum(f, v, n)
<1> DEFINE S == {m \in Nat : \E f : IsPartialSum(f, v, m)}
<1>1. 0 \in S
  <2> DEFINE f == [k \in 0..0 |-> 0]
  <2>1. IsPartialSum(f, v, 0)
    BY SMT DEF IsPartialSum
  <2> QED BY <2>1
<1>2. \A m \in Nat : m \in S => m + 1 \in S
  <2> SUFFICES ASSUME NEW m \in Nat, m \in S PROVE m + 1 \in S
    OBVIOUS
  <2>1. PICK f : IsPartialSum(f, v, m)
    OBVIOUS
  <2> DEFINE g == [k \in 0..(m + 1) |-> IF k <= m THEN f[k] ELSE f[m] + v[m + 1]]
  <2>2. IsPartialSum(g, v, m + 1)
    <3> DEFINE h == [k \in 0..(m + 1) |-> IF k = 0 THEN 0 ELSE g[k - 1] + v[k]]
    <3>1. \A k \in 0..(m + 1) : g[k] = h[k]
      <4> SUFFICES ASSUME NEW k \in 0..(m + 1) PROVE g[k] = h[k]
        OBVIOUS
      <4>1. CASE k = 0
        BY <2>1, <4>1, SMT DEF IsPartialSum
      <4>2. CASE k # 0 /\ k <= m
        BY <2>1, <4>2, SMT DEF IsPartialSum
      <4>3. CASE k = m + 1
        BY <4>3, SMT
      <4> QED BY <4>1, <4>2, <4>3, SMT
    <3> QED BY <3>1, SMT DEF IsPartialSum
  <2> QED BY <2>2
<1> HIDE DEF S
<1>3. Nat \subseteq S
  BY <1>1, <1>2, InductionOnSet
<1> QED BY <1>3 DEF S

\* Its solutions for n and for m agree up to the lesser of the two.
LEMMA PartialSumUnique ==
    ASSUME NEW v, NEW n \in Nat, NEW m \in Nat, n <= m, NEW f, NEW g,
           IsPartialSum(f, v, n), IsPartialSum(g, v, m)
    PROVE  \A k \in 0..n : f[k] = g[k]
<1> DEFINE S == {k \in Nat : k \in 0..n => f[k] = g[k]}
<1>1. 0 \in S
  BY SMT DEF IsPartialSum
<1>2. \A k \in Nat : k \in S => k + 1 \in S
  BY SMT DEF IsPartialSum
<1> HIDE DEF S
<1>3. Nat \subseteq S
  BY <1>1, <1>2, InductionOnSet
<1> QED BY <1>3, SMT DEF S

LEMMA SumToIsPartial ==
    ASSUME NEW v, NEW n \in Nat
    PROVE  \E f : IsPartialSum(f, v, n) /\ SumTo(v, n) = f[n]
<1> DEFINE f == CHOOSE f : IsPartialSum(f, v, n)
<1>1. IsPartialSum(f, v, n)
  BY PartialSumExists
<1>2. SumTo(v, n) = f[n]
  BY DEF SumTo, IsPartialSum
<1> QED BY <1>1, <1>2

\* The sum of no rows.
LEMMA SumToZero ==
    ASSUME NEW v
    PROVE  SumTo(v, 0) = 0
<1>1. PICK f : IsPartialSum(f, v, 0) /\ SumTo(v, 0) = f[0]
  BY SumToIsPartial, SMT
<1> QED BY <1>1, SMT DEF IsPartialSum

\* One more row adds its value.
LEMMA SumToNext ==
    ASSUME NEW v, NEW n \in Nat
    PROVE  SumTo(v, n + 1) = SumTo(v, n) + v[n + 1]
<1>1. PICK f : IsPartialSum(f, v, n) /\ SumTo(v, n) = f[n]
  BY SumToIsPartial
<1>2. PICK g : IsPartialSum(g, v, n + 1) /\ SumTo(v, n + 1) = g[n + 1]
  BY SumToIsPartial, SMT
<1>3. f[n] = g[n]
  BY <1>1, <1>2, PartialSumUnique, SMT
<1>4. g[n + 1] = g[n] + v[n + 1]
  BY <1>2, SMT DEF IsPartialSum
<1> QED BY <1>1, <1>2, <1>3, <1>4

\* A sum of integers is an integer.
LEMMA SumToInt ==
    ASSUME NEW v, NEW n \in Nat, \A k \in 1..n : v[k] \in Int
    PROVE  SumTo(v, n) \in Int
<1> DEFINE S == {m \in Nat : m <= n => SumTo(v, m) \in Int}
<1>1. 0 \in S
  BY SumToZero, SMT
<1>2. \A m \in Nat : m \in S => m + 1 \in S
  BY SumToNext, SMT
<1> HIDE DEF S
<1>3. Nat \subseteq S
  BY <1>1, <1>2, InductionOnSet
<1> QED BY <1>3, SMT DEF S

\* Sums of equal rows are equal: rows appended later do not count.
LEMMA SumToSame ==
    ASSUME NEW v, NEW w, NEW n \in Nat, \A k \in 1..n : v[k] = w[k]
    PROVE  SumTo(v, n) = SumTo(w, n)
<1> DEFINE S == {m \in Nat : m <= n => SumTo(v, m) = SumTo(w, m)}
<1>1. 0 \in S
  BY SumToZero, SMT
<1>2. \A m \in Nat : m \in S => m + 1 \in S
  BY SumToNext, SMT
<1> HIDE DEF S
<1>3. Nat \subseteq S
  BY <1>1, <1>2, InductionOnSet
<1> QED BY <1>3, SMT DEF S

\* The sum of sums, row by row.
LEMMA SumToPlus ==
    ASSUME NEW u, NEW v, NEW w, NEW n \in Nat,
           \A k \in 1..n : v[k] \in Int /\ w[k] \in Int /\ u[k] = v[k] + w[k]
    PROVE  SumTo(u, n) = SumTo(v, n) + SumTo(w, n)
<1> DEFINE S == {m \in Nat : m <= n => /\ SumTo(v, m) \in Int /\ SumTo(w, m) \in Int
                                       /\ SumTo(u, m) = SumTo(v, m) + SumTo(w, m)}
<1>1. 0 \in S
  BY SumToZero, SMT
<1>2. \A m \in Nat : m \in S => m + 1 \in S
  BY SumToNext, SMT
<1> HIDE DEF S
<1>3. Nat \subseteq S
  BY <1>1, <1>2, InductionOnSet
<1> QED BY <1>3, SMT DEF S

\* A sum of rows none of which is negative is not negative either.
LEMMA SumToNatural ==
    ASSUME NEW v, NEW n \in Nat, \A k \in 1..n : v[k] \in Nat
    PROVE  SumTo(v, n) \in Nat
<1> DEFINE S == {m \in Nat : m <= n => SumTo(v, m) \in Nat}
<1>1. 0 \in S
  BY SumToZero, SMT
<1>2. \A m \in Nat : m \in S => m + 1 \in S
  BY SumToNext, SMT
<1> HIDE DEF S
<1>3. Nat \subseteq S
  BY <1>1, <1>2, InductionOnSet
<1> QED BY <1>3, SMT DEF S

\* Rows that all hold zero.
LEMMA SumToZeros ==
    ASSUME NEW v, NEW n \in Nat, \A k \in 1..n : v[k] = 0
    PROVE  SumTo(v, n) = 0
<1> DEFINE S == {m \in Nat : m <= n => SumTo(v, m) = 0}
<1>1. 0 \in S
  BY SumToZero, SMT
<1>2. \A m \in Nat : m \in S => m + 1 \in S
  BY SumToNext, SMT
<1> HIDE DEF S
<1>3. Nat \subseteq S
  BY <1>1, <1>2, InductionOnSet
<1> QED BY <1>3, SMT DEF S

\* Rows none of which is negative add up to zero only if all are zero.
LEMMA SumToNothing ==
    ASSUME NEW v, NEW n \in Nat, \A k \in 1..n : v[k] \in Nat, SumTo(v, n) = 0
    PROVE  \A k \in 1..n : v[k] = 0
<1> DEFINE S == {m \in Nat : m <= n => /\ SumTo(v, m) \in Nat
                                       /\ SumTo(v, m) = 0 => \A k \in 1..m : v[k] = 0}
<1>1. 0 \in S
  BY SumToZero, SMT
<1>2. \A m \in Nat : m \in S => m + 1 \in S
  <2> SUFFICES ASSUME NEW m \in Nat, m \in S, m + 1 <= n
               PROVE  /\ SumTo(v, m + 1) \in Nat
                      /\ SumTo(v, m + 1) = 0 => \A k \in 1..(m + 1) : v[k] = 0
    OBVIOUS
  <2>1. SumTo(v, m + 1) = SumTo(v, m) + v[m + 1] /\ v[m + 1] \in Nat
    BY SumToNext, SMT
  <2>2. SumTo(v, m) \in Nat /\ (SumTo(v, m) = 0 => \A k \in 1..m : v[k] = 0)
    BY SMT
  <2> QED BY <2>1, <2>2, SMT
<1> HIDE DEF S
<1>3. Nat \subseteq S
  BY <1>1, <1>2, InductionOnSet
<1> QED BY <1>3, SMT DEF S

\* What is left when every row gives something.
LEMMA SumToMinus ==
    ASSUME NEW u, NEW v, NEW x, NEW n \in Nat,
           \A k \in 1..n : v[k] \in Int, \A k \in 1..n : x[k] \in Int,
           \A k \in 1..n : u[k] = v[k] - x[k]
    PROVE  SumTo(u, n) = SumTo(v, n) - SumTo(x, n)
<1> DEFINE S == {m \in Nat : m <= n => /\ SumTo(v, m) \in Int /\ SumTo(x, m) \in Int
                                       /\ SumTo(u, m) = SumTo(v, m) - SumTo(x, m)}
<1>1. 0 \in S
  BY SumToZero, SMT
<1>2. \A m \in Nat : m \in S => m + 1 \in S
  BY SumToNext, SMT
<1> HIDE DEF S
<1>3. Nat \subseteq S
  BY <1>1, <1>2, InductionOnSet
<1> QED BY <1>3, SMT DEF S

\* The sum of what every row holds and gets, less what is taken from it.
LEMMA SumToChange ==
    ASSUME NEW u, NEW v, NEW w, NEW x, NEW n \in Nat,
           \A k \in 1..n : v[k] \in Int, \A k \in 1..n : w[k] \in Int,
           \A k \in 1..n : x[k] \in Int, \A k \in 1..n : u[k] = v[k] + w[k] - x[k]
    PROVE  SumTo(u, n) = SumTo(v, n) + SumTo(w, n) - SumTo(x, n)
<1> DEFINE S == {m \in Nat : m <= n =>
                    /\ SumTo(v, m) \in Int /\ SumTo(w, m) \in Int /\ SumTo(x, m) \in Int
                    /\ SumTo(u, m) = SumTo(v, m) + SumTo(w, m) - SumTo(x, m)}
<1>1. 0 \in S
  BY SumToZero, SMT
<1>2. \A m \in Nat : m \in S => m + 1 \in S
  BY SumToNext, SMT
<1> HIDE DEF S
<1>3. Nat \subseteq S
  BY <1>1, <1>2, InductionOnSet
<1> QED BY <1>3, SMT DEF S

\* One row of the table changes.
LEMMA SumToOneChanged ==
    ASSUME NEW u, NEW v, NEW n \in Nat, NEW j \in 1..n, NEW d \in Int,
           \A k \in 1..n : v[k] \in Int, u[j] = v[j] + d,
           \A k \in 1..n : k # j => u[k] = v[k]
    PROVE  SumTo(v, n) \in Int /\ SumTo(u, n) = SumTo(v, n) + d
<1> DEFINE S == {m \in Nat : m <= n =>
                    /\ SumTo(v, m) \in Int
                    /\ SumTo(u, m) = SumTo(v, m) + (IF j <= m THEN d ELSE 0)}
<1>1. 0 \in S
  BY SumToZero, SMT
<1>2. \A m \in Nat : m \in S => m + 1 \in S
  <2> SUFFICES ASSUME NEW m \in Nat, m \in S, m + 1 <= n
               PROVE  /\ SumTo(v, m + 1) \in Int
                      /\ SumTo(u, m + 1) = SumTo(v, m + 1) + (IF j <= m + 1 THEN d ELSE 0)
    OBVIOUS
  <2>1. /\ SumTo(v, m + 1) = SumTo(v, m) + v[m + 1]
        /\ SumTo(u, m + 1) = SumTo(u, m) + u[m + 1]
    BY SumToNext
  <2>2. v[m + 1] \in Int /\ u[m + 1] = IF m + 1 = j THEN v[m + 1] + d ELSE v[m + 1]
    BY SMT
  <2>3. SumTo(v, m) \in Int /\ SumTo(u, m) = SumTo(v, m) + (IF j <= m THEN d ELSE 0)
    BY SMT
  <2> QED BY <2>1, <2>2, <2>3, SMT
<1> HIDE DEF S
<1>3. Nat \subseteq S
  BY <1>1, <1>2, InductionOnSet
<1> QED BY <1>3, SMT DEF S

\* One row becomes 0.
LEMMA SumToRowGone ==
    ASSUME NEW u, NEW v, NEW n \in Nat, NEW j \in 1..n,
           \A k \in 1..n : v[k] \in Int /\ (k # j => u[k] = v[k]), u[j] = 0
    PROVE  SumTo(v, n) \in Int /\ SumTo(u, n) = SumTo(v, n) - v[j]
<1> DEFINE d == -v[j]
<1>1. v[j] \in Int /\ d \in Int /\ u[j] = v[j] + d
  BY SMT
<1> HIDE DEF d
<1>2. SumTo(v, n) \in Int /\ SumTo(u, n) = SumTo(v, n) + d
  BY <1>1, SumToOneChanged
<1> QED BY <1>1, <1>2, SMT DEF d

\* One more row, the others as they were.
LEMMA SumToOneMore ==
    ASSUME NEW v, NEW w, NEW n \in Nat, NEW x,
           \A k \in 1..n : v[k] \in Int /\ w[k] = v[k], w[n + 1] = x
    PROVE  SumTo(v, n) \in Int /\ SumTo(w, n + 1) = SumTo(v, n) + x
  BY SumToInt, SumToSame, SumToNext

\* A table to which p rows are added, none or one.
LEMMA SumToAdded ==
    ASSUME NEW v, NEW w, NEW m \in Nat, NEW p, NEW x,
           \A k \in 1..m : v[k] \in Int /\ w[k] = v[k],
           \/ p = 0 /\ x = 0
           \/ p = 1 /\ w[m + 1] = x
    PROVE  SumTo(v, m) \in Int /\ SumTo(w, m + p) = SumTo(v, m) + x
<1>1. SumTo(v, m) \in Int /\ SumTo(w, m) = SumTo(v, m)
  BY SumToInt, SumToSame
<1>2. CASE p = 0 /\ x = 0
  BY <1>1, <1>2, SMT
<1>3. CASE p = 1 /\ w[m + 1] = x
  BY <1>1, <1>3, SumToNext, SMT
<1> QED BY <1>2, <1>3

\* A row that counts for nothing changes no sum.
LEMMA SumToEmptyRow ==
    ASSUME NEW v, NEW w, NEW m \in Nat, NEW p \in {0, 1},
           \A k \in 1..m : v[k] \in Int /\ w[k] = v[k],
           p = 1 => w[m + 1] = 0
    PROVE  SumTo(w, m + p) = SumTo(v, m)
<1>1. SumTo(w, m) = SumTo(v, m) /\ SumTo(v, m) \in Int
  BY SumToSame, SumToInt
<1>2. CASE p = 0
  BY <1>1, <1>2, SMT
<1>3. CASE p = 1
  <2>1. SumTo(w, m + 1) = SumTo(w, m) + w[m + 1]
    BY SumToNext
  <2> QED BY <1>1, <1>3, <2>1, SMT
<1> QED BY <1>2, <1>3

\* The FIFO loop: every row gives what it has, until the amount is reached.
LEMMA SumToParts ==
    ASSUME NEW v, NEW w, NEW n \in Nat, NEW amount \in Nat,
           \A k \in 1..n : /\ v[k] \in Nat
                           /\ w[k] = Lesser(v[k], Greater(0, amount - SumTo(v, k - 1)))
    PROVE  SumTo(w, n) = Lesser(amount, SumTo(v, n))
<1> DEFINE S == {m \in Nat : m <= n => /\ SumTo(v, m) \in Nat
                                       /\ SumTo(w, m) = Lesser(amount, SumTo(v, m))}
<1>1. 0 \in S
  BY SumToZero, SMT DEF Lesser
<1>2. \A m \in Nat : m \in S => m + 1 \in S
  <2> SUFFICES ASSUME NEW m \in Nat, m \in S, m + 1 <= n
               PROVE  /\ SumTo(v, m + 1) \in Nat
                      /\ SumTo(w, m + 1) = Lesser(amount, SumTo(v, m + 1))
    OBVIOUS
  <2>1. /\ SumTo(v, m + 1) = SumTo(v, m) + v[m + 1]
        /\ SumTo(w, m + 1) = SumTo(w, m) + w[m + 1]
    BY SumToNext
  <2>2. v[m + 1] \in Nat /\ w[m + 1] = Lesser(v[m + 1], Greater(0, amount - SumTo(v, m)))
    <3>1. m + 1 \in 1..n /\ (m + 1) - 1 = m
      BY SMT
    <3> QED BY <3>1
  <2>3. SumTo(v, m) \in Nat /\ SumTo(w, m) = Lesser(amount, SumTo(v, m))
    BY SMT
  <2> QED BY <2>1, <2>2, <2>3, SMT DEF Lesser, Greater
<1> HIDE DEF S
<1>3. Nat \subseteq S
  BY <1>1, <1>2, InductionOnSet
<1> QED BY <1>3, SMT DEF S

(***************************************************************************)
(* Sums over a set of rows.  SumFunctionOnSet takes the rows in an order of *)
(* its own choice; what it returns does not depend on it.                   *)
(***************************************************************************)
\* the row the fold of the Functions module takes first
FirstOf(S) == CHOOSE x \in S : TRUE

\* f is the function that SumFunctionOnSet(v, S) defines, on subsets of S with
\* at most n elements
IsFold(f, v, S, n) ==
    f = [s \in {T \in SUBSET S : Cardinality(T) <= n} |->
            IF s = {} THEN 0 ELSE v[FirstOf(s)] + f[s \ {FirstOf(s)}]]

LEMMA FirstIsIn == ASSUME NEW S, S # {} PROVE FirstOf(S) \in S
  BY DEF FirstOf

LEMMA Smaller ==
    ASSUME NEW S, IsFiniteSet(S), S # {}
    PROVE  /\ Cardinality(S) \in Nat /\ Cardinality(S) # 0
           /\ IsFiniteSet(S \ {FirstOf(S)})
           /\ Cardinality(S \ {FirstOf(S)}) = Cardinality(S) - 1
  BY FirstIsIn, FS_RemoveElement, FS_EmptySet, FS_CardinalityType

LEMMA FoldExists ==
    ASSUME NEW v, NEW S, IsFiniteSet(S), NEW n \in Nat
    PROVE  \E f : IsFold(f, v, S, n)
<1> DEFINE D(m) == {T \in SUBSET S : Cardinality(T) <= m}
           M == {m \in Nat : \E f : IsFold(f, v, S, m)}
<1>a. \A T \in SUBSET S : IsFiniteSet(T) /\ Cardinality(T) \in Nat
  BY FS_Subset, FS_CardinalityType
<1>b. \A T \in SUBSET S : T # {} => T \ {FirstOf(T)} \in SUBSET S
  OBVIOUS
<1>1. 0 \in M
  <2> DEFINE f == [s \in D(0) |-> 0]
  <2>1. \A T \in D(0) : T = {}
    BY <1>a, FS_EmptySet
  <2>2. f = [s \in D(0) |-> IF s = {} THEN 0 ELSE v[FirstOf(s)] + f[s \ {FirstOf(s)}]]
    <3> DEFINE g == [s \in D(0) |-> IF s = {} THEN 0 ELSE v[FirstOf(s)] + f[s \ {FirstOf(s)}]]
    <3>1. \A s \in D(0) : f[s] = g[s]
      BY <2>1
    <3> HIDE DEF D
    <3> QED BY <3>1
  <2>3. IsFold(f, v, S, 0)
    BY <2>2 DEF IsFold
  <2> HIDE DEF f
  <2> QED BY <2>3
<1>2. \A m \in Nat : m \in M => m + 1 \in M
  <2> SUFFICES ASSUME NEW m \in Nat, m \in M PROVE m + 1 \in M
    OBVIOUS
  <2>1. PICK f : IsFold(f, v, S, m)
    OBVIOUS
  <2> DEFINE g == [s \in D(m + 1) |-> IF s \in D(m) THEN f[s]
                                      ELSE v[FirstOf(s)] + f[s \ {FirstOf(s)}]]
             h == [s \in D(m + 1) |-> IF s = {} THEN 0 ELSE v[FirstOf(s)] + g[s \ {FirstOf(s)}]]
  <2>2. \A s \in D(m + 1) : g[s] = h[s]
    <3> SUFFICES ASSUME NEW s \in D(m + 1) PROVE g[s] = h[s]
      OBVIOUS
    <3>1. CASE s = {}
      <4>1. s \in D(m)
        BY <3>1, FS_EmptySet
      <4>2. f[s] = 0
        BY <2>1, <3>1, <4>1 DEF IsFold
      <4> QED BY <3>1, <4>1, <4>2
    <3>2. CASE s # {}
      <4> DEFINE t == s \ {FirstOf(s)}
      <4>1. t \in D(m)
        BY <1>a, <3>2, Smaller
      <4>2. t \in D(m + 1)
        BY <4>1, <1>a
      <4>3. g[t] = f[t]
        BY <4>1, <4>2
      <4>4. h[s] = v[FirstOf(s)] + g[t]
        BY <3>2
      <4>5. g[s] = v[FirstOf(s)] + f[t]
        <5>1. CASE s \in D(m)
          BY <5>1, <3>2, <2>1 DEF IsFold
        <5>2. CASE s \notin D(m)
          BY <5>2
        <5> QED BY <5>1, <5>2
      <4> QED BY <4>3, <4>4, <4>5
    <3> QED BY <3>1, <3>2
  <2>3. g = h
    <3> HIDE DEF D
    <3> QED BY <2>2
  <2>4. IsFold(g, v, S, m + 1)
    BY <2>3 DEF IsFold
  <2> HIDE DEF g
  <2> QED BY <2>4
<1> HIDE DEF M
<1>3. Nat \subseteq M
  BY <1>1, <1>2, InductionOnSet
<1> QED BY <1>3 DEF M

\* what SumFunctionOnSet computes, row by row
IsSumOver(f, v, S) ==
    /\ f[{}] = 0
    /\ \A T \in SUBSET S : T # {} => f[T] = v[FirstOf(T)] + f[T \ {FirstOf(T)}]
    /\ SumFunctionOnSet(v, S) = f[S]

LEMMA SumOverExists ==
    ASSUME NEW v, NEW S, IsFiniteSet(S)
    PROVE  \E f : IsSumOver(f, v, S)
<1> DEFINE Eq(g) == g = [s \in SUBSET S |-> IF s = {} THEN 0 ELSE v[FirstOf(s)] + g[s \ {FirstOf(s)}]]
           f == CHOOSE g : Eq(g)
<1>1. \E g : Eq(g)
  <2>1. Cardinality(S) \in Nat
    BY FS_CardinalityType
  <2>2. PICK g : IsFold(g, v, S, Cardinality(S))
    BY <2>1, FoldExists
  <2>3. {T \in SUBSET S : Cardinality(T) <= Cardinality(S)} = SUBSET S
    BY FS_Subset
  <2>4. Eq(g)
    BY <2>2, <2>3 DEF IsFold
  <2> QED BY <2>4
<1>2. Eq(f)
  BY <1>1
<1>3. SumFunctionOnSet(v, S) = f[S]
  BY DEF SumFunctionOnSet, FoldFunctionOnSet, MapThenFoldSet, FirstOf
<1> HIDE DEF f
<1>4. f[{}] = 0
  BY <1>2
<1>5. \A T \in SUBSET S : T # {} => f[T] = v[FirstOf(T)] + f[T \ {FirstOf(T)}]
  BY <1>2
<1> QED BY <1>3, <1>4, <1>5 DEF IsSumOver

\* Induction over the subsets of a finite set, for a set in place of a predicate.
LEMMA SubsetInduction ==
    ASSUME NEW S, IsFiniteSet(S), NEW Q, {} \in Q,
           \A T \in SUBSET S : T # {} /\ T \ {FirstOf(T)} \in Q => T \in Q
    PROVE  S \in Q
<1> DEFINE M == {m \in Nat : \A T \in SUBSET S : Cardinality(T) = m => T \in Q}
<1>a. \A T \in SUBSET S : IsFiniteSet(T) /\ Cardinality(T) \in Nat
  BY FS_Subset, FS_CardinalityType
<1>1. 0 \in M
  BY <1>a, FS_EmptySet
<1>2. \A m \in Nat : m \in M => m + 1 \in M
  <2> SUFFICES ASSUME NEW m \in Nat, m \in M, NEW T \in SUBSET S, Cardinality(T) = m + 1
               PROVE  T \in Q
    OBVIOUS
  <2>0. m + 1 # 0 /\ Cardinality({}) = 0
    BY FS_EmptySet
  <2>1. T # {} /\ T \ {FirstOf(T)} \in SUBSET S
    BY <2>0
  <2>2. Cardinality(T \ {FirstOf(T)}) = m
    BY <1>a, <2>1, Smaller
  <2> QED BY <2>1, <2>2
<1> HIDE DEF M
<1>3. Nat \subseteq M
  BY <1>1, <1>2, InductionOnSet
<1>4. \A m \in Nat : \A T \in SUBSET S : Cardinality(T) = m => T \in Q
  BY <1>3 DEF M
<1>5. S \in SUBSET S /\ Cardinality(S) \in Nat
  BY FS_CardinalityType
<1> QED BY <1>4, <1>5

\* A sum over no row, and over rows that all hold zero.
LEMMA SumOverZeros ==
    ASSUME NEW v, NEW S, IsFiniteSet(S), \A x \in S : v[x] = 0
    PROVE  SumFunctionOnSet(v, S) = 0
<1>1. PICK f : IsSumOver(f, v, S)
  BY SumOverExists
<1> DEFINE Q == {T \in SUBSET S : f[T] = 0}
<1>2. {} \in Q
  BY <1>1 DEF IsSumOver
<1>3. \A T \in SUBSET S : T # {} /\ T \ {FirstOf(T)} \in Q => T \in Q
  BY <1>1, FirstIsIn DEF IsSumOver
<1> HIDE DEF Q
<1>4. S \in Q
  BY <1>2, <1>3, SubsetInduction
<1> QED BY <1>1, <1>4 DEF Q, IsSumOver

\* A sum of integers is an integer.
LEMMA SumOverInt ==
    ASSUME NEW v, NEW S, IsFiniteSet(S), \A x \in S : v[x] \in Int
    PROVE  SumFunctionOnSet(v, S) \in Int
<1>1. PICK f : IsSumOver(f, v, S)
  BY SumOverExists
<1> DEFINE Q == {T \in SUBSET S : f[T] \in Int}
<1>2. {} \in Q
  BY <1>1 DEF IsSumOver
<1>3. \A T \in SUBSET S : T # {} /\ T \ {FirstOf(T)} \in Q => T \in Q
  <2> SUFFICES ASSUME NEW T \in SUBSET S, T # {}, T \ {FirstOf(T)} \in Q PROVE f[T] \in Int
    OBVIOUS
  <2>1. f[T] = v[FirstOf(T)] + f[T \ {FirstOf(T)}]
    BY <1>1 DEF IsSumOver
  <2>2. v[FirstOf(T)] \in Int /\ f[T \ {FirstOf(T)}] \in Int
    BY FirstIsIn
  <2> QED BY <2>1, <2>2
<1> HIDE DEF Q
<1>4. S \in Q
  BY <1>2, <1>3, SubsetInduction
<1> QED BY <1>1, <1>4 DEF Q, IsSumOver

\* The sum of sums, row by row.
LEMMA SumOverPlus ==
    ASSUME NEW u, NEW v, NEW w, NEW S, IsFiniteSet(S),
           \A x \in S : v[x] \in Int /\ w[x] \in Int /\ u[x] = v[x] + w[x]
    PROVE  SumFunctionOnSet(u, S) = SumFunctionOnSet(v, S) + SumFunctionOnSet(w, S)
<1>1. PICK f : IsSumOver(f, v, S)
  BY SumOverExists
<1>2. PICK g : IsSumOver(g, w, S)
  BY SumOverExists
<1>3. PICK h : IsSumOver(h, u, S)
  BY SumOverExists
<1> DEFINE Q == {T \in SUBSET S : f[T] \in Int /\ g[T] \in Int /\ h[T] = f[T] + g[T]}
<1>4. {} \in Q
  BY <1>1, <1>2, <1>3 DEF IsSumOver
<1>5. \A T \in SUBSET S : T # {} /\ T \ {FirstOf(T)} \in Q => T \in Q
  <2> SUFFICES ASSUME NEW T \in SUBSET S, T # {}, T \ {FirstOf(T)} \in Q PROVE T \in Q
    OBVIOUS
  <2> DEFINE x == FirstOf(T)  R == T \ {FirstOf(T)}
  <2>1. /\ f[T] = v[x] + f[R] /\ g[T] = w[x] + g[R] /\ h[T] = u[x] + h[R]
    BY <1>1, <1>2, <1>3 DEF IsSumOver
  <2>2. x \in S
    BY FirstIsIn
  <2>3. v[x] \in Int /\ w[x] \in Int /\ u[x] = v[x] + w[x]
    BY <2>2
  <2>4. f[R] \in Int /\ g[R] \in Int /\ h[R] = f[R] + g[R]
    OBVIOUS
  <2> HIDE DEF x, R
  <2>5. f[T] \in Int /\ g[T] \in Int /\ h[T] = f[T] + g[T]
    BY <2>1, <2>3, <2>4
  <2> QED BY <2>5
<1> HIDE DEF Q
<1>6. S \in Q
  BY <1>4, <1>5, SubsetInduction
<1> QED BY <1>1, <1>2, <1>3, <1>6 DEF Q, IsSumOver

\* Only one row of the set differs from zero.
LEMMA SumOverOne ==
    ASSUME NEW v, NEW S, IsFiniteSet(S), NEW r \in S, NEW d \in Int,
           \A x \in S : v[x] = IF x = r THEN d ELSE 0
    PROVE  SumFunctionOnSet(v, S) = d
<1>1. PICK f : IsSumOver(f, v, S)
  BY SumOverExists
<1> DEFINE Q == {T \in SUBSET S : f[T] = IF r \in T THEN d ELSE 0}
<1>2. {} \in Q
  BY <1>1 DEF IsSumOver
<1>3. \A T \in SUBSET S : T # {} /\ T \ {FirstOf(T)} \in Q => T \in Q
  <2> SUFFICES ASSUME NEW T \in SUBSET S, T # {}, T \ {FirstOf(T)} \in Q PROVE T \in Q
    OBVIOUS
  <2> DEFINE x == FirstOf(T)  R == T \ {FirstOf(T)}
  <2>1. f[T] = v[x] + f[R]
    BY <1>1 DEF IsSumOver
  <2>2. x \in T /\ x \in S
    BY FirstIsIn
  <2>3. f[R] = IF r \in R THEN d ELSE 0
    OBVIOUS
  <2>4. CASE x = r
    BY <2>1, <2>2, <2>3, <2>4
  <2>5. CASE x # r
    BY <2>1, <2>2, <2>3, <2>5
  <2> QED BY <2>4, <2>5
<1> HIDE DEF Q
<1>4. S \in Q
  BY <1>2, <1>3, SubsetInduction
<1> QED BY <1>1, <1>4 DEF Q, IsSumOver

\* A row that changes by d changes the sums it is part of by d.
LEMMA SumOverChange ==
    ASSUME NEW u, NEW v, NEW S, IsFiniteSet(S), NEW r, NEW d \in Int,
           \A x \in S : v[x] \in Int /\ u[x] = IF x = r THEN v[x] + d ELSE v[x]
    PROVE  SumFunctionOnSet(u, S) = SumFunctionOnSet(v, S) + (IF r \in S THEN d ELSE 0)
<1> DEFINE w == [x \in S |-> IF x = r THEN d ELSE 0]
<1>1. \A x \in S : w[x] = IF x = r THEN d ELSE 0
  OBVIOUS
<1>2. \A x \in S : v[x] \in Int /\ w[x] \in Int /\ u[x] = v[x] + w[x]
  OBVIOUS
<1> HIDE DEF w
<1>3. SumFunctionOnSet(u, S) = SumFunctionOnSet(v, S) + SumFunctionOnSet(w, S)
  BY <1>2, SumOverPlus
<1>4. CASE r \in S
  BY <1>1, <1>3, <1>4, SumOverOne
<1>5. CASE r \notin S
  BY <1>1, <1>3, <1>5, SumOverZeros
<1> QED BY <1>4, <1>5
=============================================================================
