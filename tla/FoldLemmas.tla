------------------------------ MODULE FoldLemmas ------------------------------
(***************************************************************************)
(* Induction on the naturals and on the subsets of a finite set, and what  *)
(* follows of the folds: sums, and the extremes of sets of numbers.        *)
(***************************************************************************)
EXTENDS Integers, FiniteSetsExt, TLAPS, FiniteSetTheorems

\* Induction on the naturals, from the finiteness of intervals: a set that holds 0 and
\* with each number the next holds every number, for the least one missing has a
\* predecessor.
LEMMA NatSetInduction ==
  ASSUME NEW S, 0 \in S, \A n \in Nat : n \in S => n + 1 \in S
  PROVE  Nat \subseteq S
<1>1. SUFFICES ASSUME NEW n \in Nat, n \notin S PROVE FALSE
  OBVIOUS
<1> DEFINE T == {i \in 0 .. n : i \notin S}
<1> DEFINE f == [i \in T |-> i - 1]
<1>2. T \in SUBSET Nat /\ IsFiniteSet(T)
  <2>1. T \in SUBSET Nat /\ \A s \in T : s <= n
    OBVIOUS
  <2> QED
    BY <2>1, FS_BoundedSetOfNaturals, SMT
<1>3. f \in [T -> T]
  OBVIOUS
<1>4. f \in Injection(T, T)
  BY <1>3 DEF Injection, IsInjective
<1>5. f \in Surjection(T, T)
  <2> HIDE DEF f, T
  <2> QED
    BY <1>2, <1>4, FS_Injection
<1>6. PICK j \in T : f[j] = n
  <2>1. n \in T
    BY <1>1
  <2> HIDE DEF f, T
  <2> QED
    BY <2>1, <1>5 DEF Surjection
<1> QED
  BY <1>6

\* The maximum of a set of numbers up to k + 1 that holds k + 1.
LEMMA MaxUpTo ==
  ASSUME NEW k \in Nat, NEW s \in SUBSET (1 .. k + 1), k + 1 \in s
  PROVE  Max(s) = k + 1
<1>1. \A x \in s : (\A y \in s : x >= y) => x = k + 1
  OBVIOUS
<1>2. \A y \in s : k + 1 >= y
  OBVIOUS
<1> QED
  BY <1>1, <1>2 DEF Max

\* A set of naturals has a least one.
LEMMA LeastNatural ==
  ASSUME NEW S \in SUBSET Nat, S # {}
  PROVE  Min(S) \in S
<1>1. SUFFICES ASSUME ~ \E x \in S : \A y \in S : x =< y PROVE FALSE
  BY DEF Min
<1> DEFINE T == {n \in Nat : \A k \in 0 .. n : k \notin S}
<1>2. 0 \in T
  BY <1>1
<1>3. ASSUME NEW n \in Nat, n \in T PROVE n + 1 \in T
  <2>1. n + 1 \notin S
    BY <1>1, <1>3
  <2> QED
    BY <1>3, <2>1
<1>4. Nat \subseteq T
  <2> HIDE DEF T
  <2> QED
    BY <1>2, <1>3, NatSetInduction
<1>5. PICK n \in S : n \in Nat
  OBVIOUS
<1>6. n \in T /\ n \in 0 .. n
  BY <1>4, <1>5
<1> QED
  BY <1>6

-----------------------------------------------------------------------------
(* The sum of the values of a function over a finite set.                  *)

\* One of the members of a set, and the others.
LEMMA OthersFewer ==
  ASSUME NEW s, IsFiniteSet(s), s # {}, NEW x \in s
  PROVE  /\ Cardinality(s) \in Nat /\ Cardinality(s) # 0
         /\ IsFiniteSet(s \ {x}) /\ Cardinality(s \ {x}) = Cardinality(s) - 1
BY FS_RemoveElement, FS_CardinalityType, FS_EmptySet

\* Induction on the subsets of a finite set: a collection of sets that holds the empty
\* one, and each one that it holds but for a member, holds all subsets.
LEMMA SubsetInduction ==
  ASSUME NEW S, IsFiniteSet(S), NEW C, {} \in C,
         \A s \in SUBSET S : s # {} /\ s \ {CHOOSE x \in s : TRUE} \in C => s \in C
  PROVE  SUBSET S \subseteq C
<1> DEFINE N == {n \in Nat : \A s \in SUBSET S : Cardinality(s) = n => s \in C}
<1>1. 0 \in N
  BY FS_Subset, FS_EmptySet
<1>2. ASSUME NEW n \in Nat, n \in N PROVE n + 1 \in N
  <2>1. ASSUME NEW s \in SUBSET S, Cardinality(s) = n + 1 PROVE s \in C
    <3> DEFINE x == CHOOSE x \in s : TRUE
    <3>1. IsFiniteSet(s) /\ s # {}
      BY <2>1, FS_Subset, FS_EmptySet
    <3>2. x \in s
      BY <3>1
    <3> HIDE DEF x
    <3>3. Cardinality(s \ {x}) = n /\ s \ {x} \in SUBSET S
      BY <2>1, <3>1, <3>2, OthersFewer
    <3>4. s \ {x} \in C
      BY <1>2, <3>3
    <3> QED
      BY <3>1, <3>4 DEF x
  <2> QED
    BY <2>1
<1>3. Nat \subseteq N
  <2> HIDE DEF N
  <2> QED
    BY <1>1, <1>2, NatSetInduction
<1>4. ASSUME NEW s \in SUBSET S PROVE s \in C
  <2>1. Cardinality(s) \in Nat
    BY FS_Subset, FS_CardinalityType
  <2> QED
    BY <1>3, <2>1
<1> QED
  BY <1>4

\* The fold that sums, unrolled: what it takes out of a set one after another.
LEMMA SumStates ==
  ASSUME NEW S, IsFiniteSet(S), NEW f
  PROVE  \E g : /\ g[{}] = 0
                /\ \A s \in SUBSET S : s # {} =>
                     LET x == CHOOSE x \in s : TRUE IN g[s] = f[x] + g[s \ {x}]
                /\ SumFunctionOnSet(f, S) = g[S]
<1> DEFINE Body(g, s) == IF s = {} THEN 0
                         ELSE LET x == CHOOSE x \in s : TRUE IN f[x] + g[s \ {x}]
<1> DEFINE Up(k) == {s \in SUBSET S : Cardinality(s) <= k}
<1> DEFINE Good(k) == \E g : g = [s \in Up(k) |-> Body(g, s)]
<1> DEFINE N == {k \in Nat : Good(k)}
<1>1. 0 \in N
  <2> DEFINE g == [s \in Up(0) |-> 0]
  <2>1. \A s \in Up(0) : s = {}
    BY FS_Subset, FS_EmptySet, FS_CardinalityType
  <2>2. g = [s \in Up(0) |-> Body(g, s)]
    BY <2>1
  <2> QED
    BY <2>2
<1>2. ASSUME NEW k \in Nat, k \in N PROVE k + 1 \in N
  <2>1. PICK g : g = [s \in Up(k) |-> Body(g, s)]
    BY <1>2
  <2> DEFINE h == [s \in Up(k + 1) |-> IF s \in Up(k) THEN g[s] ELSE Body(g, s)]
  <2>2. ASSUME NEW s \in Up(k + 1) PROVE h[s] = Body(h, s)
    <3>1. CASE s = {}
      <4>1. s \in Up(k)
        BY <3>1, FS_EmptySet
      <4> QED
        BY <2>1, <3>1, <4>1
    <3>2. CASE s # {}
      <4> DEFINE x == CHOOSE x \in s : TRUE
      <4>1. x \in s
        BY <3>2
      <4>2. s \ {x} \in Up(k) /\ s \ {x} \in Up(k + 1)
        <5> HIDE DEF x
        <5>1. IsFiniteSet(s) /\ Cardinality(s) <= k + 1 /\ s \in SUBSET S
          BY FS_Subset
        <5>2. Cardinality(s \ {x}) = Cardinality(s) - 1 /\ Cardinality(s) \in Nat
          BY <3>2, <4>1, <5>1, OthersFewer
        <5>3. Cardinality(s \ {x}) <= k /\ Cardinality(s \ {x}) <= k + 1
          BY <5>1, <5>2
        <5> QED
          BY <5>1, <5>3
      <4>3. h[s \ {x}] = g[s \ {x}]
        BY <4>2
      <4>4. h[s] = Body(g, s)
        BY <2>1
      <4>5. Body(g, s) = f[x] + g[s \ {x}] /\ Body(h, s) = f[x] + h[s \ {x}]
        <5> HIDE DEF h
        <5> QED
          BY <3>2
      <4> QED
        BY <4>3, <4>4, <4>5
    <3> QED
      BY <3>1, <3>2
  <2>3. h = [s \in Up(k + 1) |-> Body(h, s)]
    <3>1. h = [s \in Up(k + 1) |-> h[s]]
      OBVIOUS
    <3> HIDE DEF h, Body, Up
    <3> QED
      BY <2>2, <3>1
  <2>4. Good(k + 1)
    <3> HIDE DEF h, Body, Up
    <3> QED
      BY <2>3
  <2> HIDE DEF Good
  <2> QED
    BY <2>4
<1>3. \E g : g = [s \in SUBSET S |-> Body(g, s)]
  <2> DEFINE k == Cardinality(S)
  <2>1. k \in Nat
    BY FS_CardinalityType
  <2>2. Good(k)
    <3> HIDE DEF Good
    <3> QED
      BY <1>1, <1>2, <2>1, NatSetInduction
  <2>3. Up(k) = SUBSET S
    BY FS_Subset
  <2> HIDE DEF Body, Up
  <2> QED
    BY <2>2, <2>3
<1> DEFINE iter == CHOOSE g : g = [s \in SUBSET S |-> Body(g, s)]
<1>4. iter = [s \in SUBSET S |-> Body(iter, s)]
  BY <1>3
<1>5. SumFunctionOnSet(f, S) = iter[S]
  BY DEF SumFunctionOnSet, FoldFunctionOnSet, MapThenFoldSet
<1> HIDE DEF iter
<1>6. iter[{}] = 0
  BY <1>4
<1>7. \A s \in SUBSET S : s # {} =>
        LET x == CHOOSE x \in s : TRUE IN iter[s] = f[x] + iter[s \ {x}]
  BY <1>4
<1> QED
  BY <1>5, <1>6, <1>7

\* When one value changes, the sum changes by as much.
LEMMA SumChange ==
  ASSUME NEW S, IsFiniteSet(S), NEW f, NEW g, \A x \in S : f[x] \in Nat /\ g[x] \in Nat,
         NEW c, \A x \in S : x # c => g[x] = f[x]
  PROVE  /\ SumFunctionOnSet(f, S) \in Nat /\ SumFunctionOnSet(g, S) \in Nat
         /\ c \in S => SumFunctionOnSet(g, S) = SumFunctionOnSet(f, S) + g[c] - f[c]
         /\ c \notin S => SumFunctionOnSet(g, S) = SumFunctionOnSet(f, S)
<1>1. PICK a : /\ a[{}] = 0
               /\ \A s \in SUBSET S : s # {} =>
                    LET x == CHOOSE x \in s : TRUE IN a[s] = f[x] + a[s \ {x}]
               /\ SumFunctionOnSet(f, S) = a[S]
  BY SumStates
<1>2. PICK b : /\ b[{}] = 0
               /\ \A s \in SUBSET S : s # {} =>
                    LET x == CHOOSE x \in s : TRUE IN b[s] = g[x] + b[s \ {x}]
               /\ SumFunctionOnSet(g, S) = b[S]
  BY SumStates
<1> DEFINE Claim(s) == /\ a[s] \in Nat /\ b[s] \in Nat
                       /\ c \in s => b[s] = a[s] + g[c] - f[c]
                       /\ c \notin s => b[s] = a[s]
<1> DEFINE C == {s \in SUBSET S : Claim(s)}
<1>3. {} \in C
  BY <1>1, <1>2
<1>4. ASSUME NEW s \in SUBSET S, s # {}, s \ {CHOOSE x \in s : TRUE} \in C
      PROVE  s \in C
  <2> DEFINE x == CHOOSE x \in s : TRUE
  <2>1. x \in s
    BY <1>4
  <2>2. a[s] = f[x] + a[s \ {x}] /\ b[s] = g[x] + b[s \ {x}]
    BY <1>1, <1>2, <1>4
  <2>3. Claim(s \ {x})
    BY <1>4
  <2> HIDE DEF x
  <2>4. f[x] \in Nat /\ g[x] \in Nat /\ (x # c => g[x] = f[x])
    BY <2>1
  <2> QED
    BY <2>1, <2>2, <2>3, <2>4
<1>5. SUBSET S \subseteq C
  <2> HIDE DEF C
  <2> QED
    BY <1>3, <1>4, SubsetInduction
<1>6. Claim(S)
  BY <1>5
<1> QED
  BY <1>1, <1>2, <1>6
=============================================================================
