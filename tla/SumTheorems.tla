----------------------------- MODULE SumTheorems -----------------------------
(***************************************************************************)
(* Sums over finite sets, as MapThenSumSet takes them: what the proofs     *)
(* about the amounts of budget rows and policies rest on.  The library     *)
(* sums by recursion; here the recursion becomes a function on the subsets *)
(* of a finite set, and induction a statement about a set of numbers.      *)
(***************************************************************************)
EXTENDS FiniteSetsExt, Integers, FiniteSetTheorems, WellFoundedInduction, TLAPS

\* What f makes of each element of S, added up.
SumOf(f, S) == MapThenSumSet(LAMBDA x : f[x], S)

Pick(s) == CHOOSE x \in s : TRUE
Partial(f, g, s) == IF s = {} THEN 0 ELSE f[Pick(s)] + g[s \ {Pick(s)}]
Sums(f, S) == CHOOSE g : g = [s \in SUBSET S |-> Partial(f, g, s)]

\* Induction on the natural numbers, about a set of them: a least number left out
\* would have a predecessor in the set.
LEMMA SetInduction ==
  ASSUME NEW N, 0 \in N, \A n \in Nat : n \in N => n + 1 \in N
  PROVE  Nat \subseteq N
<1> SUFFICES ASSUME Nat \ N # {} PROVE FALSE
  OBVIOUS
<1>1. PICK m \in Nat \ N : \A k \in Nat \ N : ~ (<<k, m>> \in OpToRel(<, Nat))
  BY WFMin, NatLessThanWellFounded
<1>2. \A k \in Nat \ N : ~(k < m)
  BY <1>1 DEF OpToRel
<1>3. m # 0 /\ m - 1 \in Nat /\ m - 1 < m
  OBVIOUS
<1> QED
  BY <1>2, <1>3

\* The recursive sum of the library is the value at S of a function that is
\* determined by its own values on smaller sets.
LEMMA SumIsSums == ASSUME NEW f, NEW S PROVE SumOf(f, S) = Sums(f, S)[S]
  BY DEF SumOf, MapThenSumSet, MapThenFoldSet, Sums, Partial, Pick

\* The element a sum takes first is one of the set, and leaves a smaller set.
LEMMA PickSmaller ==
  ASSUME NEW S, IsFiniteSet(S), NEW s \in SUBSET S, s # {}
  PROVE  /\ Pick(s) \in s /\ s \ {Pick(s)} \in SUBSET S
         /\ Cardinality(s) \in Nat /\ Cardinality(s \ {Pick(s)}) = Cardinality(s) - 1
<1>1. Pick(s) \in s
  BY DEF Pick
<1>2. IsFiniteSet(s)
  BY FS_Subset
<1> QED
  BY <1>1, <1>2, FS_RemoveElement, FS_CardinalityType

\* There is such a function on the subsets of a finite set: it is built for the
\* subsets of at most n elements, n after n.  Its value at a subset is the chosen
\* term plus its value at what is left.
LEMMA SumsDefined ==
  ASSUME NEW f, NEW S, IsFiniteSet(S)
  PROVE  \A s \in SUBSET S : Sums(f, S)[s] = Partial(f, Sums(f, S), s)
<1> DEFINE Fits(g, n) == \A s \in SUBSET S : Cardinality(s) <= n => g[s] = Partial(f, g, s)
           N == {n \in Nat : \E g : Fits(g, n)}
<1>0. \A s \in SUBSET S : IsFiniteSet(s) /\ Cardinality(s) \in Nat
                            /\ (Cardinality(s) = 0 <=> s = {})
  BY FS_Subset, FS_CardinalityType, FS_EmptySet
<1>1. 0 \in N
  <2>1. Fits([s \in SUBSET S |-> 0], 0)
    BY <1>0 DEF Partial
  <2> QED
    BY <2>1
<1>2. ASSUME NEW n \in Nat, n \in N PROVE n + 1 \in N
  <2>1. PICK g : Fits(g, n)
    BY <1>2
  <2> DEFINE h == [s \in SUBSET S |-> Partial(f, g, s)]
  <2>2. ASSUME NEW s \in SUBSET S, Cardinality(s) <= n + 1 PROVE h[s] = Partial(f, h, s)
    <3>1. CASE s = {}
      BY <3>1 DEF Partial
    <3>2. CASE s # {}
      <4>1. s \ {Pick(s)} \in SUBSET S /\ Cardinality(s \ {Pick(s)}) <= n
        BY <2>2, <3>2, PickSmaller
      <4>2. g[s \ {Pick(s)}] = h[s \ {Pick(s)}]
        BY <2>1, <4>1
      <4> QED
        BY <3>2, <4>2 DEF Partial
    <3> QED
      BY <3>1, <3>2
  <2>3. Fits(h, n + 1)
    BY <2>2
  <2> HIDE DEF h
  <2>4. \E x : Fits(x, n + 1)
    BY <2>3
  <2> HIDE DEF Fits
  <2> QED
    BY <2>4
<1> HIDE DEF N
<1>3. Nat \subseteq N
  BY <1>1, <1>2, SetInduction
<1>4. PICK g : Fits(g, Cardinality(S))
  <2>1. Cardinality(S) \in N
    BY <1>0, <1>3
  <2> QED
    BY <2>1 DEF N
<1>5. \A s \in SUBSET S : Cardinality(s) <= Cardinality(S)
  BY FS_Subset
<1> DEFINE h == [s \in SUBSET S |-> g[s]]
<1>6. h = [s \in SUBSET S |-> Partial(f, h, s)]
  <2>1. \A s \in SUBSET S : g[s] = Partial(f, h, s)
    <3> SUFFICES ASSUME NEW s \in SUBSET S PROVE g[s] = Partial(f, h, s)
      OBVIOUS
    <3>1. g[s] = Partial(f, g, s)
      BY <1>4, <1>5
    <3>2. s # {} => h[s \ {Pick(s)}] = g[s \ {Pick(s)}]
      OBVIOUS
    <3> QED
      BY <3>1, <3>2 DEF Partial
  <2> QED
    BY <2>1
<1> HIDE DEF h
<1> DEFINE F == Sums(f, S)
<1>7. F = [s \in SUBSET S |-> Partial(f, F, s)]
  BY <1>6 DEF Sums
<1> HIDE DEF F
<1>8. \A s \in SUBSET S : F[s] = Partial(f, F, s)
  <2> DEFINE P(s) == Partial(f, F, s)
  <2>1. F = [s \in SUBSET S |-> P(s)]
    BY <1>7
  <2> HIDE DEF P
  <2>2. \A s \in SUBSET S : F[s] = P(s)
    BY <2>1
  <2> QED
    BY <2>2 DEF P
<1> QED
  BY <1>8 DEF F

\* A sum depends on nothing but the terms of its set: neither on the set around it
\* nor on what the function is elsewhere.
LEMMA SumsAgree ==
  ASSUME NEW f, NEW g, NEW S, NEW T, IsFiniteSet(S), IsFiniteSet(T), NEW U, U \subseteq S, U \subseteq T,
         \A x \in U : f[x] = g[x]
  PROVE  Sums(f, S)[U] = Sums(g, T)[U]
<1> DEFINE N == {n \in Nat : \A s \in SUBSET U : Cardinality(s) = n =>
                    Sums(f, S)[s] = Sums(g, T)[s]}
<1>1. /\ \A s \in SUBSET S : Sums(f, S)[s] = Partial(f, Sums(f, S), s)
      /\ \A s \in SUBSET T : Sums(g, T)[s] = Partial(g, Sums(g, T), s)
  BY SumsDefined
<1>2. \A s \in SUBSET U : IsFiniteSet(s) /\ Cardinality(s) \in Nat
                            /\ (Cardinality(s) = 0 <=> s = {})
  BY FS_Subset, FS_CardinalityType, FS_EmptySet
<1>3. 0 \in N
  BY <1>1, <1>2 DEF Partial
<1>4. ASSUME NEW n \in Nat, n \in N PROVE n + 1 \in N
  <2> SUFFICES ASSUME NEW s \in SUBSET U, Cardinality(s) = n + 1
               PROVE  Sums(f, S)[s] = Sums(g, T)[s]
    OBVIOUS
  <2>1. s # {} /\ IsFiniteSet(U)
    BY <1>2
  <2>2. Pick(s) \in U /\ s \ {Pick(s)} \in SUBSET U /\ Cardinality(s \ {Pick(s)}) = n
    BY <2>1, PickSmaller
  <2>3. Sums(f, S)[s \ {Pick(s)}] = Sums(g, T)[s \ {Pick(s)}]
    BY <1>4, <2>2
  <2> QED
    BY <1>1, <2>1, <2>2, <2>3 DEF Partial
<1> HIDE DEF N
<1>5. Nat \subseteq N
  BY <1>3, <1>4, SetInduction
<1>6. Cardinality(U) \in N
  BY <1>2, <1>5
<1> QED
  BY <1>6 DEF N

\* A sum over no element is zero.
LEMMA SumEmpty == ASSUME NEW f PROVE SumOf(f, {}) = 0
<1>1. Sums(f, {})[{}] = Partial(f, Sums(f, {}), {})
  BY FS_EmptySet, SumsDefined
<1> QED
  BY <1>1, SumIsSums DEF Partial

\* Equal terms give equal sums.
LEMMA SumCongruence ==
  ASSUME NEW S, IsFiniteSet(S), NEW f, NEW g, \A x \in S : f[x] = g[x]
  PROVE  SumOf(f, S) = SumOf(g, S)
<1>1. Sums(f, S)[S] = Sums(g, S)[S]
  BY SumsAgree
<1> QED
  BY <1>1, SumIsSums

\* A sum is its first term plus the sum of the others.
LEMMA SumPicks ==
  ASSUME NEW S, IsFiniteSet(S), S # {}, NEW f
  PROVE  SumOf(f, S) = f[Pick(S)] + SumOf(f, S \ {Pick(S)})
<1> DEFINE R == S \ {Pick(S)}
<1>1. Sums(f, S)[S] = f[Pick(S)] + Sums(f, S)[R]
  BY SumsDefined DEF Partial
<1>2. IsFiniteSet(R)
  BY FS_Subset
<1>3. Sums(f, S)[R] = Sums(f, R)[R]
  <2> HIDE DEF R
  <2>1. R \subseteq S
    BY DEF R
  <2> QED
    BY <1>2, <2>1, SumsAgree
<1> QED
  BY <1>1, <1>3, SumIsSums

\* A sum of integers is an integer, and one of natural numbers a natural number.
LEMMA SumType ==
  ASSUME NEW S, IsFiniteSet(S), NEW f
  PROVE  /\ (\A x \in S : f[x] \in Int) => SumOf(f, S) \in Int
         /\ (\A x \in S : f[x] \in Nat) => SumOf(f, S) \in Nat
<1> DEFINE Typed(s, V) == (\A x \in s : f[x] \in V) => SumOf(f, s) \in V
           N == {n \in Nat : \A s \in SUBSET S : Cardinality(s) = n =>
                    Typed(s, Int) /\ Typed(s, Nat)}
<1>1. \A s \in SUBSET S : IsFiniteSet(s) /\ Cardinality(s) \in Nat
                            /\ (Cardinality(s) = 0 <=> s = {})
  BY FS_Subset, FS_CardinalityType, FS_EmptySet
<1>2. 0 \in N
  BY <1>1, SumEmpty
<1>3. ASSUME NEW n \in Nat, n \in N PROVE n + 1 \in N
  <2> SUFFICES ASSUME NEW s \in SUBSET S, Cardinality(s) = n + 1
               PROVE  Typed(s, Int) /\ Typed(s, Nat)
    OBVIOUS
  <2>1. s # {}
    BY <1>1
  <2> DEFINE r == s \ {Pick(s)}
  <2>2. Pick(s) \in s /\ r \in SUBSET S /\ Cardinality(r) = n
    BY <2>1, PickSmaller
  <2>3. Typed(r, Int) /\ Typed(r, Nat)
    BY <1>3, <2>2
  <2>4. SumOf(f, s) = f[Pick(s)] + SumOf(f, r)
    BY <1>1, <2>1, SumPicks
  <2>5. (\A x \in s : f[x] \in Int) => f[Pick(s)] \in Int /\ SumOf(f, r) \in Int
    BY <2>2, <2>3
  <2>6. (\A x \in s : f[x] \in Nat) => f[Pick(s)] \in Nat /\ SumOf(f, r) \in Nat
    BY <2>2, <2>3
  <2> HIDE DEF r
  <2> QED
    BY <2>4, <2>5, <2>6
<1> HIDE DEF N
<1>4. Nat \subseteq N
  BY <1>2, <1>3, SetInduction
<1>5. Cardinality(S) \in N
  BY <1>1, <1>4
<1> QED
  BY <1>5 DEF N

\* Any element may be taken first: the order in which rows are added up does not
\* matter.
LEMMA SumRemove ==
  ASSUME NEW S, IsFiniteSet(S), NEW f, \A y \in S : f[y] \in Int, NEW x \in S
  PROVE  SumOf(f, S) = f[x] + SumOf(f, S \ {x})
<1> DEFINE N == {n \in Nat : \A s \in SUBSET S : Cardinality(s) = n =>
                    \A y \in s : SumOf(f, s) = f[y] + SumOf(f, s \ {y})}
<1>1. \A s \in SUBSET S : IsFiniteSet(s) /\ Cardinality(s) \in Nat
                            /\ (Cardinality(s) = 0 <=> s = {})
  BY FS_Subset, FS_CardinalityType, FS_EmptySet
<1>2. 0 \in N
  BY <1>1
<1>3. ASSUME NEW n \in Nat, n \in N PROVE n + 1 \in N
  <2> SUFFICES ASSUME NEW s \in SUBSET S, Cardinality(s) = n + 1, NEW y \in s
               PROVE  SumOf(f, s) = f[y] + SumOf(f, s \ {y})
    OBVIOUS
  <2>1. s # {}
    OBVIOUS
  <2>2. SumOf(f, s) = f[Pick(s)] + SumOf(f, s \ {Pick(s)})
    BY <1>1, <2>1, SumPicks
  <2>3. CASE y = Pick(s)
    BY <2>2, <2>3
  <2>4. CASE y # Pick(s)
    <3>1. /\ Pick(s) \in s \ {y} /\ y \in s \ {Pick(s)}
          /\ s \ {Pick(s)} \in SUBSET S /\ Cardinality(s \ {Pick(s)}) = n
      BY <2>1, <2>4, PickSmaller
    <3>2. s \ {y} \in SUBSET S /\ Cardinality(s \ {y}) = n
      <4>1. IsFiniteSet(s)
        BY <1>1
      <4>2. Cardinality(s \ {y}) = Cardinality(s) - 1
        BY <4>1, FS_RemoveElement
      <4> QED
        BY <4>2
    <3>3. SumOf(f, s \ {Pick(s)}) = f[y] + SumOf(f, (s \ {Pick(s)}) \ {y})
      BY <1>3, <3>1
    <3>4. SumOf(f, s \ {y}) = f[Pick(s)] + SumOf(f, (s \ {y}) \ {Pick(s)})
      BY <1>3, <3>1, <3>2
    <3>5. (s \ {y}) \ {Pick(s)} = (s \ {Pick(s)}) \ {y}
      OBVIOUS
    <3>6. f[y] \in Int /\ f[Pick(s)] \in Int /\ SumOf(f, (s \ {Pick(s)}) \ {y}) \in Int
      <4>1. IsFiniteSet((s \ {Pick(s)}) \ {y})
        BY <1>1
      <4>2. \A z \in (s \ {Pick(s)}) \ {y} : f[z] \in Int
        OBVIOUS
      <4>3. SumOf(f, (s \ {Pick(s)}) \ {y}) \in Int
        BY <4>1, <4>2, SumType
      <4> QED
        BY <3>1, <4>3
    <3> DEFINE a == f[y]
               b == f[Pick(s)]
               r == SumOf(f, (s \ {Pick(s)}) \ {y})
    <3>7. SumOf(f, s) = b + (a + r) /\ SumOf(f, s \ {y}) = b + r
      BY <2>2, <3>3, <3>4, <3>5
    <3>8. a \in Int /\ b \in Int /\ r \in Int
      BY <3>6
    <3> HIDE DEF a, b, r
    <3>9. SumOf(f, s) = a + SumOf(f, s \ {y})
      BY <3>7, <3>8
    <3> QED
      BY <3>9 DEF a
  <2> QED
    BY <2>3, <2>4
<1> HIDE DEF N
<1>4. Nat \subseteq N
  BY <1>2, <1>3, SetInduction
<1>5. Cardinality(S) \in N
  BY <1>1, <1>4
<1> QED
  BY <1>5 DEF N

\* A new element adds its term.
LEMMA SumAdd ==
  ASSUME NEW S, IsFiniteSet(S), NEW f, NEW x, x \notin S,
         \A y \in S \cup {x} : f[y] \in Int
  PROVE  SumOf(f, S \cup {x}) = SumOf(f, S) + f[x]
<1>1. IsFiniteSet(S \cup {x})
  BY FS_AddElement
<1>2. (S \cup {x}) \ {x} = S
  OBVIOUS
<1>3. SumOf(f, S \cup {x}) = f[x] + SumOf(f, S)
  BY <1>1, <1>2, SumRemove
<1>4. SumOf(f, S) \in Int /\ f[x] \in Int
  BY SumType
<1> QED
  BY <1>3, <1>4

\* A change of one term changes the sum by as much.
LEMMA SumChange ==
  ASSUME NEW S, IsFiniteSet(S), NEW f, NEW g, NEW x \in S,
         \A y \in S : f[y] \in Int, \A y \in S : g[y] \in Int,
         \A y \in S \ {x} : g[y] = f[y]
  PROVE  SumOf(g, S) = SumOf(f, S) + g[x] - f[x]
<1>1. IsFiniteSet(S \ {x})
  BY FS_Subset
<1>2. SumOf(g, S) = g[x] + SumOf(g, S \ {x}) /\ SumOf(f, S) = f[x] + SumOf(f, S \ {x})
  BY SumRemove
<1>3. SumOf(g, S \ {x}) = SumOf(f, S \ {x})
  BY <1>1, SumCongruence
<1>4. SumOf(f, S \ {x}) \in Int
  BY <1>1, SumType
<1> QED
  BY <1>2, <1>3, <1>4

\* No term of natural numbers is greater than their sum.
LEMMA SumAtLeastTerm ==
  ASSUME NEW S, IsFiniteSet(S), NEW f, \A y \in S : f[y] \in Nat, NEW x \in S
  PROVE  f[x] <= SumOf(f, S)
<1>1. IsFiniteSet(S \ {x})
  BY FS_Subset
<1>2. SumOf(f, S) = f[x] + SumOf(f, S \ {x})
  BY SumRemove
<1>3. SumOf(f, S \ {x}) \in Nat
  BY <1>1, SumType
<1> QED
  BY <1>2, <1>3

\* A sum of zeros is zero.
LEMMA SumZero ==
  ASSUME NEW S, IsFiniteSet(S), NEW f, \A y \in S : f[y] = 0
  PROVE  SumOf(f, S) = 0
<1> DEFINE N == {n \in Nat : \A s \in SUBSET S : Cardinality(s) = n => SumOf(f, s) = 0}
<1>1. \A s \in SUBSET S : IsFiniteSet(s) /\ Cardinality(s) \in Nat
                            /\ (Cardinality(s) = 0 <=> s = {})
  BY FS_Subset, FS_CardinalityType, FS_EmptySet
<1>2. 0 \in N
  BY <1>1, SumEmpty
<1>3. ASSUME NEW n \in Nat, n \in N PROVE n + 1 \in N
  <2> SUFFICES ASSUME NEW s \in SUBSET S, Cardinality(s) = n + 1 PROVE SumOf(f, s) = 0
    OBVIOUS
  <2>1. s # {}
    BY <1>1
  <2>2. Pick(s) \in s /\ s \ {Pick(s)} \in SUBSET S /\ Cardinality(s \ {Pick(s)}) = n
    BY <2>1, PickSmaller
  <2>3. SumOf(f, s \ {Pick(s)}) = 0
    BY <1>3, <2>2
  <2>4. SumOf(f, s) = f[Pick(s)] + SumOf(f, s \ {Pick(s)})
    BY <1>1, <2>1, SumPicks
  <2> QED
    BY <2>2, <2>3, <2>4
<1> HIDE DEF N
<1>4. Nat \subseteq N
  BY <1>2, <1>3, SetInduction
<1>5. Cardinality(S) \in N
  BY <1>1, <1>4
<1> QED
  BY <1>5 DEF N

\* A sum is the sum over a part and the sum over the rest.
LEMMA SumSplit ==
  ASSUME NEW S, IsFiniteSet(S), NEW f, \A y \in S : f[y] \in Int, NEW T \in SUBSET S
  PROVE  SumOf(f, S) = SumOf(f, T) + SumOf(f, S \ T)
<1> DEFINE N == {n \in Nat : \A t \in SUBSET S : Cardinality(t) = n =>
                    SumOf(f, S) = SumOf(f, t) + SumOf(f, S \ t)}
<1>1. \A s \in SUBSET S : /\ IsFiniteSet(s) /\ Cardinality(s) \in Nat
                          /\ (Cardinality(s) = 0 <=> s = {})
                          /\ SumOf(f, s) \in Int
  <2>1. \A s \in SUBSET S : IsFiniteSet(s)
    BY FS_Subset
  <2> QED
    BY <2>1, FS_CardinalityType, FS_EmptySet, SumType
<1>2. 0 \in N
  BY <1>1, SumEmpty
<1>3. ASSUME NEW n \in Nat, n \in N PROVE n + 1 \in N
  <2> SUFFICES ASSUME NEW t \in SUBSET S, Cardinality(t) = n + 1
               PROVE  SumOf(f, S) = SumOf(f, t) + SumOf(f, S \ t)
    OBVIOUS
  <2>1. PICK x \in t : TRUE
    BY <1>1
  <2> DEFINE r == t \ {x}
             q == S \ t
  <2>2. r \in SUBSET S /\ q \in SUBSET S /\ x \in S \ r /\ (S \ r) \ {x} = q
    BY <2>1
  <2>3. Cardinality(r) = n
    <3>1. IsFiniteSet(t)
      BY <1>1
    <3>2. Cardinality(r) = Cardinality(t) - 1
      BY <2>1, <3>1, FS_RemoveElement
    <3> QED
      BY <3>2
  <2>4. SumOf(f, S) = SumOf(f, r) + SumOf(f, S \ r)
    BY <1>3, <2>2, <2>3
  <2>5. SumOf(f, t) = f[x] + SumOf(f, r)
    BY <1>1, <2>1, SumRemove
  <2>6. SumOf(f, S \ r) = f[x] + SumOf(f, q)
    <3>1. IsFiniteSet(S \ r) /\ \A y \in S \ r : f[y] \in Int
      BY <1>1
    <3> HIDE DEF r, q
    <3> QED
      BY <2>2, <3>1, SumRemove
  <2>7. f[x] \in Int /\ SumOf(f, r) \in Int /\ SumOf(f, q) \in Int
    BY <1>1, <2>1, <2>2
  <2> HIDE DEF r
  <2> QED
    BY <2>4, <2>5, <2>6, <2>7
<1> HIDE DEF N
<1>4. Nat \subseteq N
  BY <1>2, <1>3, SetInduction
<1>5. Cardinality(T) \in N
  BY <1>1, <1>4
<1> QED
  BY <1>5 DEF N

\* Adding up the rows of a set that fit is adding up a term for each row, which is
\* zero where the row does not fit.
LEMMA SumExtends ==
  ASSUME NEW S, IsFiniteSet(S), NEW T \in SUBSET S, NEW f, NEW g,
         \A y \in T : f[y] = g[y] /\ g[y] \in Int, \A y \in S \ T : g[y] = 0
  PROVE  SumOf(f, T) = SumOf(g, S)
<1>1. IsFiniteSet(T) /\ IsFiniteSet(S \ T)
  BY FS_Subset
<1>2. SumOf(f, T) = SumOf(g, T)
  BY <1>1, SumCongruence
<1>3. SumOf(g, S \ T) = 0
  BY <1>1, SumZero
<1>4. \A y \in S : g[y] \in Int
  OBVIOUS
<1>5. SumOf(g, S) = SumOf(g, T) + SumOf(g, S \ T)
  BY <1>4, SumSplit
<1>6. SumOf(g, T) \in Int
  BY <1>1, SumType
<1> QED
  BY <1>2, <1>3, <1>5, <1>6

\* Fewer natural numbers do not add up to more.
LEMMA SumOfSubset ==
  ASSUME NEW S, IsFiniteSet(S), NEW T \in SUBSET S, NEW f, \A y \in S : f[y] \in Nat
  PROVE  SumOf(f, T) <= SumOf(f, S)
<1>1. IsFiniteSet(T) /\ IsFiniteSet(S \ T)
  BY FS_Subset
<1>2. SumOf(f, S) = SumOf(f, T) + SumOf(f, S \ T)
  BY SumSplit
<1>3. SumOf(f, T) \in Nat /\ SumOf(f, S \ T) \in Nat
  BY <1>1, SumType
<1> QED
  BY <1>2, <1>3

\* Something of a set has the least rank.
LEMMA LeastExists ==
  ASSUME NEW S, S # {}, NEW rank, \A x \in S : rank[x] \in Nat
  PROVE  \E x \in S : \A y \in S : rank[x] <= rank[y]
<1> DEFINE R == {rank[x] : x \in S}
<1>1. R # {} /\ R \subseteq Nat
  OBVIOUS
<1>2. PICK m \in R : \A k \in R : ~ (<<k, m>> \in OpToRel(<, Nat))
  BY <1>1, WFMin, NatLessThanWellFounded
<1>3. \A k \in R : ~(k < m)
  BY <1>1, <1>2 DEF OpToRel
<1>4. PICK x \in S : rank[x] = m
  OBVIOUS
<1> QED
  BY <1>1, <1>3, <1>4

\* Rows with names of their own add up to what their names do.
LEMMA SumImage ==
  ASSUME NEW S, IsFiniteSet(S), NEW h, NEW f, NEW g,
         \A x, y \in S : h[x] = h[y] => x = y,
         \A x \in S : g[x] = f[h[x]] /\ g[x] \in Int
  PROVE  SumOf(f, {h[x] : x \in S}) = SumOf(g, S)
<1> DEFINE Rows(s) == {h[x] : x \in s}
           N == {n \in Nat : \A s \in SUBSET S : Cardinality(s) = n =>
                    IsFiniteSet(Rows(s)) /\ SumOf(f, Rows(s)) = SumOf(g, s)}
<1>1. \A s \in SUBSET S : IsFiniteSet(s) /\ Cardinality(s) \in Nat
                            /\ (Cardinality(s) = 0 <=> s = {})
  BY FS_Subset, FS_CardinalityType, FS_EmptySet
<1>2. 0 \in N
  <2>1. Rows({}) = {}
    OBVIOUS
  <2> HIDE DEF Rows
  <2> QED
    BY <1>1, <2>1, SumEmpty, FS_EmptySet
<1>3. ASSUME NEW n \in Nat, n \in N PROVE n + 1 \in N
  <2> SUFFICES ASSUME NEW s \in SUBSET S, Cardinality(s) = n + 1
               PROVE  IsFiniteSet(Rows(s)) /\ SumOf(f, Rows(s)) = SumOf(g, s)
    OBVIOUS
  <2>1. PICK x \in s : TRUE
    BY <1>1
  <2> DEFINE r == s \ {x}
  <2>2. r \in SUBSET S /\ x \notin r /\ x \in S /\ s = r \cup {x}
    BY <2>1
  <2>3. Cardinality(r) = n
    <3>1. IsFiniteSet(s)
      BY <1>1
    <3>2. Cardinality(r) = Cardinality(s) - 1
      BY <2>1, <3>1, FS_RemoveElement
    <3> QED
      BY <3>2
  <2>4. IsFiniteSet(Rows(r)) /\ SumOf(f, Rows(r)) = SumOf(g, r)
    BY <1>3, <2>2, <2>3
  <2>5. Rows(s) = Rows(r) \cup {h[x]} /\ h[x] \notin Rows(r)
    BY <2>2
  <2>6. \A y \in Rows(r) \cup {h[x]} : f[y] \in Int
    BY <2>2
  <2>7. \A y \in r \cup {x} : g[y] \in Int
    BY <2>2
  <2>8. f[h[x]] = g[x] /\ IsFiniteSet(r)
    BY <1>1, <2>2
  <2> HIDE DEF r, Rows
  <2>9. SumOf(f, Rows(s)) = SumOf(f, Rows(r)) + f[h[x]]
    <3> DEFINE R == Rows(r)
               e == h[x]
    <3>1. IsFiniteSet(R) /\ e \notin R /\ (\A y \in R \cup {e} : f[y] \in Int)
      BY <2>4, <2>5, <2>6
    <3>2. Rows(s) = R \cup {e}
      BY <2>5
    <3> HIDE DEF R, e
    <3>3. SumOf(f, R \cup {e}) = SumOf(f, R) + f[e]
      BY <3>1, SumAdd
    <3> QED
      BY <3>2, <3>3 DEF R, e
  <2>10. SumOf(g, s) = SumOf(g, r) + g[x]
    BY <2>2, <2>7, <2>8, SumAdd
  <2>11. IsFiniteSet(Rows(s))
    BY <2>4, <2>5, FS_AddElement
  <2> QED
    BY <2>4, <2>8, <2>9, <2>10, <2>11
<1> HIDE DEF N
<1>4. Nat \subseteq N
  BY <1>2, <1>3, SetInduction
<1>5. Cardinality(S) \in N
  BY <1>1, <1>4
<1> QED
  BY <1>5 DEF N

\* What of S the key says is k.
Part(S, key, k) == {x \in S : key[x] = k}

\* The sums of the parts into which a key divides a set add up to its sum.
LEMMA SumPartition ==
  ASSUME NEW S, IsFiniteSet(S), NEW f, \A x \in S : f[x] \in Int,
         NEW K, IsFiniteSet(K), NEW key, \A x \in S : key[x] \in K,
         NEW part, \A k \in K : part[k] = SumOf(f, Part(S, key, k))
  PROVE  SumOf(part, K) = SumOf(f, S)
<1> DEFINE Of(s) == {x \in S : key[x] \in s}
           N == {n \in Nat : \A s \in SUBSET K : Cardinality(s) = n =>
                    SumOf(part, s) = SumOf(f, Of(s))}
<1>1. \A s \in SUBSET K : /\ IsFiniteSet(s) /\ Cardinality(s) \in Nat
                          /\ (Cardinality(s) = 0 <=> s = {})
  BY FS_Subset, FS_CardinalityType, FS_EmptySet
<1>2. \A k \in K : part[k] \in Int
  <2> SUFFICES ASSUME NEW k \in K PROVE SumOf(f, Part(S, key, k)) \in Int
    OBVIOUS
  <2>1. IsFiniteSet(Part(S, key, k)) /\ \A x \in Part(S, key, k) : f[x] \in Int
    BY FS_Subset DEF Part
  <2> QED
    BY <2>1, SumType
<1>3. 0 \in N
  <2>1. Of({}) = {}
    OBVIOUS
  <2> HIDE DEF Of
  <2> QED
    BY <1>1, <2>1, SumEmpty
<1>4. ASSUME NEW n \in Nat, n \in N PROVE n + 1 \in N
  <2> SUFFICES ASSUME NEW s \in SUBSET K, Cardinality(s) = n + 1
               PROVE  SumOf(part, s) = SumOf(f, Of(s))
    OBVIOUS
  <2>1. PICK k \in s : TRUE
    BY <1>1
  <2> DEFINE r == s \ {k}
             P == Part(S, key, k)
  <2>2. r \in SUBSET K /\ IsFiniteSet(s)
    BY <1>1
  <2>3. Cardinality(r) = n
    <3>1. Cardinality(r) = Cardinality(s) - 1
      BY <2>1, <2>2, FS_RemoveElement
    <3> QED
      BY <3>1
  <2>4. SumOf(part, r) = SumOf(f, Of(r))
    BY <1>4, <2>2, <2>3
  <2>5. SumOf(part, s) = part[k] + SumOf(part, r)
    BY <1>2, <2>1, <2>2, SumRemove
  <2>6. P \in SUBSET Of(s) /\ Of(s) \ P = Of(r) /\ Of(s) \in SUBSET S
    BY <2>1 DEF Part
  <2>7. IsFiniteSet(Of(s)) /\ \A x \in Of(s) : f[x] \in Int
    BY FS_Subset
  <2>8. part[k] = SumOf(f, P)
    BY <2>1
  <2> HIDE DEF Of, r, P
  <2>9. SumOf(f, Of(s)) = SumOf(f, P) + SumOf(f, Of(r))
    BY <2>6, <2>7, SumSplit
  <2> QED
    BY <2>4, <2>5, <2>8, <2>9
<1>5. Of(K) = S
  OBVIOUS
<1> HIDE DEF N, Of
<1>6. Nat \subseteq N
  BY <1>3, <1>4, SetInduction
<1>7. Cardinality(K) \in N
  BY <1>1, <1>6
<1>8. SumOf(part, K) = SumOf(f, Of(K))
  BY <1>7 DEF N
<1> QED
  BY <1>5, <1>8

\* A set is counted by adding up ones.
LEMMA CountIsSum ==
  ASSUME NEW S, IsFiniteSet(S), NEW one, \A x \in S : one[x] = 1
  PROVE  SumOf(one, S) = Cardinality(S)
<1> DEFINE N == {n \in Nat : \A s \in SUBSET S : Cardinality(s) = n => SumOf(one, s) = n}
<1>1. \A s \in SUBSET S : IsFiniteSet(s) /\ Cardinality(s) \in Nat
                            /\ (Cardinality(s) = 0 <=> s = {})
  BY FS_Subset, FS_CardinalityType, FS_EmptySet
<1>2. 0 \in N
  BY <1>1, SumEmpty
<1>3. ASSUME NEW n \in Nat, n \in N PROVE n + 1 \in N
  <2> SUFFICES ASSUME NEW s \in SUBSET S, Cardinality(s) = n + 1 PROVE SumOf(one, s) = n + 1
    OBVIOUS
  <2>1. s # {}
    BY <1>1
  <2>2. Pick(s) \in s /\ s \ {Pick(s)} \in SUBSET S /\ Cardinality(s \ {Pick(s)}) = n
    BY <2>1, PickSmaller
  <2>3. SumOf(one, s \ {Pick(s)}) = n
    BY <1>3, <2>2
  <2>4. SumOf(one, s) = one[Pick(s)] + SumOf(one, s \ {Pick(s)})
    BY <1>1, <2>1, SumPicks
  <2> QED
    BY <2>2, <2>3, <2>4
<1> HIDE DEF N
<1>4. Nat \subseteq N
  BY <1>2, <1>3, SetInduction
<1>5. Cardinality(S) \in N
  BY <1>1, <1>4
<1> QED
  BY <1>5 DEF N

\* The parts into which a key divides a set count as many as the set.
LEMMA CountPartition ==
  ASSUME NEW S, IsFiniteSet(S), NEW K, IsFiniteSet(K), NEW key, \A x \in S : key[x] \in K,
         NEW part, \A k \in K : part[k] = Cardinality(Part(S, key, k))
  PROVE  SumOf(part, K) = Cardinality(S)
<1> DEFINE one == [x \in S |-> 1]
<1>1. \A x \in S : one[x] = 1
  OBVIOUS
<1> HIDE DEF one
<1>2. \A k \in K : part[k] = SumOf(one, Part(S, key, k))
  <2> SUFFICES ASSUME NEW k \in K
               PROVE  SumOf(one, Part(S, key, k)) = Cardinality(Part(S, key, k))
    OBVIOUS
  <2> DEFINE P == Part(S, key, k)
  <2>1. IsFiniteSet(P) /\ \A x \in P : one[x] = 1
    BY <1>1, FS_Subset DEF Part
  <2> HIDE DEF P
  <2>2. SumOf(one, P) = Cardinality(P)
    BY <2>1, CountIsSum
  <2> QED
    BY <2>2 DEF P
<1>3. \A x \in S : one[x] \in Int
  BY <1>1
<1>4. SumOf(part, K) = SumOf(one, S)
  BY <1>2, <1>3, SumPartition
<1> QED
  BY <1>1, <1>4, CountIsSum
=============================================================================
