----------------------------- MODULE FoldLemmas -----------------------------
(***************************************************************************)
(* What the proofs need of induction and of the community modules' folds:  *)
(* that the recursive function behind a fold exists, how a fold over a     *)
(* sequence goes on from one element to the next, how a sum over a set of  *)
(* natural numbers changes with its terms, that numbers can be sorted, and *)
(* a few facts about sequences and products.                               *)
(* Operators are passed as functions, since the provers do not instantiate *)
(* operator parameters.                                                    *)
(***************************************************************************)
EXTENDS Integers, Sequences, FiniteSets, FiniteSetsExt, FiniteSetTheorems,
        WellFoundedInduction, TLAPS

\* Induction over the natural numbers, for a set.
LEMMA NatInduct ==
  ASSUME NEW A, 0 \in A, \A n \in Nat : n \in A => n + 1 \in A
  PROVE  \A n \in Nat : n \in A
<1> SUFFICES ASSUME Nat \ A # {} PROVE FALSE
  OBVIOUS
<1>1. PICK x \in Nat \ A : \A y \in Nat \ A : ~ (<<y, x>> \in OpToRel(<, Nat))
  <2>1. Nat \ A \subseteq Nat
    OBVIOUS
  <2> QED BY <2>1, NatLessThanWellFounded, WFMin
<1>2. \A y \in Nat \ A : ~(y < x)
  BY <1>1 DEF OpToRel
<1>3. x - 1 \in Nat /\ x - 1 < x
  OBVIOUS
<1>4. x - 1 \in A
  BY <1>2, <1>3
<1> QED BY <1>3, <1>4

\* The smallest and the largest of numbers that have one.
LEMMA MinOf ==
  ASSUME NEW S, S \subseteq Nat, S # {}
  PROVE  Min(S) \in S /\ \A y \in S : Min(S) <= y
<1>1. PICK x \in S : \A y \in S : ~ (<<y, x>> \in OpToRel(<, Nat))
  BY NatLessThanWellFounded, WFMin
<1>2. \A y \in S : x <= y
  <2> TAKE y \in S
  <2>1. ~(y < x)
    BY <1>1 DEF OpToRel
  <2> QED BY <2>1
<1> QED BY <1>2 DEF Min

LEMMA MaxOf ==
  ASSUME NEW n \in Nat, NEW S, S \subseteq 0..n, S # {}
  PROVE  Max(S) \in S /\ \A y \in S : y <= Max(S)
<1> DEFINE D == {n - x : x \in S}
<1>1. Min(D) \in D /\ \A y \in D : Min(D) <= y
  <2>1. D \subseteq Nat
    OBVIOUS
  <2>2. PICK x \in S : TRUE
    OBVIOUS
  <2>3. D # {}
    BY <2>2
  <2> HIDE DEF D
  <2> QED BY <2>1, <2>3, MinOf
<1>2. PICK x \in S : \A y \in S : n - x <= n - y
  BY <1>1
<1>3. \A y \in S : x >= y
  BY <1>2
<1> QED BY <1>3 DEF Max

-----------------------------------------------------------------------------
(***************************************************************************)
(* The recursive function of a fold over the subsets of a finite set.      *)
(***************************************************************************)
\* g is that function: G takes the element chosen by ch and the fold of the rest.
FoldsBy(g, X, base, ch, G) ==
  \A s \in SUBSET X : g[s] = IF s = {} THEN base ELSE G[<<ch[s], g[s \ {ch[s]}]>>]

LEMMA FoldExists ==
  ASSUME NEW X, IsFiniteSet(X), NEW R, NEW base \in R,
         NEW ch, \A s \in SUBSET X : s # {} => ch[s] \in s,
         NEW G, \A x \in X, r \in R : G[<<x, r>>] \in R
  PROVE  \E g \in [SUBSET X -> R] : FoldsBy(g, X, base, ch, G)
<1> DEFINE Sub(n) == {s \in SUBSET X : Cardinality(s) <= n}
           Good(g, n) == \A s \in Sub(n) : g[s] = IF s = {} THEN base ELSE G[<<ch[s], g[s \ {ch[s]}]>>]
           A == {n \in Nat : \E g \in [Sub(n) -> R] : Good(g, n)}
<1>1. \A s \in SUBSET X : IsFiniteSet(s) /\ Cardinality(s) \in Nat /\ (Cardinality(s) = 0 <=> s = {})
  BY FS_Subset, FS_CardinalityType, FS_EmptySet
<1>2. \A s \in SUBSET X : s # {} => /\ s \ {ch[s]} \in SUBSET X /\ ch[s] \in X
                                   /\ Cardinality(s \ {ch[s]}) = Cardinality(s) - 1
  BY <1>1, FS_RemoveElement
<1>3. 0 \in A
  <2> DEFINE g == [s \in Sub(0) |-> base]
  <2>1. \A s \in Sub(0) : s = {}
    BY <1>1
  <2>2. g \in [Sub(0) -> R] /\ Good(g, 0)
    BY <2>1
  <2> HIDE DEF g, Good
  <2> QED BY <2>2
<1>4. ASSUME NEW n \in Nat, n \in A PROVE n + 1 \in A
  <2> PICK g \in [Sub(n) -> R] : Good(g, n)
    BY <1>4
  <2> DEFINE h == [s \in Sub(n + 1) |-> IF s \in Sub(n) THEN g[s]
                                         ELSE G[<<ch[s], g[s \ {ch[s]}]>>]]
  <2>1. \A s \in Sub(n + 1) : s # {} => ch[s] \in X /\ s \ {ch[s]} \in Sub(n) /\ s \ {ch[s]} \in Sub(n + 1)
    BY <1>1, <1>2
  <2>2. {} \in Sub(n)
    BY <1>1
  <2>3. h \in [Sub(n + 1) -> R]
    <3> SUFFICES ASSUME NEW s \in Sub(n + 1) PROVE h[s] \in R
      OBVIOUS
    <3>1. CASE s \in Sub(n)
      BY <3>1
    <3>2. CASE s \notin Sub(n)
      <4>1. s # {} /\ ch[s] \in X /\ s \ {ch[s]} \in Sub(n)
        BY <3>2, <2>1, <2>2
      <4>2. g[s \ {ch[s]}] \in R
        BY <4>1
      <4>3. h[s] = G[<<ch[s], g[s \ {ch[s]}]>>]
        BY <3>2
      <4> QED BY <4>1, <4>2, <4>3
    <3> QED BY <3>1, <3>2
  <2>4. Good(h, n + 1)
    <3> SUFFICES ASSUME NEW s \in Sub(n + 1), s # {} PROVE h[s] = G[<<ch[s], h[s \ {ch[s]}]>>]
      <4>0. Cardinality({}) = 0
        BY <1>1
      <4>a. {} \in Sub(n + 1)
        BY <4>0
      <4>b. g[{}] = base
        <5> HIDE DEF Sub
        <5> QED BY <2>2
      <4>1. {} \in Sub(n + 1) /\ g[{}] = base
        BY <4>a, <4>b
      <4>2. h[{}] = base
        BY <4>1, <2>2
      <4> HIDE DEF h
      <4> QED BY <4>2
    <3>1. h[s \ {ch[s]}] = g[s \ {ch[s]}]
      BY <2>1
    <3> QED BY <3>1
  <2>5. \E f \in [Sub(n + 1) -> R] : Good(f, n + 1)
    <3> HIDE DEF h, Good, Sub
    <3> QED BY <2>3, <2>4
  <2> HIDE DEF h, Good, Sub
  <2> QED BY <2>5
<1>5. Cardinality(X) \in A
  <2>1. Cardinality(X) \in Nat
    BY FS_CardinalityType
  <2> HIDE DEF A
  <2> QED BY <1>3, <1>4, <2>1, NatInduct
<1>6. Sub(Cardinality(X)) = SUBSET X
  BY FS_Subset
<1> QED BY <1>5, <1>6 DEF FoldsBy

\* A fold over a sequence: the function over the sets of positions.
LeftBy(g, n, R, base, G) ==
  /\ \A s \in SUBSET (1..n) : g[s] = IF s = {} THEN base ELSE G[<<Max(s), g[s \ {Max(s)}]>>]
  /\ \A s \in SUBSET (1..n) : s # {} => Max(s) \in 1..n /\ g[s \ {Max(s)}] \in R

LEMMA LeftExists ==
  ASSUME NEW n \in Nat, NEW R, NEW base \in R, NEW G, \A i \in 1..n, r \in R : G[<<i, r>>] \in R
  PROVE  \E g \in [SUBSET (1..n) -> R] : LeftBy(g, n, R, base, G)
<1> DEFINE X == 1..n
           ch == [s \in SUBSET X |-> Max(s)]
<1>1. \A s \in SUBSET X : s # {} => ch[s] \in s
  <2> SUFFICES ASSUME NEW s \in SUBSET X, s # {} PROVE Max(s) \in s
    OBVIOUS
  <2>1. s \subseteq 0..n
    OBVIOUS
  <2> QED BY <2>1, MaxOf
<1>2. IsFiniteSet(X)
  BY FS_Interval
<1>3. \A x \in X, r \in R : G[<<x, r>>] \in R
  OBVIOUS
<1>4. PICK g \in [SUBSET X -> R] : FoldsBy(g, X, base, ch, G)
  <2> HIDE DEF ch, X
  <2> QED BY <1>1, <1>2, <1>3, FoldExists
<1>5. \A s \in SUBSET X : ch[s] = Max(s)
  OBVIOUS
<1>6. \A s \in SUBSET X : s # {} => Max(s) \in X /\ g[s \ {Max(s)}] \in R
  <2> TAKE s \in SUBSET X
  <2>1. s # {} => ch[s] \in s
    BY <1>1
  <2>2. s \ {ch[s]} \in SUBSET X
    OBVIOUS
  <2> HIDE DEF ch, X
  <2> QED BY <2>1, <2>2, <1>5
<1>7. \A s \in SUBSET X : g[s] = IF s = {} THEN base ELSE G[<<Max(s), g[s \ {Max(s)}]>>]
  <2> HIDE DEF ch, X
  <2> QED BY <1>4, <1>5 DEF FoldsBy
<1> HIDE DEF ch
<1> QED BY <1>6, <1>7 DEF LeftBy

\* The sets of positions a fold over a sequence goes through.
LEMMA PrefixSets ==
  ASSUME NEW n \in Nat
  PROVE  /\ 1..0 = {}
         /\ \A i \in 1..n : 1..i # {} /\ Max(1..i) = i /\ (1..i) \ {i} = 1..(i - 1)
<1>1. ASSUME NEW i \in 1..n PROVE Max(1..i) = i
  <2>1. Max(1..i) \in 1..i /\ \A y \in 1..i : y <= Max(1..i)
    <3>1. 1..i \subseteq 0..n /\ 1..i # {}
      OBVIOUS
    <3> QED BY <3>1, MaxOf
  <2> QED BY <2>1
<1> QED BY <1>1

-----------------------------------------------------------------------------
(***************************************************************************)
(* Sums over finite sets.                                                  *)
(***************************************************************************)
SumOver(f, S) == SumFunctionOnSet(f, S)

AnyOf(s) == CHOOSE x \in s : TRUE

\* g gives the sums of f over the subsets of S, in the order of the choices.
Sums(g, f, S) ==
  g = [s \in SUBSET S |-> IF s = {} THEN 0 ELSE f[AnyOf(s)] + g[s \ {AnyOf(s)}]]

LEMMA SumOverBy ==
  ASSUME NEW f, NEW S
  PROVE  SumOver(f, S) = (CHOOSE g : Sums(g, f, S))[S]
BY DEF SumOver, SumFunctionOnSet, FoldFunctionOnSet, MapThenFoldSet, Sums, AnyOf

LEMMA SumsExist ==
  ASSUME NEW S, IsFiniteSet(S), NEW f, \A x \in S : f[x] \in Nat
  PROVE  \E g : Sums(g, f, S) /\ g \in [SUBSET S -> Nat]
<1> DEFINE ch == [s \in SUBSET S |-> AnyOf(s)]
           G == [p \in S \X Nat |-> f[p[1]] + p[2]]
<1>1. \A s \in SUBSET S : s # {} => ch[s] \in s
  BY DEF AnyOf
<1>2. \A x \in S, r \in Nat : G[<<x, r>>] = f[x] + r /\ G[<<x, r>>] \in Nat
  OBVIOUS
<1>3. PICK g \in [SUBSET S -> Nat] : FoldsBy(g, S, 0, ch, G)
  <2> HIDE DEF ch, G
  <2> QED BY <1>1, <1>2, FoldExists
<1>4. \A s \in SUBSET S : s # {} => /\ ch[s] = AnyOf(s) /\ ch[s] \in S /\ g[s \ {ch[s]}] \in Nat
  BY <1>1
<1>5. \A s \in SUBSET S : g[s] = IF s = {} THEN 0 ELSE f[AnyOf(s)] + g[s \ {AnyOf(s)}]
  <2> HIDE DEF ch, G
  <2> QED BY <1>2, <1>3, <1>4 DEF FoldsBy
<1>6. Sums(g, f, S)
  BY <1>5 DEF Sums
<1> QED BY <1>6

\* Whichever superset's function is asked, the sum over s is the same.
LEMMA SumsAgree ==
  ASSUME NEW S, IsFiniteSet(S), NEW f, NEW T \in SUBSET S, NEW g, NEW h,
         Sums(g, f, S), Sums(h, f, T)
  PROVE  \A s \in SUBSET T : g[s] = h[s]
<1> DEFINE A == {n \in Nat : \A s \in SUBSET T : Cardinality(s) = n => g[s] = h[s]}
<1>1. \A s \in SUBSET T : IsFiniteSet(s) /\ Cardinality(s) \in Nat /\ (Cardinality(s) = 0 <=> s = {})
  BY FS_Subset, FS_CardinalityType, FS_EmptySet
<1>2. \A s \in SUBSET T : s # {} => /\ s \ {AnyOf(s)} \in SUBSET T
                                   /\ Cardinality(s \ {AnyOf(s)}) = Cardinality(s) - 1
  <2> SUFFICES ASSUME NEW s \in SUBSET T, s # {}
               PROVE  /\ s \ {AnyOf(s)} \in SUBSET T
                      /\ Cardinality(s \ {AnyOf(s)}) = Cardinality(s) - 1
    OBVIOUS
  <2>1. AnyOf(s) \in s
    BY DEF AnyOf
  <2> QED BY <2>1, <1>1, FS_RemoveElement
<1>3. \A s \in SUBSET T : /\ g[s] = IF s = {} THEN 0 ELSE f[AnyOf(s)] + g[s \ {AnyOf(s)}]
                          /\ h[s] = IF s = {} THEN 0 ELSE f[AnyOf(s)] + h[s \ {AnyOf(s)}]
  BY DEF Sums
<1>4. 0 \in A
  BY <1>1, <1>3
<1>5. ASSUME NEW n \in Nat, n \in A PROVE n + 1 \in A
  <2> SUFFICES ASSUME NEW s \in SUBSET T, Cardinality(s) = n + 1 PROVE g[s] = h[s]
    OBVIOUS
  <2>1. s # {} /\ s \ {AnyOf(s)} \in SUBSET T /\ Cardinality(s \ {AnyOf(s)}) = n
    BY <1>1, <1>2
  <2>2. g[s \ {AnyOf(s)}] = h[s \ {AnyOf(s)}]
    BY <1>5, <2>1
  <2> QED BY <1>3, <2>1, <2>2
<1>6. \A n \in Nat : n \in A
  <2> HIDE DEF A
  <2> QED BY <1>4, <1>5, NatInduct
<1> QED BY <1>1, <1>6

SumsUp(g, f, S) == Sums(g, f, S) /\ \A T \in SUBSET S : SumOver(f, T) = g[T]

LEMMA SumOverSums ==
  ASSUME NEW S, IsFiniteSet(S), NEW f, \A x \in S : f[x] \in Nat
  PROVE  \E g \in [SUBSET S -> Nat] : SumsUp(g, f, S)
<1>1. PICK g : Sums(g, f, S) /\ g \in [SUBSET S -> Nat]
  BY SumsExist
<1>2. ASSUME NEW T \in SUBSET S PROVE SumOver(f, T) = g[T]
  <2>1. \E h : Sums(h, f, T)
    BY FS_Subset, SumsExist
  <2>2. Sums((CHOOSE h : Sums(h, f, T)), f, T)
    BY <2>1
  <2> QED BY <2>2, <1>1, SumsAgree, SumOverBy
<1> QED BY <1>1, <1>2 DEF SumsUp

\* The sum over a set, with one element, any one, taken out of it.
LEMMA SumEmpty == ASSUME NEW f PROVE SumOver(f, {}) = 0
<1>1. IsFiniteSet({}) /\ \A x \in {} : f[x] \in Nat
  BY FS_EmptySet
<1>2. PICK g \in [SUBSET {} -> Nat] : SumsUp(g, f, {})
  BY <1>1, SumOverSums
<1> QED BY <1>2 DEF Sums, SumsUp

LEMMA SumNat ==
  ASSUME NEW S, IsFiniteSet(S), NEW f, \A x \in S : f[x] \in Nat
  PROVE  SumOver(f, S) \in Nat
<1>1. PICK g \in [SUBSET S -> Nat] : SumsUp(g, f, S)
  BY SumOverSums
<1>2. S \in SUBSET S
  OBVIOUS
<1> QED BY <1>1, <1>2 DEF SumsUp

LEMMA SumWithout ==
  ASSUME NEW S, IsFiniteSet(S), NEW f, \A x \in S : f[x] \in Nat, NEW x \in S
  PROVE  SumOver(f, S) = f[x] + SumOver(f, S \ {x})
<1>0. PICK g \in [SUBSET S -> Nat] : SumsUp(g, f, S)
  BY SumOverSums
<1>1. Sums(g, f, S) /\ \A T \in SUBSET S : SumOver(f, T) = g[T]
  BY <1>0 DEF SumsUp
<1> DEFINE A == {n \in Nat : \A s \in SUBSET S : Cardinality(s) = n =>
                               \A y \in s : g[s] = f[y] + g[s \ {y}]}
<1>2. \A s \in SUBSET S : IsFiniteSet(s) /\ Cardinality(s) \in Nat /\ (Cardinality(s) = 0 <=> s = {})
  BY FS_Subset, FS_CardinalityType, FS_EmptySet
<1>3. \A s \in SUBSET S : s # {} => AnyOf(s) \in s /\ g[s] = f[AnyOf(s)] + g[s \ {AnyOf(s)}]
  BY <1>1 DEF Sums, AnyOf
<1>4. 0 \in A
  BY <1>2
<1>5. ASSUME NEW n \in Nat, n \in A PROVE n + 1 \in A
  <2> SUFFICES ASSUME NEW s \in SUBSET S, Cardinality(s) = n + 1, NEW y \in s
               PROVE  g[s] = f[y] + g[s \ {y}]
    OBVIOUS
  <2> DEFINE z == AnyOf(s)
  <2>1. z \in s /\ g[s] = f[z] + g[s \ {z}]
    BY <1>3
  <2>2. CASE y = z
    BY <2>1, <2>2
  <2>3. CASE y # z
    <3>1. /\ s \ {z} \in SUBSET S /\ Cardinality(s \ {z}) = n /\ y \in s \ {z}
          /\ s \ {y} \in SUBSET S /\ Cardinality(s \ {y}) = n /\ z \in s \ {y}
      <4>1. \A u \in s : /\ s \ {u} \in SUBSET S
                          /\ Cardinality(s \ {u}) = Cardinality(s) - 1
        BY <1>2, FS_RemoveElement
      <4> HIDE DEF z
      <4> QED BY <4>1, <2>1, <2>3
    <3>2. g[s \ {z}] = f[y] + g[(s \ {z}) \ {y}]
      BY <3>1, <1>5
    <3>3. g[s \ {y}] = f[z] + g[(s \ {y}) \ {z}]
      BY <3>1, <1>5
    <3>4. (s \ {z}) \ {y} = (s \ {y}) \ {z} /\ (s \ {y}) \ {z} \in SUBSET S
      OBVIOUS
    <3>5. f[y] \in Nat /\ f[z] \in Nat /\ g[(s \ {y}) \ {z}] \in Nat
      BY <2>1, <3>4
    <3>6. g[(s \ {z}) \ {y}] = g[(s \ {y}) \ {z}]
      BY <3>4
    <3>7. g[s] = f[z] + g[s \ {z}]
      BY <2>1
    <3> HIDE DEF z
    <3> QED BY <3>7, <3>2, <3>3, <3>5, <3>6
  <2> QED BY <2>2, <2>3
<1>6. Cardinality(S) \in A
  <2>1. Cardinality(S) \in Nat
    BY <1>2
  <2> HIDE DEF A
  <2> QED BY <2>1, <1>4, <1>5, NatInduct
<1>7. S \ {x} \in SUBSET S /\ S \in SUBSET S
  OBVIOUS
<1>8. g[S] = f[x] + g[S \ {x}]
  BY <1>6
<1> QED BY <1>1, <1>7, <1>8

\* What a sum does when its terms grow, or one of them.
LEMMA SumAtMost ==
  ASSUME NEW S, IsFiniteSet(S), NEW f, NEW h,
         \A x \in S : f[x] \in Nat /\ h[x] \in Nat /\ f[x] <= h[x]
  PROVE  SumOver(f, S) <= SumOver(h, S)
<1> DEFINE A == {n \in Nat : \A s \in SUBSET S : Cardinality(s) = n => SumOver(f, s) <= SumOver(h, s)}
<1>1. \A s \in SUBSET S : IsFiniteSet(s) /\ Cardinality(s) \in Nat /\ (Cardinality(s) = 0 <=> s = {})
  BY FS_Subset, FS_CardinalityType, FS_EmptySet
<1>2. 0 \in A
  BY <1>1, SumEmpty
<1>3. ASSUME NEW n \in Nat, n \in A PROVE n + 1 \in A
  <2> SUFFICES ASSUME NEW s \in SUBSET S, Cardinality(s) = n + 1
               PROVE  SumOver(f, s) <= SumOver(h, s)
    OBVIOUS
  <2>1. PICK x \in s : TRUE
    BY <1>1
  <2>2. s \ {x} \in SUBSET S /\ Cardinality(s \ {x}) = n /\ IsFiniteSet(s \ {x})
    BY <1>1, FS_RemoveElement
  <2>3. SumOver(f, s) = f[x] + SumOver(f, s \ {x}) /\ SumOver(f, s \ {x}) \in Nat
    BY <1>1, <2>2, SumWithout, SumNat
  <2>4. SumOver(h, s) = h[x] + SumOver(h, s \ {x}) /\ SumOver(h, s \ {x}) \in Nat
    BY <1>1, <2>2, SumWithout, SumNat
  <2>5. SumOver(f, s \ {x}) <= SumOver(h, s \ {x})
    BY <1>3, <2>2
  <2>6. f[x] \in Nat /\ h[x] \in Nat /\ f[x] <= h[x]
    OBVIOUS
  <2> QED BY <2>3, <2>4, <2>5, <2>6
<1>4. Cardinality(S) \in A
  <2>1. Cardinality(S) \in Nat
    BY <1>1
  <2> HIDE DEF A
  <2> QED BY <2>1, <1>2, <1>3, NatInduct
<1> QED BY <1>4

LEMMA SumSame ==
  ASSUME NEW S, IsFiniteSet(S), NEW f, NEW h, \A x \in S : f[x] \in Nat /\ h[x] = f[x]
  PROVE  SumOver(f, S) = SumOver(h, S)
<1>1. SumOver(f, S) <= SumOver(h, S) /\ SumOver(h, S) <= SumOver(f, S)
  BY SumAtMost
<1>2. SumOver(f, S) \in Nat /\ SumOver(h, S) \in Nat
  BY SumNat
<1> QED BY <1>1, <1>2

LEMMA SumChanged ==
  ASSUME NEW S, IsFiniteSet(S), NEW f, NEW h, NEW x \in S,
         \A y \in S : f[y] \in Nat /\ h[y] \in Nat /\ (y # x => h[y] = f[y])
  PROVE  SumOver(h, S) + f[x] = SumOver(f, S) + h[x]
<1>1. SumOver(f, S) = f[x] + SumOver(f, S \ {x})
  BY SumWithout
<1>2. SumOver(h, S) = h[x] + SumOver(h, S \ {x})
  BY SumWithout
<1>3. IsFiniteSet(S \ {x})
  BY FS_RemoveElement
<1>4. SumOver(f, S \ {x}) = SumOver(h, S \ {x}) /\ SumOver(f, S \ {x}) \in Nat
  BY <1>3, SumSame, SumNat
<1> QED BY <1>1, <1>2, <1>4

-----------------------------------------------------------------------------
(***************************************************************************)
(* Numbers can be put in order.                                            *)
(***************************************************************************)
\* The numbers 1..n but a, without the gap
Skip(a, i) == IF i < a THEN i ELSE i + 1

SortsTo(n, m, p) == \A i, j \in 1..n : i < j => m[p[i]] <= m[p[j]]
Sortable(n) == \A m \in [1..n -> Nat] : \E p \in Bijection(1..n, 1..n) : SortsTo(n, m, p)

LEMMA SortOneMore ==
  ASSUME NEW n \in Nat, Sortable(n)
  PROVE  Sortable(n + 1)
<1> SUFFICES ASSUME NEW m \in [1..(n + 1) -> Nat]
             PROVE  \E p \in Bijection(1..(n + 1), 1..(n + 1)) : SortsTo(n + 1, m, p)
  BY DEF Sortable
<1>1. PICK a \in 1..(n + 1) : \A i \in 1..(n + 1) : m[a] <= m[i]
  <2> DEFINE S == {m[i] : i \in 1..(n + 1)}
  <2>1. S \in SUBSET Nat /\ m[1] \in S
    OBVIOUS
  <2>2. Min(S) \in S /\ \A x \in S : Min(S) <= x
    <3> HIDE DEF S
    <3> QED BY <2>1, MinOf
  <2>3. PICK i \in 1..(n + 1) : Min(S) = m[i]
    BY <2>2
  <2>4. \A j \in 1..(n + 1) : m[j] \in S
    OBVIOUS
  <2> QED BY <2>2, <2>3, <2>4
<1> DEFINE rest == [i \in 1..n |-> m[Skip(a, i)]]
<1>2. rest \in [1..n -> Nat]
  BY DEF Skip
<1>3. PICK q \in Bijection(1..n, 1..n) : SortsTo(n, rest, q)
  <2> HIDE DEF rest
  <2> QED BY <1>2 DEF Sortable
<1>4. /\ q \in [1..n -> 1..n]
      /\ \A i, j \in 1..n : q[i] = q[j] => i = j
      /\ \A k \in 1..n : \E i \in 1..n : q[i] = k
  BY <1>3 DEF Bijection, Injection, Surjection, IsInjective
<1> DEFINE p == [i \in 1..(n + 1) |-> IF i = 1 THEN a ELSE Skip(a, q[i - 1])]
<1>5. /\ \A i \in 1..n : Skip(a, q[i]) \in 1..(n + 1) /\ Skip(a, q[i]) # a
      /\ \A i, j \in 1..n : Skip(a, q[i]) = Skip(a, q[j]) => i = j
  <2>1. \A i \in 1..n : q[i] \in 1..n
    BY <1>4
  <2>2. ASSUME NEW x \in 1..n, NEW y \in 1..n, Skip(a, x) = Skip(a, y) PROVE x = y
    <3> HIDE DEF rest, p
    <3> QED BY <2>2 DEF Skip
  <2>3. \A x \in 1..n : Skip(a, x) \in 1..(n + 1) /\ Skip(a, x) # a
    BY DEF Skip
  <2> QED BY <1>4, <2>1, <2>2, <2>3
<1>6. p \in [1..(n + 1) -> 1..(n + 1)]
  BY <1>5
<1>7. \A i, j \in 1..(n + 1) : p[i] = p[j] => i = j
  BY <1>5
<1>8. \A k \in 1..(n + 1) : \E i \in 1..(n + 1) : p[i] = k
  <2> TAKE k \in 1..(n + 1)
  <2>1. CASE k = a
    BY <2>1
  <2>2. CASE k # a
    <3>1. PICK x \in 1..n : Skip(a, x) = k
      <4>1. CASE k < a
        BY <4>1 DEF Skip
      <4>2. CASE k > a
        <5>1. k - 1 \in 1..n /\ Skip(a, k - 1) = k
          BY <4>2 DEF Skip
        <5> QED BY <5>1
      <4> QED BY <2>2, <4>1, <4>2
    <3>2. PICK i \in 1..n : q[i] = x
      BY <1>4
    <3>3. i + 1 \in 1..(n + 1) /\ p[i + 1] = k
      BY <3>1, <3>2
    <3> QED BY <3>3
  <2> QED BY <2>1, <2>2
<1>9. SortsTo(n + 1, m, p)
  <2> SUFFICES ASSUME NEW i \in 1..(n + 1), NEW j \in 1..(n + 1), i < j
               PROVE  m[p[i]] <= m[p[j]]
    BY DEF SortsTo
  <2>1. CASE i = 1
    <3>1. p[i] = a /\ p[j] \in 1..(n + 1)
      BY <2>1, <1>6
    <3> QED BY <3>1, <1>1
  <2>2. CASE i # 1
    <3>1. i - 1 \in 1..n /\ j - 1 \in 1..n /\ i - 1 < j - 1
      BY <2>2
    <3>2. rest[q[i - 1]] <= rest[q[j - 1]]
      BY <3>1, <1>3 DEF SortsTo
    <3>3. /\ rest[q[i - 1]] = m[Skip(a, q[i - 1])]
          /\ rest[q[j - 1]] = m[Skip(a, q[j - 1])]
      BY <3>1, <1>4
    <3>4. p[i] = Skip(a, q[i - 1]) /\ p[j] = Skip(a, q[j - 1])
      BY <2>2, <3>1
    <3> QED BY <3>2, <3>3, <3>4
  <2> QED BY <2>1, <2>2
<1> HIDE DEF p
<1>10. p \in Bijection(1..(n + 1), 1..(n + 1))
  BY <1>6, <1>7, <1>8 DEF Bijection, Injection, Surjection, IsInjective
<1> QED BY <1>9, <1>10

LEMMA AllSortable == \A n \in Nat : Sortable(n)
<1> DEFINE T == {n \in Nat : ~Sortable(n)}
<1> SUFFICES ASSUME T # {} PROVE FALSE
  OBVIOUS
<1>1. T \in SUBSET Nat
  OBVIOUS
<1> DEFINE n == Min(T)
<1>2. n \in T /\ \A x \in T : n <= x
  <2> HIDE DEF T
  <2> QED BY <1>1, MinOf
<1> HIDE DEF n
<1>3. CASE n = 0
  <2>1. Sortable(0)
    <3> SUFFICES ASSUME NEW m \in [1..0 -> Nat]
                 PROVE  \E p \in Bijection(1..0, 1..0) : SortsTo(0, m, p)
      BY DEF Sortable
    <3> DEFINE p == [i \in 1..0 |-> i]
    <3>1. p \in [1..0 -> 1..0]
      OBVIOUS
    <3>2. p \in Bijection(1..0, 1..0) /\ SortsTo(0, m, p)
      BY <3>1 DEF Bijection, Injection, Surjection, IsInjective, SortsTo
    <3> QED BY <3>2
  <2> QED BY <1>2, <1>3, <2>1
<1>4. CASE n # 0
  <2>1. n - 1 \in Nat /\ n - 1 \notin T
    BY <1>2, <1>4
  <2>2. Sortable(n - 1)
    BY <2>1
  <2>3. Sortable((n - 1) + 1)
    BY <2>1, <2>2, SortOneMore
  <2>4. (n - 1) + 1 = n
    BY <1>2
  <2> QED BY <1>2, <2>3, <2>4
<1> QED BY <1>3, <1>4

-----------------------------------------------------------------------------
(***************************************************************************)
(* Sequences and numbers.                                                  *)
(***************************************************************************)

\* The product of natural numbers is one.
LEMMA TimesNat == ASSUME NEW a \in Nat, NEW b \in Nat PROVE a * b \in Nat
OBVIOUS

\* What is known of a sequence.
LEMMA SeqIs ==
  ASSUME NEW S, NEW s \in Seq(S)
  PROVE  Len(s) \in Nat /\ DOMAIN s = 1..Len(s) /\ \A i \in 1..Len(s) : s[i] \in S
OBVIOUS

\* What is known of a concatenation.
LEMMA SeqOfBoth ==
  ASSUME NEW S, NEW s \in Seq(S), NEW t \in Seq(S)
  PROVE  /\ Len(s \o t) = Len(s) + Len(t) /\ DOMAIN (s \o t) = 1..(Len(s) + Len(t))
         /\ Len(s) \in Nat /\ Len(t) \in Nat
         /\ \A i \in 1..Len(s) : (s \o t)[i] = s[i]
         /\ \A i \in (Len(s) + 1)..(Len(s) + Len(t)) : i - Len(s) \in 1..Len(t) /\ (s \o t)[i] = t[i - Len(s)]
OBVIOUS

\* Three elements and a sequence behind them, of whatever type.
LEMMA SeqOfThree ==
  ASSUME NEW a, NEW b, NEW c, NEW S, NEW t \in Seq(S), NEW u, u = <<a, b, c>> \o t
  PROVE  /\ Len(u) = 3 + Len(t) /\ Len(u) \in Nat /\ DOMAIN u = 1..Len(u)
         /\ u[1] = a /\ u[2] = b /\ u[3] = c
         /\ \A i \in 4..Len(u) : i - 3 \in 1..Len(t) /\ u[i] = t[i - 3]
<1> DEFINE T == S \cup {a, b, c}
           h == <<a, b, c>>
<1>1. h \in Seq(T) /\ t \in Seq(T) /\ Len(h) = 3 /\ h[1] = a /\ h[2] = b /\ h[3] = c
  OBVIOUS
<1>2. u = h \o t
  OBVIOUS
<1> HIDE DEF h, T
<1>3. /\ Len(u) = Len(h) + Len(t) /\ DOMAIN u = 1..(Len(h) + Len(t)) /\ Len(t) \in Nat
      /\ \A i \in 1..Len(h) : u[i] = h[i]
      /\ \A i \in (Len(h) + 1)..(Len(h) + Len(t)) : i - Len(h) \in 1..Len(t) /\ u[i] = t[i - Len(h)]
  BY <1>1, <1>2, SeqOfBoth
<1> QED BY <1>1, <1>3

\* What a sequence holds.
Made(s, c) == \E i \in DOMAIN s : s[i] = c

\* What a concatenation holds.
LEMMA Joined ==
  ASSUME NEW C, NEW s \in Seq(C), NEW t \in Seq(C)
  PROVE  /\ s \o t = <<>> <=> s = <<>> /\ t = <<>>
         /\ \A c : Made(s \o t, c) <=> Made(s, c) \/ Made(t, c)
<1> DEFINE u == s \o t
<1>1. /\ u \in Seq(C) /\ Len(u) = Len(s) + Len(t) /\ DOMAIN u = 1..Len(u)
      /\ Len(s) \in Nat /\ Len(t) \in Nat /\ DOMAIN s = 1..Len(s) /\ DOMAIN t = 1..Len(t)
      /\ \A i \in 1..Len(s) : u[i] = s[i]
      /\ \A i \in 1..Len(t) : u[i + Len(s)] = t[i]
  OBVIOUS
<1>2. u = <<>> <=> s = <<>> /\ t = <<>>
  <2>1. \A v \in Seq(C) : v = <<>> <=> Len(v) = 0
    OBVIOUS
  <2> HIDE DEF u
  <2> QED BY <1>1, <2>1
<1> HIDE DEF u
<1>3. ASSUME NEW c, Made(u, c) PROVE Made(s, c) \/ Made(t, c)
  <2>1. PICK i \in DOMAIN u : u[i] = c
    BY <1>3 DEF Made
  <2>2. CASE i <= Len(s)
    BY <1>1, <2>1, <2>2 DEF Made
  <2>3. CASE i > Len(s)
    <3>1. i - Len(s) \in 1..Len(t) /\ (i - Len(s)) + Len(s) = i
      BY <1>1, <2>1, <2>3
    <3>2. t[i - Len(s)] = c
      BY <1>1, <2>1, <3>1
    <3> QED BY <1>1, <3>1, <3>2 DEF Made
  <2> QED BY <1>1, <2>1, <2>2, <2>3
<1>4. ASSUME NEW c, Made(s, c) PROVE Made(u, c)
  BY <1>1, <1>4 DEF Made
<1>5. ASSUME NEW c, Made(t, c) PROVE Made(u, c)
  <2>1. PICK i \in DOMAIN t : t[i] = c
    BY <1>5 DEF Made
  <2>2. i + Len(s) \in DOMAIN u /\ u[i + Len(s)] = c
    BY <1>1, <2>1
  <2> QED BY <2>2 DEF Made
<1> QED BY <1>2, <1>3, <1>4, <1>5 DEF u

\* What a sequence of one element holds.
LEMMA MadeOne ==
  ASSUME NEW x
  PROVE  /\ \A c : Made(<<x>>, c) <=> c = x
         /\ \A c : ~Made(<<>>, c)
         /\ <<x>> # <<>>
<1>1. DOMAIN <<x>> = {1} /\ <<x>>[1] = x /\ DOMAIN <<>> = {}
  OBVIOUS
<1> QED BY <1>1 DEF Made

\* Every number below n, in order, is counting.
LEMMA InOrderIsCounting ==
  ASSUME NEW n \in Nat, NEW v \in [1..n -> Nat], \A i, j \in 1..n : i < j => v[i] <= v[j],
         \A x : x \in 0..(n - 1) <=> \E i \in 1..n : v[i] = x
  PROVE  \A i \in 1..n : v[i] = i - 1
<1>1. \A i \in 1..n : v[i] \in 0..(n - 1)
  OBVIOUS
<1>2. \A i \in 1..n : i + 1 \in 1..n => v[i + 1] <= v[i] + 1
  <2> SUFFICES ASSUME NEW i \in 1..n, i + 1 \in 1..n PROVE v[i + 1] <= v[i] + 1
    OBVIOUS
  <2>1. CASE v[i] + 1 \in 0..(n - 1)
    <3>1. PICK j \in 1..n : v[j] = v[i] + 1
      BY <2>1
    <3>2. j > i
      <4>1. v[i] \in Nat /\ v[j] \in Nat /\ v[j] > v[i]
        BY <3>1
      <4>2. j # i /\ ~(j < i)
        BY <3>1, <4>1
      <4> QED BY <4>2
    <3>3. v[i + 1] <= v[j]
      <4>1. CASE j = i + 1
        BY <4>1
      <4>2. CASE j > i + 1
        BY <4>2
      <4> QED BY <3>2, <4>1, <4>2
    <3> QED BY <3>1, <3>3
  <2>2. CASE v[i] + 1 \notin 0..(n - 1)
    <3>1. v[i] \in 0..(n - 1) /\ v[i + 1] \in 0..(n - 1)
      BY <1>1
    <3> QED BY <2>2, <3>1
  <2> QED BY <2>1, <2>2
<1> DEFINE A == {k \in Nat : k + 1 \in 1..n => v[k + 1] <= k}
           B == {k \in Nat : n - k \in 1..n => v[n - k] >= (n - k) - 1}
<1>3. 0 \in A
  <2> SUFFICES ASSUME 1 \in 1..n PROVE v[1] <= 0
    OBVIOUS
  <2>1. PICK j \in 1..n : v[j] = 0
    <3>1. 0 \in 0..(n - 1)
      OBVIOUS
    <3> QED BY <3>1
  <2>2. CASE j = 1
    BY <2>1, <2>2
  <2>3. CASE j > 1
    BY <2>1, <2>3
  <2> QED BY <2>2, <2>3
<1>4. ASSUME NEW k \in Nat, k \in A PROVE k + 1 \in A
  <2> SUFFICES ASSUME (k + 1) + 1 \in 1..n PROVE v[(k + 1) + 1] <= k + 1
    OBVIOUS
  <2>1. k + 1 \in 1..n
    OBVIOUS
  <2>2. v[k + 1] <= k /\ v[(k + 1) + 1] <= v[k + 1] + 1
    BY <1>2, <1>4, <2>1
  <2>3. v[k + 1] \in Nat /\ v[(k + 1) + 1] \in Nat
    BY <2>1
  <2> QED BY <2>2, <2>3
<1>5. 0 \in B
  <2> SUFFICES ASSUME n \in 1..n PROVE v[n] >= n - 1
    OBVIOUS
  <2>1. n - 1 \in 0..(n - 1)
    OBVIOUS
  <2>2. PICK j \in 1..n : v[j] = n - 1
    BY <2>1
  <2>3. CASE j = n
    BY <2>2, <2>3
  <2>4. CASE j < n
    BY <2>2, <2>4
  <2> QED BY <2>3, <2>4
<1>6. ASSUME NEW k \in Nat, k \in B PROVE k + 1 \in B
  <2> SUFFICES ASSUME n - (k + 1) \in 1..n PROVE v[n - (k + 1)] >= (n - (k + 1)) - 1
    OBVIOUS
  <2> DEFINE i == n - (k + 1)
  <2>1. i \in 1..n /\ n - k \in 1..n /\ n - k = i + 1
    OBVIOUS
  <2>2. v[i + 1] >= i /\ v[i + 1] <= v[i] + 1
    BY <1>2, <1>6, <2>1
  <2>3. v[i] \in Nat /\ v[i + 1] \in Nat
    BY <2>1
  <2> HIDE DEF i
  <2>4. v[i] >= i - 1
    BY <2>1, <2>2, <2>3
  <2> QED BY <2>4 DEF i
<1>7. (\A k \in Nat : k \in A) /\ \A k \in Nat : k \in B
  <2> HIDE DEF A, B
  <2> QED BY <1>3, <1>4, <1>5, <1>6, NatInduct
<1> QED
  <2> TAKE i \in 1..n
  <2>1. i - 1 \in Nat /\ (i - 1) + 1 = i /\ n - i \in Nat /\ n - (n - i) = i
    OBVIOUS
  <2>2. v[i] <= i - 1 /\ v[i] >= i - 1
    BY <1>7, <2>1
  <2>3. v[i] \in Nat /\ i - 1 \in Nat
    BY <2>1
  <2> QED BY <2>2, <2>3
=============================================================================
