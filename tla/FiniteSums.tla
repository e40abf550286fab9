----------------------------- MODULE FiniteSums -----------------------------
(***************************************************************************)
(* Sums over finite sets, and the two inductions they take, for use in     *)
(* proofs.  SumFunctionOnSet of the community modules is a recursive       *)
(* function on the subsets of a set; the lemmas say that it is well        *)
(* defined and what a reader expects of a sum.                             *)
(*                                                                         *)
(* An induction is stated about the set of the values for which a property *)
(* holds, not about the property.                                          *)
(***************************************************************************)
EXTENDS Functions, FiniteSetTheorems, WellFoundedInduction, TLAPS

(***************************************************************************)
(* Induction.                                                              *)
(***************************************************************************)

LEMMA LeastNatural ==
  ASSUME NEW N \in SUBSET Nat, N # {}
  PROVE  \E n \in N : \A m \in N : n <= m
<1> DEFINE R == OpToRel(<, Nat)
<1>1. IsWellFoundedOn(R, Nat)
  BY NatLessThanWellFounded
<1>2. \A x, y \in Nat : <<x, y>> \in R <=> x < y
  BY DEF OpToRel
<1> HIDE DEF R
<1>3. PICK n \in N : \A m \in N : ~ (<<m, n>> \in R)
  BY <1>1, WFMin
<1>4. \A m \in N : n <= m
  <2> TAKE m \in N
  <2>1. n \in Nat /\ m \in Nat
    OBVIOUS
  <2>2. ~ (m < n)
    BY <1>2, <1>3, <2>1
  <2> QED BY <2>1, <2>2
<1> QED BY <1>4

LEMMA NaturalsFromZero ==
  ASSUME NEW N, 0 \in N, \A n \in Nat : n \in N => n + 1 \in N
  PROVE  Nat \subseteq N
<1> SUFFICES ASSUME Nat \ N # {} PROVE FALSE
  OBVIOUS
<1>1. PICK n \in Nat \ N : \A m \in Nat \ N : n <= m
  BY LeastNatural
<1>2. n # 0 /\ n \in Nat
  OBVIOUS
<1>3. n - 1 \in Nat /\ n - 1 \in N
  BY <1>1, <1>2
<1> QED BY <1>2, <1>3

(* A property of finite sets that a set has when all sets with one element *)
(* less have it.                                                           *)
LEMMA SubsetsFromSmaller ==
  ASSUME NEW S, IsFiniteSet(S), NEW T,
         \A A \in SUBSET S : (\A x \in A : A \ {x} \in T) => A \in T
  PROVE  SUBSET S \subseteq T
<1> SUFFICES ASSUME (SUBSET S) \ T # {} PROVE FALSE
  OBVIOUS
<1> DEFINE N == {Cardinality(A) : A \in (SUBSET S) \ T}
<1>1. \A A \in SUBSET S : IsFiniteSet(A) /\ Cardinality(A) \in Nat
  BY FS_Subset, FS_CardinalityType
<1>2. N \in SUBSET Nat /\ N # {}
  BY <1>1
<1>3. PICK A \in (SUBSET S) \ T : \A B \in (SUBSET S) \ T : Cardinality(A) <= Cardinality(B)
  <2> HIDE DEF N
  <2>1. PICK n \in N : \A m \in N : n <= m
    BY <1>2, LeastNatural
  <2> QED BY <2>1 DEF N
<1>4. PICK x \in A : A \ {x} \notin T
  BY <1>3
<1>5. Cardinality(A \ {x}) = Cardinality(A) - 1
  BY <1>1, <1>4, FS_RemoveElement
<1>6. A \ {x} \in (SUBSET S) \ T
  BY <1>4
<1>7. Cardinality(A) <= Cardinality(A \ {x})
  BY <1>3, <1>6
<1> QED BY <1>1, <1>5, <1>7

(* A function may be applied again and again.                              *)
LEMMA IterationsExist ==
  ASSUME NEW X, NEW x0 \in X, NEW f \in [X -> X]
  PROVE  \E g \in [Nat -> X] : g[0] = x0 /\ \A n \in Nat : g[n + 1] = f[g[n]]
<1> DEFINE Upto(n, g) == /\ g \in [0 .. n -> X]
                         /\ g[0] = x0
                         /\ \A k \in 0 .. n - 1 : g[k + 1] = f[g[k]]
           N == {n \in Nat : \E g : Upto(n, g)}
<1>1. 0 \in N
  <2>1. Upto(0, [k \in 0 .. 0 |-> x0])
    OBVIOUS
  <2> QED BY <2>1
<1>2. ASSUME NEW n \in Nat, n \in N
      PROVE  n + 1 \in N
  <2>1. PICK g : Upto(n, g)
    BY <1>2
  <2> DEFINE h == [k \in 0 .. n + 1 |-> IF k = n + 1 THEN f[g[n]] ELSE g[k]]
  <2>2. Upto(n + 1, h)
    <3>1. h \in [0 .. n + 1 -> X] /\ h[0] = x0
      BY <2>1
    <3>2. \A k \in 0 .. n : h[k + 1] = f[h[k]]
      BY <2>1
    <3> QED BY <3>1, <3>2
  <2>3. \E k : Upto(n + 1, k)
    <3> HIDE DEF h, Upto
    <3> QED BY <2>2
  <2> QED BY <2>3
<1>3. \A n \in Nat : \E g : Upto(n, g)
  <2> HIDE DEF Upto
  <2>1. Nat \subseteq N
    <3> HIDE DEF N
    <3> QED BY <1>1, <1>2, NaturalsFromZero
  <2> QED BY <2>1
<1> DEFINE F(n) == CHOOSE g : Upto(n, g)
<1>4. \A n \in Nat : Upto(n, F(n))
  <2> HIDE DEF Upto
  <2> QED BY <1>3
<1>5. ASSUME NEW n \in Nat, NEW k \in Nat, k <= n
      PROVE  F(n)[k] = F(k)[k]
  <2> DEFINE M == {m \in Nat : m <= k => F(n)[m] = F(k)[m]}
  <2>1. 0 \in M
    BY <1>4
  <2>2. ASSUME NEW m \in Nat, m \in M
        PROVE  m + 1 \in M
    <3>1. CASE m + 1 <= k
      <4>1. F(n)[m] = F(k)[m] /\ m \in 0 .. n - 1 /\ m \in 0 .. k - 1
        BY <1>5, <2>2, <3>1
      <4>2. F(n)[m + 1] = f[F(n)[m]] /\ F(k)[m + 1] = f[F(k)[m]]
        <5> HIDE DEF F
        <5> QED BY <1>4, <4>1
      <4> QED BY <4>1, <4>2
    <3>2. CASE ~ (m + 1 <= k)
      BY <3>2
    <3> QED BY <3>1, <3>2
  <2>3. k \in M
    <3> HIDE DEF M
    <3> QED BY <2>1, <2>2, NaturalsFromZero
  <2> QED BY <2>3
<1> DEFINE G == [n \in Nat |-> F(n)[n]]
<1>6. G \in [Nat -> X]
  <2>1. \A n \in Nat : n \in 0 .. n
    OBVIOUS
  <2> HIDE DEF F
  <2> QED BY <1>4, <2>1
<1>7. G[0] = x0
  <2> HIDE DEF F
  <2> QED BY <1>4
<1>8. ASSUME NEW n \in Nat
      PROVE  G[n + 1] = f[G[n]]
  <2>1. F(n + 1)[n + 1] = f[F(n + 1)[n]]
    <3> HIDE DEF F
    <3>1. n + 1 \in Nat /\ n \in 0 .. (n + 1) - 1
      OBVIOUS
    <3> QED BY <1>4, <3>1
  <2>2. F(n + 1)[n] = F(n)[n]
    <3> HIDE DEF F
    <3> QED BY <1>5
  <2> HIDE DEF F
  <2> QED BY <2>1, <2>2
<1> HIDE DEF G
<1> QED BY <1>6, <1>7, <1>8

(***************************************************************************)
(* The recursive function behind a sum.                                    *)
(***************************************************************************)

AnyOf(s) == CHOOSE x \in s : TRUE

(* g sums up w over the sets of D. *)
Sums(w, D, g) ==
  g = [s \in D |-> IF s = {} THEN 0 ELSE w[AnyOf(s)] + g[s \ {AnyOf(s)}]]

SumsOf(w, S) == CHOOSE g : Sums(w, SUBSET S, g)

LEMMA SumUnfold ==
  ASSUME NEW w, NEW S
  PROVE  SumFunctionOnSet(w, S) = SumsOf(w, S)[S]
BY DEF SumFunctionOnSet, FoldFunctionOnSet, MapThenFoldSet, SumsOf, Sums, AnyOf

LEMMA AnyOfIn ==
  ASSUME NEW s, s # {}
  PROVE  AnyOf(s) \in s
BY DEF AnyOf

LEMMA SumsAt ==
  ASSUME NEW w, NEW D, NEW g, Sums(w, D, g), NEW s \in D
  PROVE  /\ s = {} => g[s] = 0
         /\ s # {} => g[s] = w[AnyOf(s)] + g[s \ {AnyOf(s)}]
BY DEF Sums

(* The recursion is well founded, so there is such a function. *)
LEMMA SumsExist ==
  ASSUME NEW w, NEW S, IsFiniteSet(S)
  PROVE  Sums(w, SUBSET S, SumsOf(w, S))
<1> DEFINE Layer(n) == {s \in SUBSET S : Cardinality(s) <= n}
           N == {n \in Nat : \E g : Sums(w, Layer(n), g)}
<1>1. \A A \in SUBSET S : IsFiniteSet(A) /\ Cardinality(A) \in Nat
  BY FS_Subset, FS_CardinalityType
<1>2. 0 \in N
  <2> DEFINE g == [s \in Layer(0) |-> 0]
  <2>1. \A s \in Layer(0) : s = {}
    BY <1>1, FS_EmptySet
  <2>2. Sums(w, Layer(0), g)
    BY <2>1 DEF Sums
  <2> QED BY <2>2
<1>3. ASSUME NEW n \in Nat, n \in N
      PROVE  n + 1 \in N
  <2>1. PICK g : Sums(w, Layer(n), g)
    BY <1>3
  <2> DEFINE D == Layer(n + 1)
             h == [s \in D |-> IF s = {} THEN 0 ELSE w[AnyOf(s)] + g[s \ {AnyOf(s)}]]
  <2>2. ASSUME NEW s \in D, s # {}
        PROVE  h[s \ {AnyOf(s)}] = g[s \ {AnyOf(s)}]
    <3> DEFINE t == s \ {AnyOf(s)}
    <3>1. AnyOf(s) \in s
      BY <2>2, AnyOfIn
    <3>2. Cardinality(t) = Cardinality(s) - 1 /\ Cardinality(s) <= n + 1
      BY <1>1, <3>1, FS_RemoveElement
    <3>3. t \in Layer(n) /\ t \in D
      BY <1>1, <3>2
    <3> HIDE DEF t
    <3>4. g[t] = IF t = {} THEN 0 ELSE w[AnyOf(t)] + g[t \ {AnyOf(t)}]
      <4> HIDE DEF Layer
      <4> QED BY <2>1, <3>3, SumsAt
    <3>5. h[t] = g[t]
      BY <3>3, <3>4
    <3> QED BY <3>5 DEF t
  <2>3. Sums(w, D, h)
    <3> HIDE DEF D
    <3>1. \A s \in D :
            h[s] = IF s = {} THEN 0 ELSE w[AnyOf(s)] + h[s \ {AnyOf(s)}]
      BY <2>2
    <3> DEFINE k == [s \in D |-> IF s = {} THEN 0 ELSE w[AnyOf(s)] + h[s \ {AnyOf(s)}]]
    <3>2. h = k
      BY <3>1
    <3> QED BY <3>2 DEF Sums
  <2>4. \E k : Sums(w, Layer(n + 1), k)
    <3> HIDE DEF h, Layer
    <3> QED BY <2>3
  <2> QED BY <2>4
<1>4. Cardinality(S) \in N
  <2> HIDE DEF N
  <2> QED BY <1>1, <1>2, <1>3, NaturalsFromZero
<1>5. Layer(Cardinality(S)) = SUBSET S
  BY <1>1, FS_Subset
<1>6. \E g : Sums(w, SUBSET S, g)
  BY <1>4, <1>5
<1> QED BY <1>6 DEF SumsOf

(* There is no other: on a subset, it is the function of that subset. *)
LEMMA SumsAgree ==
  ASSUME NEW w, NEW S, IsFiniteSet(S), NEW A \in SUBSET S
  PROVE  SumsOf(w, S)[A] = SumFunctionOnSet(w, A)
<1> DEFINE g == SumsOf(w, S)
           h == SumsOf(w, A)
           T == {B \in SUBSET A : g[B] = h[B]}
<1>1. IsFiniteSet(A)
  BY FS_Subset
<1>2. Sums(w, SUBSET S, g) /\ Sums(w, SUBSET A, h)
  BY <1>1, SumsExist
<1> HIDE DEF g, h
<1>3. ASSUME NEW B \in SUBSET A, \A x \in B : B \ {x} \in T
      PROVE  B \in T
  <2>1. CASE B = {}
    <3>1. g[B] = 0 /\ h[B] = 0
      BY <1>2, <2>1, SumsAt
    <3> QED BY <3>1
  <2>2. CASE B # {}
    <3>1. AnyOf(B) \in B
      BY <2>2, AnyOfIn
    <3>2. g[B \ {AnyOf(B)}] = h[B \ {AnyOf(B)}]
      BY <1>3, <3>1
    <3>3. /\ g[B] = w[AnyOf(B)] + g[B \ {AnyOf(B)}]
          /\ h[B] = w[AnyOf(B)] + h[B \ {AnyOf(B)}]
      BY <1>2, <2>2, SumsAt
    <3> QED BY <3>2, <3>3
  <2> QED BY <2>1, <2>2
<1>4. A \in T
  <2> HIDE DEF T
  <2>1. SUBSET A \subseteq T
    BY <1>1, <1>3, SubsetsFromSmaller
  <2> QED BY <2>1
<1>5. g[A] = h[A]
  BY <1>4
<1> QED BY <1>5, SumUnfold DEF g, h

(***************************************************************************)
(* What a sum is.                                                          *)
(***************************************************************************)

LEMMA SumEmpty ==
  ASSUME NEW w
  PROVE  SumFunctionOnSet(w, {}) = 0
<1>1. Sums(w, SUBSET {}, SumsOf(w, {}))
  BY SumsExist, FS_EmptySet
<1>2. SumsOf(w, {})[{}] = 0
  BY <1>1, SumsAt
<1> QED BY <1>2, SumUnfold

LEMMA SumAnyOf ==
  ASSUME NEW w, NEW S, IsFiniteSet(S), S # {}
  PROVE  SumFunctionOnSet(w, S) = w[AnyOf(S)] + SumFunctionOnSet(w, S \ {AnyOf(S)})
<1>1. Sums(w, SUBSET S, SumsOf(w, S))
  BY SumsExist
<1>2. SumsOf(w, S)[S] = w[AnyOf(S)] + SumsOf(w, S)[S \ {AnyOf(S)}]
  BY <1>1, SumsAt
<1> QED BY <1>2, SumsAgree

LEMMA SumType ==
  ASSUME NEW w, NEW S, IsFiniteSet(S), \A x \in S : w[x] \in Nat
  PROVE  SumFunctionOnSet(w, S) \in Nat
<1> DEFINE T == {A \in SUBSET S : SumFunctionOnSet(w, A) \in Nat}
<1>1. ASSUME NEW A \in SUBSET S, \A x \in A : A \ {x} \in T
      PROVE  A \in T
  <2>1. CASE A = {}
    BY <2>1, SumEmpty
  <2>2. CASE A # {}
    <3>1. AnyOf(A) \in A /\ IsFiniteSet(A)
      BY <2>2, AnyOfIn, FS_Subset
    <3>2. SumFunctionOnSet(w, A) = w[AnyOf(A)] + SumFunctionOnSet(w, A \ {AnyOf(A)})
      BY <2>2, <3>1, SumAnyOf
    <3>3. SumFunctionOnSet(w, A \ {AnyOf(A)}) \in Nat /\ w[AnyOf(A)] \in Nat
      BY <1>1, <3>1
    <3> QED BY <3>2, <3>3
  <2> QED BY <2>1, <2>2
<1>2. S \in T
  <2> HIDE DEF T
  <2> QED BY <1>1, SubsetsFromSmaller
<1> QED BY <1>2

(* Which element is taken out first does not matter. *)
LEMMA SumSplit ==
  ASSUME NEW w, NEW S, IsFiniteSet(S), \A x \in S : w[x] \in Nat, NEW e \in S
  PROVE  SumFunctionOnSet(w, S) = w[e] + SumFunctionOnSet(w, S \ {e})
<1> DEFINE Sum(A) == SumFunctionOnSet(w, A)
           T == {A \in SUBSET S : \A x \in A : Sum(A) = w[x] + Sum(A \ {x})}
<1>1. \A A \in SUBSET S : IsFiniteSet(A) /\ Sum(A) \in Nat
  BY FS_Subset, SumType
<1>2. ASSUME NEW A \in SUBSET S, \A x \in A : A \ {x} \in T, NEW x \in A
      PROVE  Sum(A) = w[x] + Sum(A \ {x})
  <2> DEFINE c == AnyOf(A)
  <2>1. c \in A /\ Sum(A) = w[c] + Sum(A \ {c})
    BY <1>1, AnyOfIn, SumAnyOf
  <2> HIDE DEF c, Sum
  <2>2. CASE x = c
    BY <2>1, <2>2
  <2>3. CASE x # c
    <3>1. Sum(A \ {c}) = w[x] + Sum((A \ {c}) \ {x})
      BY <1>2, <2>1, <2>3
    <3>2. Sum(A \ {x}) = w[c] + Sum((A \ {x}) \ {c})
      BY <1>2, <2>1, <2>3
    <3>3. (A \ {c}) \ {x} = (A \ {x}) \ {c}
      OBVIOUS
    <3>4. w[x] \in Nat /\ w[c] \in Nat /\ Sum((A \ {x}) \ {c}) \in Nat
      BY <1>1, <2>1
    <3> QED BY <2>1, <3>1, <3>2, <3>3, <3>4
  <2> QED BY <2>2, <2>3
<1>3. S \in T
  <2>1. \A A \in SUBSET S : (\A x \in A : A \ {x} \in T) => A \in T
    BY <1>2
  <2> HIDE DEF T
  <2> QED BY <2>1, SubsetsFromSmaller
<1> QED BY <1>3

LEMMA SumAdd ==
  ASSUME NEW w, NEW S, IsFiniteSet(S), \A x \in S : w[x] \in Nat,
         NEW e, e \notin S, w[e] \in Nat
  PROVE  SumFunctionOnSet(w, S \cup {e}) = SumFunctionOnSet(w, S) + w[e]
<1>1. IsFiniteSet(S \cup {e}) /\ (S \cup {e}) \ {e} = S
  BY FS_AddElement
<1>2. SumFunctionOnSet(w, S \cup {e}) = w[e] + SumFunctionOnSet(w, S)
  BY <1>1, SumSplit
<1> QED BY <1>2, SumType

LEMMA SumUnion ==
  ASSUME NEW w, NEW S, IsFiniteSet(S), NEW R, IsFiniteSet(R), S \cap R = {},
         \A x \in S \cup R : w[x] \in Nat
  PROVE  SumFunctionOnSet(w, S \cup R) = SumFunctionOnSet(w, S) + SumFunctionOnSet(w, R)
<1> DEFINE T == {A \in SUBSET S : SumFunctionOnSet(w, A \cup R)
                                   = SumFunctionOnSet(w, A) + SumFunctionOnSet(w, R)}
<1>1. /\ SumFunctionOnSet(w, R) \in Nat
      /\ \A A \in SUBSET S : /\ IsFiniteSet(A) /\ IsFiniteSet(A \cup R)
                            /\ SumFunctionOnSet(w, A) \in Nat
                            /\ SumFunctionOnSet(w, A \cup R) \in Nat
  <2>1. \A A \in SUBSET S : IsFiniteSet(A) /\ IsFiniteSet(A \cup R)
    BY FS_Subset, FS_Union
  <2> QED BY <2>1, SumType
<1>2. ASSUME NEW A \in SUBSET S, \A x \in A : A \ {x} \in T
      PROVE  SumFunctionOnSet(w, A \cup R)
               = SumFunctionOnSet(w, A) + SumFunctionOnSet(w, R)
  <2>1. CASE A = {}
    <3>1. SumFunctionOnSet(w, A) = 0 /\ A \cup R = R
      BY <2>1, SumEmpty
    <3> QED BY <1>1, <3>1
  <2>2. CASE A # {}
    <3>1. PICK x \in A : TRUE
      BY <2>2
    <3>2. /\ SumFunctionOnSet(w, A) = w[x] + SumFunctionOnSet(w, A \ {x})
          /\ SumFunctionOnSet(w, A \cup R) = w[x] + SumFunctionOnSet(w, (A \cup R) \ {x})
      <4>1. \A y \in A \cup R : w[y] \in Nat
        OBVIOUS
      <4>2. IsFiniteSet(A) /\ IsFiniteSet(A \cup R) /\ x \in A \cup R
        BY <1>1
      <4>3. SumFunctionOnSet(w, A) = w[x] + SumFunctionOnSet(w, A \ {x})
        <5>1. \A y \in A : w[y] \in Nat
          BY <4>1
        <5> HIDE DEF T
        <5> QED BY <4>2, <5>1, SumSplit
      <4>4. SumFunctionOnSet(w, A \cup R) = w[x] + SumFunctionOnSet(w, (A \cup R) \ {x})
        <5> HIDE DEF T
        <5> QED BY <4>1, <4>2, SumSplit
      <4> QED BY <4>3, <4>4
    <3>3. (A \cup R) \ {x} = (A \ {x}) \cup R
      OBVIOUS
    <3>4. SumFunctionOnSet(w, (A \ {x}) \cup R)
            = SumFunctionOnSet(w, A \ {x}) + SumFunctionOnSet(w, R)
      BY <1>2
    <3>5. w[x] \in Nat /\ SumFunctionOnSet(w, A \ {x}) \in Nat
      BY <1>1
    <3> QED BY <1>1, <3>2, <3>3, <3>4, <3>5
  <2> QED BY <2>1, <2>2
<1>3. S \in T
  <2>1. \A A \in SUBSET S : (\A x \in A : A \ {x} \in T) => A \in T
    BY <1>2
  <2> HIDE DEF T
  <2> QED BY <2>1, SubsetsFromSmaller
<1> QED BY <1>3

(* A set whose elements are sent to different elements of another set of   *)
(* the same weight.                                                        *)
LEMMA SumInjected ==
  ASSUME NEW w, NEW S, IsFiniteSet(S), NEW v, NEW R, IsFiniteSet(R),
         NEW f \in [S -> R], \A x, y \in S : f[x] = f[y] => x = y,
         \A x \in S : w[x] = v[f[x]], \A y \in R : v[y] \in Nat
  PROVE  SumFunctionOnSet(w, S) <= SumFunctionOnSet(v, R)
<1> DEFINE Image(A) == {f[x] : x \in A}
           T == {A \in SUBSET S :
                   \A Q \in SUBSET R :
                     Image(A) \subseteq Q => SumFunctionOnSet(w, A) <= SumFunctionOnSet(v, Q)}
<1>1. /\ \A A \in SUBSET S : IsFiniteSet(A) /\ SumFunctionOnSet(w, A) \in Nat
      /\ \A Q \in SUBSET R : IsFiniteSet(Q) /\ SumFunctionOnSet(v, Q) \in Nat
      /\ \A x \in S : w[x] \in Nat
  <2>1. \A x \in S : w[x] \in Nat
    OBVIOUS
  <2>2. \A A \in SUBSET S : IsFiniteSet(A) /\ SumFunctionOnSet(w, A) \in Nat
    BY <2>1, FS_Subset, SumType
  <2>3. \A Q \in SUBSET R : IsFiniteSet(Q) /\ SumFunctionOnSet(v, Q) \in Nat
    BY FS_Subset, SumType
  <2> QED BY <2>1, <2>2, <2>3
<1>2. ASSUME NEW A \in SUBSET S, \A x \in A : A \ {x} \in T,
             NEW Q \in SUBSET R, Image(A) \subseteq Q
      PROVE  SumFunctionOnSet(w, A) <= SumFunctionOnSet(v, Q)
  <2>1. CASE A = {}
    BY <1>1, <2>1, SumEmpty
  <2>2. CASE A # {}
    <3>1. PICK x \in A : TRUE
      BY <2>2
    <3>2. f[x] \in Q
      BY <1>2
    <3>3. Image(A \ {x}) \subseteq Q \ {f[x]}
      BY <1>2
    <3>4. SumFunctionOnSet(w, A \ {x}) <= SumFunctionOnSet(v, Q \ {f[x]})
      BY <1>2, <3>3
    <3>5. SumFunctionOnSet(w, A) = w[x] + SumFunctionOnSet(w, A \ {x})
      BY <1>1, SumSplit
    <3>6. SumFunctionOnSet(v, Q) = v[f[x]] + SumFunctionOnSet(v, Q \ {f[x]})
      BY <1>1, <3>2, SumSplit
    <3>7. /\ w[x] = v[f[x]] /\ w[x] \in Nat
          /\ SumFunctionOnSet(w, A \ {x}) \in Nat
          /\ SumFunctionOnSet(v, Q \ {f[x]}) \in Nat
      BY <1>1
    <3> QED BY <3>4, <3>5, <3>6, <3>7
  <2> QED BY <2>1, <2>2
<1>3. S \in T
  <2>1. \A A \in SUBSET S : (\A x \in A : A \ {x} \in T) => A \in T
    BY <1>2
  <2> HIDE DEF T
  <2> QED BY <2>1, SubsetsFromSmaller
<1>4. Image(S) \subseteq R
  OBVIOUS
<1> QED BY <1>3, <1>4

(* Fewer elements do not weigh more. *)
LEMMA SumSubset ==
  ASSUME NEW w, NEW S, IsFiniteSet(S), NEW A \in SUBSET S, \A x \in S : w[x] \in Nat
  PROVE  SumFunctionOnSet(w, A) <= SumFunctionOnSet(w, S)
<1> DEFINE f == [x \in A |-> x]
<1>1. IsFiniteSet(A) /\ f \in [A -> S] /\ \A x, y \in A : f[x] = f[y] => x = y
  BY FS_Subset
<1>2. \A x \in A : w[x] = w[f[x]]
  OBVIOUS
<1> HIDE DEF f
<1> QED BY <1>1, <1>2, SumInjected

=============================================================================
