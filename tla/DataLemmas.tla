----------------------------- MODULE DataLemmas -----------------------------
(***************************************************************************)
(* Facts about sums over finite sets and about filtered sequences that the *)
(* proofs of the components share.  They are inductions over data, carried *)
(* out as arguments about a minimal counterexample.                        *)
(***************************************************************************)
EXTENDS Integers, Sequences, SequencesExt, FiniteSetTheorems, SequenceTheorems,
        WellFoundedInduction, TLAPS

-----------------------------------------------------------------------------
(* A non-empty set of numbers has a least element.                         *)
LEMMA LeastNumber ==
  ASSUME NEW T, T \subseteq Nat, T # {}
  PROVE  \E x \in T : \A y \in T : x <= y
<1> DEFINE R == {ss \in Nat \X Nat : ss[1] < ss[2]}
<1>1. IsWellFoundedOn(R, Nat)
  <2>1. OpToRel(<, Nat) = R
    BY DEF OpToRel
  <2> QED
    BY <2>1, NatLessThanWellFounded
<1>2. PICK x \in T : \A y \in T : ~(<<y, x>> \in R)
  <2> HIDE DEF R
  <2> QED
    BY <1>1, WFMin
<1>3. SUFFICES ASSUME NEW y \in T, ~(x <= y) PROVE FALSE
  OBVIOUS
<1>4. y < x /\ y \in Nat /\ x \in Nat
  BY <1>3
<1>5. <<y, x>> \in R
  BY <1>4
<1> QED
  BY <1>2, <1>5

(* A non-empty set B of subsets of a finite set has a member that leaves B *)
(* whichever element is taken away from it.                                *)
LEMMA MinimalSubset ==
  ASSUME NEW U, IsFiniteSet(U), NEW B, B \subseteq SUBSET U, B # {}
  PROVE  \E S \in B : \A x \in S : S \ {x} \notin B
<1> DEFINE Sizes == {Cardinality(S) : S \in B}
<1>1. \A S \in B : IsFiniteSet(S) /\ Cardinality(S) \in Nat
  BY FS_Subset, FS_CardinalityType
<1>2. PICK n \in Sizes : \A m \in Sizes : n <= m
  <2>1. Sizes \subseteq Nat /\ Sizes # {}
    BY <1>1
  <2> HIDE DEF Sizes
  <2> QED
    BY <2>1, LeastNumber
<1>3. PICK S \in B : Cardinality(S) = n
  OBVIOUS
<1>4. ASSUME NEW x \in S PROVE S \ {x} \notin B
  <2>1. Cardinality(S \ {x}) = Cardinality(S) - 1
    BY <1>1, <1>4, FS_RemoveElement
  <2>2. S \ {x} \in B => n <= Cardinality(S \ {x})
    BY <1>2
  <2> QED
    BY <1>1, <1>3, <2>1, <2>2
<1> QED
  BY <1>4

-----------------------------------------------------------------------------
(* G maps every subset of S to the sum of f over it.                       *)
Sums(G, f, S) ==
  /\ G \in [SUBSET S -> Int]
  /\ G[{}] = 0
  /\ \A T \in SUBSET S : \A x \in S \ T : G[T \cup {x}] = G[T] + f[x]

(* Every finite set of indices has such a table of sums: a minimal subset  *)
(* without one could be extended from the subset with one index less.      *)
LEMMA SumsExist ==
  ASSUME NEW U, IsFiniteSet(U), NEW f, \A x \in U : f[x] \in Int
  PROVE  \E G : Sums(G, f, U)
<1> DEFINE B == {S \in SUBSET U : ~\E G : Sums(G, f, S)}
<1>1. SUFFICES ASSUME B # {} PROVE FALSE
  BY <1>1
<1>2. PICK S \in B : \A x \in S : S \ {x} \notin B
  <2>1. B \subseteq SUBSET U
    OBVIOUS
  <2> HIDE DEF B
  <2> QED
    BY <1>1, <2>1, MinimalSubset
<1>3. CASE S = {}
  <2> DEFINE G0 == [T \in SUBSET S |-> 0]
  <2>1. Sums(G0, f, S)
    BY <1>3 DEF Sums
  <2> QED
    BY <2>1, <1>2
<1>4. CASE S # {}
  <2>1. PICK x \in S : TRUE
    BY <1>4
  <2>2. PICK H : Sums(H, f, S \ {x})
    BY <1>2, <2>1
  <2> DEFINE G == [T \in SUBSET S |-> IF x \in T THEN H[T \ {x}] + f[x] ELSE H[T]]
  <2>3. f[x] \in Int
    BY <2>1, <1>2
  <2>4. \A T \in SUBSET S : T \ {x} \in SUBSET (S \ {x}) /\ H[T \ {x}] \in Int
    BY <2>2 DEF Sums
  <2>6. G \in [SUBSET S -> Int]
    <3>1. ASSUME NEW T \in SUBSET S
          PROVE  (IF x \in T THEN H[T \ {x}] + f[x] ELSE H[T]) \in Int
      <4>1. CASE x \in T
        <5>1. H[T \ {x}] \in Int
          BY <2>4
        <5>2. H[T \ {x}] + f[x] \in Int
          BY <5>1, <2>3
        <5> QED
          BY <4>1, <5>2
      <4>2. CASE x \notin T
        <5>1. T \ {x} = T
          BY <4>2
        <5>2. H[T] \in Int
          BY <5>1, <2>4
        <5> QED
          BY <4>2, <5>2
      <4> QED
        BY <4>1, <4>2
    <3> QED
      BY <3>1
  <2>7. G[{}] = 0
    BY <2>2 DEF Sums
  <2>8. ASSUME NEW T \in SUBSET S, NEW y \in S \ T
        PROVE  G[T \cup {y}] = G[T] + f[y]
    <3>1. T \cup {y} \in SUBSET S
      BY <2>8
    <3>2. CASE y = x
      <4>1. (T \cup {y}) \ {x} = T
        BY <3>2, <2>8
      <4>2. G[T \cup {y}] = H[T] + f[x] /\ G[T] = H[T]
        BY <3>1, <3>2, <4>1, <2>8
      <4> QED
        BY <4>2, <3>2
    <3>3. CASE y # x /\ x \in T
      <4>1. (T \cup {y}) \ {x} = (T \ {x}) \cup {y}
        BY <3>3
      <4>2. G[T \cup {y}] = H[(T \ {x}) \cup {y}] + f[x] /\ G[T] = H[T \ {x}] + f[x]
        BY <3>1, <3>3, <4>1, <2>8
      <4>3. H[(T \ {x}) \cup {y}] = H[T \ {x}] + f[y]
        BY <2>2, <2>4, <2>8, <3>3 DEF Sums
      <4>4. f[y] \in Int
        BY <2>8, <1>2
      <4>5. H[T \ {x}] \in Int
        BY <2>4, <2>8
      <4> HIDE DEF G
      <4> QED
        BY <4>2, <4>3, <4>4, <4>5, <2>3
    <3>4. CASE y # x /\ x \notin T
      <4>1. T \in SUBSET (S \ {x}) /\ y \in (S \ {x}) \ T
        BY <3>4, <2>8
      <4>2. H[T \cup {y}] = H[T] + f[y]
        BY <4>1, <2>2 DEF Sums
      <4> QED
        BY <3>1, <3>4, <4>2, <2>8
    <3> QED
      BY <3>2, <3>3, <3>4
  <2>9. Sums(G, f, S)
    <3> HIDE DEF G
    <3> QED
      BY <2>6, <2>7, <2>8 DEF Sums
  <2> QED
    BY <2>9, <1>2
<1> QED
  BY <1>3, <1>4

(* The library's fold computes that sum, whichever element it chooses      *)
(* first.                                                                  *)
LEMMA SumIsSums ==
  ASSUME NEW S, IsFiniteSet(S), NEW f, \A x \in S : f[x] \in Int,
         NEW G, Sums(G, f, S)
  PROVE  SumFunctionOnSet(f, S) = G[S]
<1> DEFINE First(s) == CHOOSE x \in s : TRUE
           Rec(h) == [s \in SUBSET S |-> IF s = {} THEN 0 ELSE f[First(s)] + h[s \ {First(s)}]]
           iter == CHOOSE h : h = Rec(h)
<1>1. SumFunctionOnSet(f, S) = iter[S]
  BY DEF SumFunctionOnSet, FoldFunctionOnSet, MapThenFoldSet
<1>2. \A s \in SUBSET S : s # {} =>
        First(s) \in s /\ s \ {First(s)} \in SUBSET S /\ First(s) \in S \ (s \ {First(s)})
  OBVIOUS
<1>3. \A s \in SUBSET S : s # {} => G[s] = f[First(s)] + G[s \ {First(s)}]
  <2>1. SUFFICES ASSUME NEW s \in SUBSET S, s # {}
                 PROVE  G[s] = f[First(s)] + G[s \ {First(s)}]
    OBVIOUS
  <2> DEFINE x == First(s)
  <2>2. x \in s /\ s \ {x} \in SUBSET S /\ x \in S \ (s \ {x})
    BY <1>2, <2>1
  <2> HIDE DEF x
  <2>3. (s \ {x}) \cup {x} = s
    BY <2>2
  <2>4. G[(s \ {x}) \cup {x}] = G[s \ {x}] + f[x]
    BY <2>2 DEF Sums
  <2>5. f[x] \in Int /\ G[s \ {x}] \in Int
    BY <2>2 DEF Sums
  <2>6. G[s] = f[x] + G[s \ {x}]
    <3> DEFINE a == G[s]
               b == G[s \ {x}]
               c == f[x]
    <3>1. a = b + c /\ b \in Int /\ c \in Int
      BY <2>3, <2>4, <2>5
    <3>2. a = c + b
      <4> HIDE DEF a, b, c
      <4> QED
        BY <3>1
    <3> QED
      BY <3>2
  <2> QED
    BY <2>6 DEF x
<1> HIDE DEF First
<1>4. G = Rec(G)
  <2>1. G = [s \in SUBSET S |-> G[s]]
    BY DEF Sums
  <2>2. \A s \in SUBSET S : G[s] = IF s = {} THEN 0 ELSE f[First(s)] + G[s \ {First(s)}]
    BY <1>3 DEF Sums
  <2> QED
    BY <2>1, <2>2
<1>5. iter = Rec(iter)
  <2> HIDE DEF Rec
  <2> QED
    BY <1>4
<1> HIDE DEF iter
<1> DEFINE B == {s \in SUBSET S : iter[s] # G[s]}
<1>6. B = {}
  <2>1. SUFFICES ASSUME B # {} PROVE FALSE
    OBVIOUS
  <2>2. PICK s \in B : \A x \in s : s \ {x} \notin B
    <3>1. B \subseteq SUBSET S
      OBVIOUS
    <3> HIDE DEF B
    <3> QED
      BY <2>1, <3>1, MinimalSubset
  <2>3. iter[s] = IF s = {} THEN 0 ELSE f[First(s)] + iter[s \ {First(s)}]
    BY <1>5
  <2>4. s # {}
    BY <2>3 DEF Sums
  <2>5. iter[s \ {First(s)}] = G[s \ {First(s)}]
    BY <1>2, <2>2, <2>4
  <2> QED
    BY <1>3, <2>3, <2>4, <2>5
<1> QED
  BY <1>1, <1>6

-----------------------------------------------------------------------------
(* The value of a sum for the proofs that follow: one function G gives the *)
(* sum of f over every subset of a finite set.                             *)
LEMMA SumFacts ==
  ASSUME NEW U, IsFiniteSet(U), NEW f, \A x \in U : f[x] \in Int
  PROVE  \E G : Sums(G, f, U) /\ \A S \in SUBSET U : SumFunctionOnSet(f, S) = G[S]
<1>1. PICK G : Sums(G, f, U)
  BY SumsExist
<1>2. ASSUME NEW S \in SUBSET U PROVE SumFunctionOnSet(f, S) = G[S]
  <2> DEFINE H == [T \in SUBSET S |-> G[T]]
  <2>1. Sums(H, f, S)
    BY <1>1 DEF Sums
  <2>2. IsFiniteSet(S)
    BY FS_Subset
  <2>3. H[S] = G[S]
    OBVIOUS
  <2> HIDE DEF H
  <2>4. \A x \in S : f[x] \in Int
    OBVIOUS
  <2> QED
    BY <2>1, <2>2, <2>3, <2>4, SumIsSums
<1> QED
  BY <1>1, <1>2

(* The sum over no index is 0.                                             *)
LEMMA SumEmpty ==
  ASSUME NEW f PROVE SumFunctionOnSet(f, {}) = 0
<1>1. PICK G : Sums(G, f, {}) /\ \A S \in SUBSET {} : SumFunctionOnSet(f, S) = G[S]
  BY SumFacts, FS_EmptySet
<1> QED
  BY <1>1 DEF Sums

(* A sum of integers is an integer.                                        *)
LEMMA SumInt ==
  ASSUME NEW S, IsFiniteSet(S), NEW f, \A x \in S : f[x] \in Int
  PROVE  SumFunctionOnSet(f, S) \in Int
<1>1. PICK G : Sums(G, f, S) /\ \A T \in SUBSET S : SumFunctionOnSet(f, T) = G[T]
  BY SumFacts
<1> QED
  BY <1>1 DEF Sums

(* One index more adds its value.                                          *)
LEMMA SumAdd ==
  ASSUME NEW S, IsFiniteSet(S), NEW x, x \notin S,
         NEW f, \A y \in S \cup {x} : f[y] \in Int
  PROVE  SumFunctionOnSet(f, S \cup {x}) = SumFunctionOnSet(f, S) + f[x]
<1>1. IsFiniteSet(S \cup {x})
  BY FS_AddElement
<1>2. PICK G : /\ Sums(G, f, S \cup {x})
               /\ \A T \in SUBSET (S \cup {x}) : SumFunctionOnSet(f, T) = G[T]
  BY <1>1, SumFacts
<1>3. x \in (S \cup {x}) \ S /\ S \in SUBSET (S \cup {x}) /\ (S \cup {x}) \in SUBSET (S \cup {x})
  OBVIOUS
<1>4. G[S \cup {x}] = G[S] + f[x]
  BY <1>2, <1>3 DEF Sums
<1> QED
  BY <1>2, <1>3, <1>4

(* One index less takes its value away.                                    *)
LEMMA SumRemove ==
  ASSUME NEW S, IsFiniteSet(S), NEW x \in S, NEW f, \A y \in S : f[y] \in Int
  PROVE  SumFunctionOnSet(f, S) = SumFunctionOnSet(f, S \ {x}) + f[x]
<1>1. IsFiniteSet(S \ {x}) /\ x \notin S \ {x} /\ S = (S \ {x}) \cup {x}
  BY FS_RemoveElement
<1>2. \A y \in (S \ {x}) \cup {x} : f[y] \in Int
  OBVIOUS
<1> DEFINE R == S \ {x}
<1>3. SumFunctionOnSet(f, R \cup {x}) = SumFunctionOnSet(f, R) + f[x]
  <2> HIDE DEF R
  <2>1. IsFiniteSet(R) /\ x \notin R /\ \A y \in R \cup {x} : f[y] \in Int
    BY <1>1, <1>2 DEF R
  <2> QED
    BY <2>1, SumAdd
<1> QED
  BY <1>1, <1>3

(* A sum over S depends on the values over S only.                         *)
LEMMA SumSame ==
  ASSUME NEW S, IsFiniteSet(S), NEW f, NEW g,
         \A x \in S : f[x] \in Int /\ f[x] = g[x]
  PROVE  SumFunctionOnSet(f, S) = SumFunctionOnSet(g, S)
<1>1. PICK G : Sums(G, f, S) /\ \A T \in SUBSET S : SumFunctionOnSet(f, T) = G[T]
  BY SumFacts
<1>2. Sums(G, g, S)
  BY <1>1 DEF Sums
<1>3. SumFunctionOnSet(g, S) = G[S]
  BY <1>2, SumIsSums
<1> QED
  BY <1>1, <1>3

(* One value of f changes.                                                 *)
LEMMA SumChange ==
  ASSUME NEW S, IsFiniteSet(S), NEW f, NEW g, NEW x \in S,
         \A y \in S : f[y] \in Int /\ g[y] \in Int,
         \A y \in S \ {x} : g[y] = f[y]
  PROVE  SumFunctionOnSet(g, S) = SumFunctionOnSet(f, S) - f[x] + g[x]
<1> DEFINE R == S \ {x}
<1>1. IsFiniteSet(R)
  BY FS_RemoveElement
<1>2. SumFunctionOnSet(f, R) = SumFunctionOnSet(g, R)
  BY <1>1, SumSame
<1>3. SumFunctionOnSet(f, S) = SumFunctionOnSet(f, R) + f[x]
  BY SumRemove
<1>4. SumFunctionOnSet(g, S) = SumFunctionOnSet(g, R) + g[x]
  BY SumRemove
<1>5. SumFunctionOnSet(f, R) \in Int
  BY <1>1, SumInt
<1> HIDE DEF R
<1> QED
  BY <1>2, <1>3, <1>4, <1>5

(* Smaller values have a smaller sum.                                      *)
LEMMA SumMonotone ==
  ASSUME NEW S, IsFiniteSet(S), NEW f, NEW g,
         \A x \in S : f[x] \in Int /\ g[x] \in Int /\ f[x] <= g[x]
  PROVE  SumFunctionOnSet(f, S) <= SumFunctionOnSet(g, S)
<1>1. PICK F : Sums(F, f, S) /\ \A T \in SUBSET S : SumFunctionOnSet(f, T) = F[T]
  BY SumFacts
<1>2. PICK G : Sums(G, g, S) /\ \A T \in SUBSET S : SumFunctionOnSet(g, T) = G[T]
  BY SumFacts
<1> DEFINE B == {T \in SUBSET S : ~(F[T] <= G[T])}
<1>3. B = {}
  <2>1. SUFFICES ASSUME B # {} PROVE FALSE
    OBVIOUS
  <2>2. PICK T \in B : \A x \in T : T \ {x} \notin B
    <3>1. B \subseteq SUBSET S
      OBVIOUS
    <3> HIDE DEF B
    <3> QED
      BY <2>1, <3>1, MinimalSubset
  <2>3. T # {}
    <3>1. F[{}] = 0 /\ G[{}] = 0
      BY <1>1, <1>2 DEF Sums
    <3> QED
      BY <3>1
  <2>4. PICK x \in T : TRUE
    BY <2>3
  <2> DEFINE R == T \ {x}
  <2>5. R \in SUBSET S /\ x \in S \ R /\ R \cup {x} = T
    BY <2>4
  <2>6. F[R \cup {x}] = F[R] + f[x] /\ G[R \cup {x}] = G[R] + g[x]
    BY <1>1, <1>2, <2>5 DEF Sums
  <2>7. F[R] \in Int /\ G[R] \in Int /\ f[x] \in Int /\ g[x] \in Int /\ f[x] <= g[x]
    BY <1>1, <1>2, <2>5 DEF Sums
  <2>8. F[R] <= G[R]
    BY <2>2, <2>4, <2>5
  <2> HIDE DEF R
  <2>9. F[T] = F[R] + f[x] /\ G[T] = G[R] + g[x]
    BY <2>5, <2>6
  <2>10. F[T] <= G[T]
    BY <2>7, <2>8, <2>9
  <2> QED
    BY <2>10
<1> QED
  BY <1>1, <1>2, <1>3

(* A sum over two disjoint sets splits.                                    *)
LEMMA SumUnion ==
  ASSUME NEW S, IsFiniteSet(S), NEW T, IsFiniteSet(T), S \cap T = {},
         NEW f, \A x \in S \cup T : f[x] \in Int
  PROVE  SumFunctionOnSet(f, S \cup T) = SumFunctionOnSet(f, S) + SumFunctionOnSet(f, T)
<1> DEFINE U == S \cup T
<1>1. IsFiniteSet(U)
  BY FS_Union
<1>2. PICK G : Sums(G, f, U) /\ \A R \in SUBSET U : SumFunctionOnSet(f, R) = G[R]
  BY <1>1, SumFacts
<1>3. /\ \A R \in SUBSET U : G[R] \in Int
      /\ G[{}] = 0
      /\ \A R \in SUBSET U : \A x \in U \ R : G[R \cup {x}] = G[R] + f[x]
  BY <1>2 DEF Sums
<1> DEFINE B == {R \in SUBSET T : G[S \cup R] # G[S] + G[R]}
<1>4. B = {}
  <2>1. SUFFICES ASSUME B # {} PROVE FALSE
    OBVIOUS
  <2>2. PICK R \in B : \A x \in R : R \ {x} \notin B
    <3>1. B \subseteq SUBSET T
      OBVIOUS
    <3> HIDE DEF B
    <3> QED
      BY <2>1, <3>1, MinimalSubset
  <2>3. R # {}
    <3>1. S \cup {} = S /\ S \in SUBSET U
      OBVIOUS
    <3>2. G[S] = G[S] + G[{}]
      BY <1>3, <3>1
    <3> QED
      BY <3>1, <3>2
  <2>4. PICK x \in R : TRUE
    BY <2>3
  <2> DEFINE Q == R \ {x}
  <2>5. /\ Q \in SUBSET U /\ S \cup Q \in SUBSET U /\ S \in SUBSET U
        /\ x \in U \ Q /\ x \in U \ (S \cup Q)
        /\ Q \cup {x} = R /\ (S \cup Q) \cup {x} = S \cup R
    BY <2>4
  <2>6. G[S \cup Q] = G[S] + G[Q]
    <3>1. Q \notin B /\ Q \in SUBSET T
      BY <2>2, <2>4
    <3> HIDE DEF Q
    <3> QED
      BY <3>1
  <2> HIDE DEF Q
  <2>7. G[Q \cup {x}] = G[Q] + f[x] /\ G[(S \cup Q) \cup {x}] = G[S \cup Q] + f[x]
    BY <1>3, <2>5
  <2>8. G[Q] \in Int /\ G[S] \in Int /\ f[x] \in Int
    BY <1>3, <2>5
  <2>9. G[S \cup R] = G[S] + G[R]
    <3>1. G[R] = G[Q] + f[x] /\ G[S \cup R] = G[S \cup Q] + f[x]
      BY <2>5, <2>7
    <3> QED
      BY <2>6, <2>8, <3>1
  <2> QED
    BY <2>9
<1>5. S \in SUBSET U /\ T \in SUBSET U /\ U \in SUBSET U
  OBVIOUS
<1>6. G[S \cup T] = G[S] + G[T]
  BY <1>4
<1> QED
  BY <1>2, <1>5, <1>6

(* A sum of natural numbers is one, and bounds the sum over any subset.    *)
LEMMA SumNat ==
  ASSUME NEW S, IsFiniteSet(S), NEW f, \A x \in S : f[x] \in Nat
  PROVE  SumFunctionOnSet(f, S) \in Nat
<1> DEFINE z == [x \in S |-> 0]
           G == [T \in SUBSET S |-> 0]
<1>1. Sums(G, z, S) /\ G[S] = 0 /\ \A x \in S : z[x] \in Int /\ f[x] \in Int /\ z[x] <= f[x]
  BY DEF Sums
<1> HIDE DEF z, G
<1>2. SumFunctionOnSet(z, S) = 0
  BY <1>1, SumIsSums
<1>3. SumFunctionOnSet(z, S) <= SumFunctionOnSet(f, S)
  BY <1>1, SumMonotone
<1>4. SumFunctionOnSet(f, S) \in Int
  BY <1>1, SumInt
<1> QED
  BY <1>2, <1>3, <1>4

(* A sum of numbers splits over a subset and the rest.                     *)
LEMMA SumSubset ==
  ASSUME NEW S, IsFiniteSet(S), NEW f, \A x \in S : f[x] \in Nat, NEW T \in SUBSET S
  PROVE  SumFunctionOnSet(f, S) = SumFunctionOnSet(f, T) + SumFunctionOnSet(f, S \ T)
         /\ SumFunctionOnSet(f, T) <= SumFunctionOnSet(f, S)
<1> DEFINE R == S \ T
<1>1. /\ IsFiniteSet(T) /\ IsFiniteSet(R) /\ T \cap R = {} /\ T \cup R = S
      /\ \A x \in T \cup R : f[x] \in Int
      /\ \A x \in T : f[x] \in Nat
      /\ \A x \in R : f[x] \in Nat
  BY FS_Subset
<1>2. SumFunctionOnSet(f, T) \in Nat /\ SumFunctionOnSet(f, R) \in Nat
  BY <1>1, SumNat
<1>3. SumFunctionOnSet(f, T \cup R) = SumFunctionOnSet(f, T) + SumFunctionOnSet(f, R)
  BY <1>1, SumUnion
<1>4. SumFunctionOnSet(f, S) = SumFunctionOnSet(f, T) + SumFunctionOnSet(f, R)
  BY <1>1, <1>3
<1> QED
  BY <1>2, <1>4

-----------------------------------------------------------------------------
(* The same for the sum of all values of a function, which is how the      *)
(* models write their accounts.                                            *)
LEMMA TotalNat ==
  ASSUME NEW S, IsFiniteSet(S), NEW f \in [S -> Nat]
  PROVE  SumFunction(f) \in Nat /\ \A x \in S : f[x] <= SumFunction(f)
<1>0. DOMAIN f = S /\ SumFunction(f) = SumFunctionOnSet(f, S) /\ \A x \in S : f[x] \in Nat
  BY DEF SumFunction
<1> DEFINE z == [x \in S |-> 0]
<1>2. \A R \in SUBSET S : SumFunctionOnSet(f, R) \in Int /\ 0 <= SumFunctionOnSet(f, R)
  <2> SUFFICES ASSUME NEW R \in SUBSET S
               PROVE  SumFunctionOnSet(f, R) \in Int /\ 0 <= SumFunctionOnSet(f, R)
    OBVIOUS
  <2> DEFINE G == [T \in SUBSET R |-> 0]
  <2>1. IsFiniteSet(R) /\ \A x \in R : f[x] \in Int /\ z[x] \in Int /\ z[x] <= f[x]
    BY <1>0, FS_Subset
  <2>2. Sums(G, z, R) /\ G[R] = 0
    BY DEF Sums
  <2> HIDE DEF z, G
  <2>3. SumFunctionOnSet(z, R) = 0
    BY <2>1, <2>2, SumIsSums
  <2>4. SumFunctionOnSet(z, R) <= SumFunctionOnSet(f, R)
    BY <2>1, SumMonotone
  <2>5. SumFunctionOnSet(f, R) \in Int
    BY <2>1, SumInt
  <2> QED
    BY <2>3, <2>4, <2>5
<1>3. ASSUME NEW x \in S PROVE f[x] <= SumFunctionOnSet(f, S)
  <2>1. SumFunctionOnSet(f, S) = SumFunctionOnSet(f, S \ {x}) + f[x]
    BY <1>0, SumRemove
  <2>2. SumFunctionOnSet(f, S \ {x}) \in Int /\ 0 <= SumFunctionOnSet(f, S \ {x})
    BY <1>2
  <2> QED
    BY <1>0, <2>1, <2>2
<1>4. SumFunctionOnSet(f, S) \in Nat
  BY <1>2
<1> QED
  BY <1>0, <1>3, <1>4

(* The total of nothing but zeros.                                         *)
LEMMA TotalZero ==
  ASSUME NEW S, IsFiniteSet(S)
  PROVE  SumFunction([x \in S |-> 0]) = 0
<1> DEFINE z == [x \in S |-> 0]
           G == [T \in SUBSET S |-> 0]
<1>1. Sums(G, z, S) /\ G[S] = 0 /\ DOMAIN z = S /\ \A x \in S : z[x] \in Int
  BY DEF Sums
<1> HIDE DEF z, G
<1>2. SumFunctionOnSet(z, S) = 0
  BY <1>1, SumIsSums
<1> QED
  BY <1>1, <1>2 DEF SumFunction, z

(* One value of the function changes.                                      *)
LEMMA TotalChange ==
  ASSUME NEW S, IsFiniteSet(S), NEW f \in [S -> Int], NEW g \in [S -> Int], NEW x \in S,
         \A y \in S \ {x} : g[y] = f[y]
  PROVE  /\ SumFunction(f) \in Int /\ SumFunction(g) \in Int
         /\ SumFunction(g) = SumFunction(f) - f[x] + g[x]
<1>1. DOMAIN f = S /\ DOMAIN g = S /\ \A y \in S : f[y] \in Int /\ g[y] \in Int
  OBVIOUS
<1>2. SumFunctionOnSet(g, S) = SumFunctionOnSet(f, S) - f[x] + g[x]
  BY <1>1, SumChange
<1>3. SumFunctionOnSet(f, S) \in Int /\ SumFunctionOnSet(g, S) \in Int
  BY <1>1, SumInt
<1> QED
  BY <1>1, <1>2, <1>3 DEF SumFunction

(* Smaller values have a smaller total.                                    *)
LEMMA TotalMonotone ==
  ASSUME NEW S, IsFiniteSet(S), NEW f \in [S -> Int], NEW g \in [S -> Int],
         \A y \in S : f[y] <= g[y]
  PROVE  SumFunction(f) <= SumFunction(g)
<1>1. DOMAIN f = S /\ DOMAIN g = S /\ \A y \in S : f[y] \in Int /\ g[y] \in Int /\ f[y] <= g[y]
  OBVIOUS
<1>2. SumFunctionOnSet(f, S) <= SumFunctionOnSet(g, S)
  BY <1>1, SumMonotone
<1> QED
  BY <1>1, <1>2 DEF SumFunction

(* A sum of n values of at most b is at most n * b.                        *)
LEMMA TotalBound ==
  ASSUME NEW S, IsFiniteSet(S), NEW b \in Nat, NEW f \in [S -> Nat], \A x \in S : f[x] <= b
  PROVE  SumFunction(f) <= Cardinality(S) * b
<1>1. DOMAIN f = S /\ \A x \in S : f[x] \in Int
  OBVIOUS
<1>2. PICK G : Sums(G, f, S) /\ \A T \in SUBSET S : SumFunctionOnSet(f, T) = G[T]
  BY <1>1, SumFacts
<1>3. /\ \A R \in SUBSET S : G[R] \in Int
      /\ G[{}] = 0
      /\ \A R \in SUBSET S : \A x \in S \ R : G[R \cup {x}] = G[R] + f[x]
  BY <1>2 DEF Sums
<1> DEFINE B == {R \in SUBSET S : ~(G[R] <= Cardinality(R) * b)}
<1>4. B = {}
  <2>1. SUFFICES ASSUME B # {} PROVE FALSE
    OBVIOUS
  <2>2. PICK R \in B : \A x \in R : R \ {x} \notin B
    <3>1. B \subseteq SUBSET S
      OBVIOUS
    <3> HIDE DEF B
    <3> QED
      BY <2>1, <3>1, MinimalSubset
  <2>3. R # {}
    <3>1. Cardinality({}) = 0 /\ 0 * b = 0
      BY FS_EmptySet
    <3>2. {} \notin B
      BY <1>3, <3>1
    <3> QED
      BY <3>2
  <2>4. PICK x \in R : TRUE
    BY <2>3
  <2> DEFINE Q == R \ {x}
  <2>5. Q \in SUBSET S /\ x \in S \ Q /\ Q \cup {x} = R
    BY <2>4
  <2>6. G[Q] <= Cardinality(Q) * b
    BY <2>2, <2>4
  <2>7. IsFiniteSet(R) /\ Cardinality(R) \in Nat
    BY FS_Subset, FS_CardinalityType
  <2>8. Cardinality(Q) = Cardinality(R) - 1 /\ Cardinality(Q) \in Nat
    BY <2>4, <2>7, FS_RemoveElement, FS_CardinalityType
  <2> HIDE DEF Q
  <2>9. G[R] = G[Q] + f[x] /\ f[x] \in Nat /\ f[x] <= b /\ G[Q] \in Int
    BY <1>3, <2>5
  <2>10. Cardinality(R) * b = Cardinality(Q) * b + b
    <3>1. ASSUME NEW n \in Nat PROVE (n + 1) * b = n * b + b
      OBVIOUS
    <3>2. Cardinality(R) = Cardinality(Q) + 1
      BY <2>7, <2>8
    <3> QED
      BY <2>8, <3>1, <3>2
  <2>11. Cardinality(Q) * b \in Int
    BY <2>8
  <2>12. G[R] <= Cardinality(R) * b
    BY <2>6, <2>9, <2>10, <2>11
  <2> QED
    BY <2>12
<1>5. G[S] <= Cardinality(S) * b
  BY <1>4
<1> QED
  BY <1>1, <1>2, <1>5 DEF SumFunction

-----------------------------------------------------------------------------
(* Taking one position out of a sequence.                                  *)
LEMMA RemoveAtFacts ==
  ASSUME NEW E, NEW q \in Seq(E), NEW i \in 1 .. Len(q)
  PROVE  /\ RemoveAt(q, i) \in Seq(E)
         /\ Len(RemoveAt(q, i)) = Len(q) - 1
         /\ \A k \in 1 .. Len(q) - 1 :
              RemoveAt(q, i)[k] = IF k < i THEN q[k] ELSE q[k + 1]
<1> DEFINE a == SubSeq(q, 1, i - 1)
           b == SubSeq(q, i + 1, Len(q))
<1>1. a \in Seq(E) /\ Len(a) = i - 1 /\ \A k \in 1 .. i - 1 : a[k] = q[k]
  OBVIOUS
<1>2. b \in Seq(E) /\ Len(b) = Len(q) - i /\ \A k \in 1 .. Len(q) - i : b[k] = q[i + k]
  OBVIOUS
<1>3. RemoveAt(q, i) = a \o b
  BY DEF RemoveAt
<1> HIDE DEF a, b
<1>4. a \o b \in Seq(E) /\ Len(a \o b) = Len(q) - 1
  <2>1. a \o b \in Seq(E) /\ Len(a \o b) = Len(a) + Len(b)
    BY <1>1, <1>2, ConcatProperties
  <2>2. Len(q) \in Nat /\ i \in Nat
    OBVIOUS
  <2> QED
    BY <1>1, <1>2, <2>1, <2>2
<1>5. ASSUME NEW k \in 1 .. Len(q) - 1
      PROVE  (a \o b)[k] = IF k < i THEN q[k] ELSE q[k + 1]
  <2>1. CASE k < i
    BY <1>1, <1>2, <2>1
  <2>2. CASE ~(k < i)
    <3>1. (a \o b)[k] = b[k - (i - 1)]
      BY <1>1, <1>2, <2>2
    <3>2. k - (i - 1) \in 1 .. Len(q) - i /\ i + (k - (i - 1)) = k + 1
      BY <2>2
    <3> QED
      BY <1>2, <2>2, <3>1, <3>2
  <2> QED
    BY <2>1, <2>2
<1> QED
  BY <1>3, <1>4, <1>5

(* The elements of a sequence.                                             *)
LEMMA ElementsOf ==
  ASSUME NEW E, NEW q \in Seq(E)
  PROVE  /\ Len(q) \in Nat /\ DOMAIN q = 1 .. Len(q)
         /\ ToSet(q) \subseteq E
         /\ \A x : x \in ToSet(q) <=> \E k \in 1 .. Len(q) : q[k] = x
<1>1. Len(q) \in Nat /\ DOMAIN q = 1 .. Len(q) /\ \A k \in 1 .. Len(q) : q[k] \in E
  OBVIOUS
<1> QED
  BY <1>1 DEF ToSet

(* Taking an element out of a sequence that holds it at most once.         *)
LEMMA RemoveFirstFacts ==
  ASSUME NEW E, NEW q \in Seq(E), IsInjective(q), NEW e
  PROVE  /\ RemoveFirst(q, e) \in Seq(E)
         /\ IsInjective(RemoveFirst(q, e))
         /\ ToSet(RemoveFirst(q, e)) = ToSet(q) \ {e}
<1>1. CASE e \notin ToSet(q)
  <2>1. ~\E k \in 1 .. Len(q) : q[k] = e
    BY <1>1, ElementsOf
  <2>2. RemoveFirst(q, e) = q
    BY <2>1 DEF RemoveFirst
  <2> QED
    BY <1>1, <2>2
<1>2. CASE e \in ToSet(q)
  <2> DEFINE I == {k \in 1 .. Len(q) : q[k] = e}
             i == Min(I)
             r == RemoveAt(q, i)
  <2>1. I # {} /\ I \subseteq Nat
    BY <1>2 DEF ToSet
  <2>2. i \in I
    <3>1. \E x \in I : \A y \in I : x <= y
      <4> HIDE DEF I
      <4> QED
        BY <2>1, LeastNumber
    <3> HIDE DEF I
    <3> QED
      BY <3>1 DEF Min
  <2>3. RemoveFirst(q, e) = r
    BY <2>1 DEF RemoveFirst, SelectInSeq
  <2>4. i \in 1 .. Len(q) /\ q[i] = e
    BY <2>2
  <2> HIDE DEF I, i
  <2>5. /\ r \in Seq(E) /\ Len(r) = Len(q) - 1
        /\ \A k \in 1 .. Len(q) - 1 : r[k] = IF k < i THEN q[k] ELSE q[k + 1]
    BY <2>4, RemoveAtFacts
  <2> HIDE DEF r
  <2>6. IsInjective(r)
    <3>1. SUFFICES ASSUME NEW k \in 1 .. Len(q) - 1, NEW l \in 1 .. Len(q) - 1, r[k] = r[l]
                   PROVE  k = l
      BY <2>5, ElementsOf DEF IsInjective
    <3>2. Len(q) \in Nat /\ \A m, n \in 1 .. Len(q) : q[m] = q[n] => m = n
      BY ElementsOf DEF IsInjective
    <3>3. r[k] = q[IF k < i THEN k ELSE k + 1] /\ r[l] = q[IF l < i THEN l ELSE l + 1]
      BY <2>5
    <3> DEFINE m == IF k < i THEN k ELSE k + 1
               n == IF l < i THEN l ELSE l + 1
    <3>4. m \in 1 .. Len(q) /\ n \in 1 .. Len(q) /\ (m = n => k = l)
      BY <2>4, <3>2
    <3> HIDE DEF m, n
    <3>5. q[m] = q[n]
      BY <3>1, <3>3 DEF m, n
    <3> QED
      BY <3>2, <3>4, <3>5
  <2>7. ASSUME NEW x PROVE x \in ToSet(r) <=> x \in ToSet(q) \ {e}
    <3>1. ASSUME x \in ToSet(r) PROVE x \in ToSet(q) \ {e}
      <4>1. PICK k \in 1 .. Len(q) - 1 : x = r[k]
        BY <2>5, <3>1, ElementsOf
      <4>2. (IF k < i THEN k ELSE k + 1) \in (1 .. Len(q)) \ {i}
        BY <2>4, <4>1
      <4>3. x = q[IF k < i THEN k ELSE k + 1]
        BY <2>5, <4>1
      <4>4. x # e
        BY <2>4, <4>2, <4>3, ElementsOf DEF IsInjective
      <4> QED
        BY <4>2, <4>3, <4>4, ElementsOf
    <3>2. ASSUME x \in ToSet(q) \ {e} PROVE x \in ToSet(r)
      <4>1. PICK k \in 1 .. Len(q) : x = q[k]
        BY <3>2, ElementsOf
      <4>2. k # i
        BY <2>4, <3>2, <4>1
      <4>3. CASE k < i
        BY <2>4, <2>5, <4>1, <4>3, ElementsOf
      <4>4. CASE k > i
        <5>1. k - 1 \in 1 .. Len(q) - 1 /\ ~(k - 1 < i) /\ (k - 1) + 1 = k
          BY <2>4, <4>4
        <5>2. r[k - 1] = x
          BY <2>5, <4>1, <5>1
        <5> QED
          BY <2>5, <5>1, <5>2, ElementsOf
      <4> QED
        BY <2>4, <4>2, <4>3, <4>4
    <3> QED
      BY <3>1, <3>2
  <2> QED
    BY <2>3, <2>5, <2>6, <2>7
<1> QED
  BY <1>1, <1>2

(* The elements of the sequences the channels and queues are built with.   *)
LEMMA ToSetAppend ==
  ASSUME NEW E, NEW q \in Seq(E), NEW e \in E
  PROVE  /\ Append(q, e) \in Seq(E) /\ Len(Append(q, e)) = Len(q) + 1
         /\ Append(q, e)[Len(q) + 1] = e
         /\ \A k \in 1 .. Len(q) : Append(q, e)[k] = q[k]
         /\ ToSet(Append(q, e)) = ToSet(q) \cup {e}
<1> DEFINE r == Append(q, e)
<1>1. /\ r \in Seq(E) /\ Len(r) = Len(q) + 1 /\ r[Len(q) + 1] = e
      /\ \A k \in 1 .. Len(q) : r[k] = q[k]
  OBVIOUS
<1> HIDE DEF r
<1>2. Len(q) \in Nat
  OBVIOUS
<1>3. ASSUME NEW x PROVE x \in ToSet(r) <=> x \in ToSet(q) \cup {e}
  <2>1. x \in ToSet(r) <=> \E k \in 1 .. Len(r) : r[k] = x
    BY <1>1, ElementsOf
  <2>2. x \in ToSet(q) <=> \E k \in 1 .. Len(q) : q[k] = x
    BY ElementsOf
  <2> QED
    BY <1>1, <1>2, <2>1, <2>2
<1>4. ToSet(r) = ToSet(q) \cup {e}
  BY <1>3
<1> QED
  BY <1>1, <1>4 DEF r

(* What Tail leaves of a sequence.                                         *)
LEMMA ToSetTail ==
  ASSUME NEW E, NEW q \in Seq(E), q # <<>>
  PROVE  /\ Head(q) \in E /\ Tail(q) \in Seq(E) /\ Len(Tail(q)) = Len(q) - 1
         /\ \A k \in 1 .. Len(q) - 1 : Tail(q)[k] = q[k + 1]
         /\ ToSet(q) = {Head(q)} \cup ToSet(Tail(q))
<1>1. Len(q) \in Nat \ {0} /\ Head(q) = q[1]
  OBVIOUS
<1>2. /\ Tail(q) \in Seq(E) /\ Len(Tail(q)) = Len(q) - 1
      /\ \A k \in 1 .. Len(q) - 1 : Tail(q)[k] = q[k + 1]
  OBVIOUS
<1>3. ASSUME NEW x \in ToSet(q) PROVE x = Head(q) \/ x \in ToSet(Tail(q))
  <2>1. PICK k \in 1 .. Len(q) : x = q[k]
    BY ElementsOf
  <2>2. CASE k # 1
    <3>1. k - 1 \in 1 .. Len(q) - 1 /\ (k - 1) + 1 = k
      BY <1>1, <2>2
    <3>2. Tail(q)[k - 1] = x
      BY <1>2, <2>1, <3>1
    <3> QED
      BY <1>2, <3>1, <3>2, ElementsOf
  <2> QED
    BY <1>1, <2>1, <2>2
<1>4. ASSUME NEW x \in ToSet(Tail(q)) PROVE x \in ToSet(q)
  <2>1. PICK k \in 1 .. Len(q) - 1 : x = Tail(q)[k]
    BY <1>2, ElementsOf
  <2>2. k + 1 \in 1 .. Len(q) /\ q[k + 1] = x
    BY <1>1, <1>2, <2>1
  <2> QED
    BY <2>2, ElementsOf
<1>5. Head(q) \in ToSet(q)
  BY <1>1, ElementsOf
<1> QED
  BY <1>1, <1>2, <1>3, <1>4, <1>5
=============================================================================
