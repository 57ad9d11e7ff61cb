------------------------------ MODULE SumTheorems ------------------------------
(***************************************************************************)
(* What SumFunctionOnSet of the community modules computes over a finite   *)
(* set: the facts the proofs about totals rest on.                         *)
(*                                                                         *)
(* A recursive function is the CHOOSE of a function with its equation, so  *)
(* that such a function exists comes first.  Induction is in the form of a *)
(* minimal counterexample, a statement about sets that needs no operator   *)
(* as a parameter.                                                         *)
(***************************************************************************)
EXTENDS Functions, Integers, FiniteSetTheorems, WellFoundedInduction, TLAPS

\* Induction over a finite set, as the existence of a minimal counterexample: a
\* nonempty set of subsets has one that contains no other.
LEMMA MinimalSubset ==
    ASSUME NEW S, IsFiniteSet(S), NEW Bad \in SUBSET (SUBSET S), Bad # {}
    PROVE  \E T \in Bad : \A U \in Bad : U \subseteq T => U = T
<1>1. IsWellFoundedOn(StrictSubsetOrdering(S), SUBSET S)
  BY FS_StrictSubsetOrderingWellFounded, FS_FiniteSubsetsOfFinite
<1>2. PICK T \in Bad : \A U \in Bad : ~(<<U, T>> \in StrictSubsetOrdering(S))
  BY <1>1, WFMin
<1>3. \A U \in Bad : U \subseteq T => U = T
  BY <1>2 DEF StrictSubsetOrdering
<1> QED BY <1>3

\* Likewise for numbers.
LEMMA LeastNumber ==
    ASSUME NEW S, S \subseteq Nat, S # {}
    PROVE  \E n \in S : \A k \in S : n <= k
<1>1. PICK n \in S : \A k \in S : ~(<<k, n>> \in OpToRel(<, Nat))
  BY NatLessThanWellFounded, WFMin
<1>2. ASSUME NEW k \in S PROVE n <= k
  <2>1. <<k, n>> \in Nat \X Nat /\ n \in Nat /\ k \in Nat
    OBVIOUS
  <2>2. ~(k < n)
    BY <1>1, <2>1 DEF OpToRel
  <2> QED BY <2>1, <2>2
<1> QED BY <1>2

\* The equation that defines a sum over the subsets of S.
FirstOf(s) == CHOOSE x \in s : TRUE
IsSum(g, f, S) ==
    g = [s \in SUBSET S |-> IF s = {} THEN 0 ELSE f[FirstOf(s)] + g[s \ {FirstOf(s)}]]

LEMMA FirstIn == \A s : s # {} => FirstOf(s) \in s
BY DEF FirstOf

LEMMA SumsAgree ==
    ASSUME NEW S, IsFiniteSet(S), NEW T, NEW f, NEW e, NEW g, NEW h,
           IsSum(g, f, S), IsSum(h, e, T), \A x \in S : f[x] = e[x]
    PROVE  \A s \in SUBSET S : s \subseteq T => g[s] = h[s]
<1> DEFINE Bad == {s \in SUBSET S : s \subseteq T /\ g[s] # h[s]}
<1> SUFFICES ASSUME Bad # {} PROVE FALSE
  OBVIOUS
<1>0. Bad \in SUBSET (SUBSET S)
  OBVIOUS
<1>1. PICK s \in Bad : \A u \in Bad : u \subseteq s => u = s
  <2> HIDE DEF Bad
  <2> QED BY <1>0, MinimalSubset
<1>2. /\ g[s] = IF s = {} THEN 0 ELSE f[FirstOf(s)] + g[s \ {FirstOf(s)}]
      /\ h[s] = IF s = {} THEN 0 ELSE e[FirstOf(s)] + h[s \ {FirstOf(s)}]
  BY <1>1 DEF IsSum
<1>3. s # {}
  BY <1>1, <1>2
<1>4. FirstOf(s) \in s
  BY <1>3, FirstIn
<1>5. g[s \ {FirstOf(s)}] = h[s \ {FirstOf(s)}]
  BY <1>1, <1>4
<1>6. f[FirstOf(s)] = e[FirstOf(s)]
  BY <1>1, <1>4
<1> QED BY <1>1, <1>2, <1>3, <1>5, <1>6

LEMMA SumsExist ==
    ASSUME NEW S, IsFiniteSet(S), NEW f
    PROVE  \E g : IsSum(g, f, S)
<1> DEFINE Bad == {s \in SUBSET S : ~\E g : IsSum(g, f, s)}
<1> SUFFICES ASSUME Bad # {} PROVE FALSE
  OBVIOUS
<1>0. Bad \in SUBSET (SUBSET S)
  OBVIOUS
<1>1. PICK T \in Bad : \A u \in Bad : u \subseteq T => u = T
  <2> HIDE DEF Bad
  <2> QED BY <1>0, MinimalSubset
<1>t. T \in SUBSET S
  BY <1>0, <1>1
<1> DEFINE H(u) == CHOOSE g : IsSum(g, f, u)
<1>2. \A u \in SUBSET T : u # T => IsSum(H(u), f, u)
  BY <1>1
<1> DEFINE G == [s \in SUBSET T |-> IF s = {} THEN 0
                                    ELSE f[FirstOf(s)] + H(s \ {FirstOf(s)})[s \ {FirstOf(s)}]]
<1>3. ASSUME NEW s \in SUBSET T, s # T PROVE G[s] = H(s)[s]
  <2>1. CASE s = {}
    <3>1. IsSum(H(s), f, s)
      BY <1>2, <1>3
    <3>2. H(s)[s] = 0
      <4> HIDE DEF H
      <4> QED BY <2>1, <3>1 DEF IsSum
    <3> QED BY <3>2, <2>1
  <2>2. CASE s # {}
    <3> DEFINE r == s \ {FirstOf(s)}
    <3>1. FirstOf(s) \in s /\ r \in SUBSET T /\ r # T /\ r \in SUBSET s
      BY <2>2, FirstIn, <1>3
    <3>2. IsSum(H(s), f, s) /\ IsSum(H(r), f, r)
      BY <1>2, <1>3, <3>1
    <3>3. IsFiniteSet(r)
      BY FS_Subset, <3>1, <1>3, <1>t
    <3>4. H(r)[r] = H(s)[r]
      <4> HIDE DEF H, r
      <4> QED BY <3>1, <3>2, <3>3, SumsAgree
    <3>5. H(s)[s] = f[FirstOf(s)] + H(s)[r]
      <4> HIDE DEF H
      <4> QED BY <3>2, <2>2 DEF IsSum
    <3>6. G[s] = f[FirstOf(s)] + H(r)[r]
      <4> HIDE DEF H
      <4> QED BY <1>3, <2>2
    <3> QED BY <3>4, <3>5, <3>6
  <2> QED BY <2>1, <2>2
<1>4. \A s \in SUBSET T : s # {} => s \ {FirstOf(s)} \in SUBSET T /\ s \ {FirstOf(s)} # T
  BY FirstIn
<1>5. G = [s \in SUBSET T |-> IF s = {} THEN 0 ELSE f[FirstOf(s)] + G[s \ {FirstOf(s)}]]
  <2> HIDE DEF H
  <2>1. \A s \in SUBSET T : s # {} => G[s \ {FirstOf(s)}] = H(s \ {FirstOf(s)})[s \ {FirstOf(s)}]
    <3> HIDE DEF G
    <3> QED BY <1>3, <1>4
  <2>2. \A s \in SUBSET T : G[s] = IF s = {} THEN 0 ELSE f[FirstOf(s)] + G[s \ {FirstOf(s)}]
    BY <2>1
  <2>3. G = [s \in SUBSET T |-> G[s]]
    OBVIOUS
  <2> HIDE DEF G
  <2> QED BY <2>2, <2>3
<1>6. IsSum(G, f, T)
  BY <1>5 DEF IsSum
<1> QED BY <1>1, <1>6

LEMMA SumDefined ==
    ASSUME NEW S, IsFiniteSet(S), NEW f
    PROVE  \E g : IsSum(g, f, S) /\ SumFunctionOnSet(f, S) = g[S]
<1> DEFINE g == CHOOSE g : IsSum(g, f, S)
<1>1. IsSum(g, f, S)
  BY SumsExist
<1>2. SumFunctionOnSet(f, S) = g[S]
  BY DEF SumFunctionOnSet, FoldFunctionOnSet, MapThenFoldSet, IsSum, FirstOf
<1> QED BY <1>1, <1>2

\* The sum over a set is the value of the function at one of its elements and the sum
\* over the others: the element CHOOSE picks, and then any.
LEMMA SumUnfold ==
    ASSUME NEW S, IsFiniteSet(S), NEW f, S # {}
    PROVE  SumFunctionOnSet(f, S) = f[FirstOf(S)] + SumFunctionOnSet(f, S \ {FirstOf(S)})
<1> DEFINE R == S \ {FirstOf(S)}
<1>1. IsFiniteSet(R)
  BY FS_Subset
<1>2. PICK g : IsSum(g, f, S) /\ SumFunctionOnSet(f, S) = g[S]
  BY SumDefined
<1>3. PICK h : IsSum(h, f, R) /\ SumFunctionOnSet(f, R) = h[R]
  BY <1>1, SumDefined
<1>4. h[R] = g[R]
  <2> HIDE DEF R
  <2>1. R \in SUBSET S
    BY DEF R
  <2> QED BY <2>1, <1>1, <1>2, <1>3, SumsAgree
<1>5. g[S] = f[FirstOf(S)] + g[R]
  BY <1>2 DEF IsSum
<1> QED BY <1>2, <1>3, <1>4, <1>5

LEMMA SumEmpty ==
    ASSUME NEW f PROVE SumFunctionOnSet(f, {}) = 0
<1>1. PICK g : IsSum(g, f, {}) /\ SumFunctionOnSet(f, {}) = g[{}]
  BY SumDefined, FS_EmptySet
<1> QED BY <1>1 DEF IsSum

\* Only the values at the elements of the set matter.
LEMMA SumSame ==
    ASSUME NEW S, IsFiniteSet(S), NEW f, NEW e, \A x \in S : f[x] = e[x]
    PROVE  SumFunctionOnSet(f, S) = SumFunctionOnSet(e, S)
<1>1. PICK g : IsSum(g, f, S) /\ SumFunctionOnSet(f, S) = g[S]
  BY SumDefined
<1>2. PICK h : IsSum(h, e, S) /\ SumFunctionOnSet(e, S) = h[S]
  BY SumDefined
<1>3. g[S] = h[S]
  BY <1>1, <1>2, SumsAgree
<1> QED BY <1>1, <1>2, <1>3

LEMMA SumType ==
    ASSUME NEW S, IsFiniteSet(S), NEW f, NEW Typ \in {Nat, Int}, \A x \in S : f[x] \in Typ
    PROVE  SumFunctionOnSet(f, S) \in Typ
<1> DEFINE Bad == {s \in SUBSET S : SumFunctionOnSet(f, s) \notin Typ}
<1> SUFFICES ASSUME Bad # {} PROVE FALSE
  OBVIOUS
<1>0. Bad \in SUBSET (SUBSET S)
  OBVIOUS
<1>1. PICK T \in Bad : \A u \in Bad : u \subseteq T => u = T
  <2> HIDE DEF Bad
  <2> QED BY <1>0, MinimalSubset
<1>2. T \in SUBSET S /\ IsFiniteSet(T) /\ SumFunctionOnSet(f, T) \notin Typ
  BY <1>1, FS_Subset
<1>3. T # {}
  BY <1>2, SumEmpty
<1>4. SumFunctionOnSet(f, T) = f[FirstOf(T)] + SumFunctionOnSet(f, T \ {FirstOf(T)})
  BY <1>2, <1>3, SumUnfold
<1>5. FirstOf(T) \in T
  BY <1>3, FirstIn
<1>6. SumFunctionOnSet(f, T \ {FirstOf(T)}) \in Typ
  BY <1>1, <1>2, <1>5
<1> HIDE DEF Bad
<1> QED BY <1>2, <1>4, <1>5, <1>6

LEMMA SumRemove ==
    ASSUME NEW S, IsFiniteSet(S), NEW f, \A x \in S : f[x] \in Int, NEW y \in S
    PROVE  SumFunctionOnSet(f, S) = f[y] + SumFunctionOnSet(f, S \ {y})
<1> DEFINE Sum(s) == SumFunctionOnSet(f, s)
<1> DEFINE Bad == {s \in SUBSET S : \E x \in s : Sum(s) # f[x] + Sum(s \ {x})}
<1> HIDE DEF Sum
<1> SUFFICES ASSUME Bad # {} PROVE FALSE
  BY DEF Sum
<1>0. Bad \in SUBSET (SUBSET S)
  OBVIOUS
<1>1. PICK T \in Bad : \A u \in Bad : u \subseteq T => u = T
  <2> HIDE DEF Bad
  <2> QED BY <1>0, MinimalSubset
<1>2. PICK x \in T : Sum(T) # f[x] + Sum(T \ {x})
  BY <1>1
<1>3. T \in SUBSET S /\ IsFiniteSet(T)
  BY <1>1, FS_Subset
<1> DEFINE c == FirstOf(T)
<1>4. c \in T
  BY <1>2, FirstIn
<1>5. Sum(T) = f[c] + Sum(T \ {c})
  BY <1>2, <1>3, SumUnfold DEF Sum
<1> HIDE DEF c
<1>6. x # c
  BY <1>2, <1>5
<1>7. Sum(T \ {c}) = f[x] + Sum((T \ {c}) \ {x})
  <2>1. T \ {c} \in SUBSET S /\ T \ {c} # T /\ x \in T \ {c}
    BY <1>2, <1>3, <1>4, <1>6
  <2> QED BY <2>1, <1>1
<1>8. Sum(T \ {x}) = f[c] + Sum((T \ {x}) \ {c})
  <2>1. T \ {x} \in SUBSET S /\ T \ {x} # T /\ c \in T \ {x}
    BY <1>2, <1>3, <1>4, <1>6
  <2> QED BY <2>1, <1>1
<1>9. (T \ {c}) \ {x} = (T \ {x}) \ {c}
  OBVIOUS
<1>10. Sum((T \ {x}) \ {c}) \in Int
  <2>1. (T \ {x}) \ {c} \in SUBSET S
    BY <1>3
  <2>2. IsFiniteSet((T \ {x}) \ {c})
    BY <2>1, FS_Subset
  <2> QED BY <2>1, <2>2, SumType DEF Sum
<1>11. f[c] \in Int /\ f[x] \in Int
  BY <1>2, <1>3, <1>4
<1>12. Sum(T) = f[x] + Sum(T \ {x})
  <2> DEFINE rest == Sum((T \ {x}) \ {c})
  <2>1. /\ Sum(T) = f[c] + (f[x] + rest) /\ Sum(T \ {x}) = f[c] + rest
        /\ rest \in Int
    BY <1>5, <1>7, <1>8, <1>9, <1>10
  <2> HIDE DEF rest, Bad
  <2> QED BY <2>1, <1>11
<1> QED BY <1>2, <1>12

LEMMA SumAdd ==
    ASSUME NEW S, IsFiniteSet(S), NEW y, y \notin S,
           NEW f, \A x \in S \cup {y} : f[x] \in Int
    PROVE  SumFunctionOnSet(f, S \cup {y}) = f[y] + SumFunctionOnSet(f, S)
<1>1. IsFiniteSet(S \cup {y}) /\ (S \cup {y}) \ {y} = S
  BY FS_AddElement
<1> QED BY <1>1, SumRemove

\* The value at one element changes.
LEMMA SumUpdate ==
    ASSUME NEW S, IsFiniteSet(S), NEW f, NEW e, NEW y \in S,
           \A x \in S : f[x] \in Int /\ e[x] \in Int, \A x \in S \ {y} : f[x] = e[x]
    PROVE  SumFunctionOnSet(e, S) = SumFunctionOnSet(f, S) - f[y] + e[y]
<1> DEFINE R == S \ {y}
<1>1. IsFiniteSet(R)
  BY FS_Subset
<1>2. SumFunctionOnSet(f, S) = f[y] + SumFunctionOnSet(f, R)
  BY SumRemove
<1>3. SumFunctionOnSet(e, S) = e[y] + SumFunctionOnSet(e, R)
  BY SumRemove
<1>4. SumFunctionOnSet(f, R) = SumFunctionOnSet(e, R)
  BY <1>1, SumSame
<1>5. SumFunctionOnSet(f, R) \in Int
  BY <1>1, SumType
<1> HIDE DEF R
<1> QED BY <1>2, <1>3, <1>4, <1>5

\* A part of the set, with smaller values there, has a smaller sum.
LEMMA SumShrinks ==
    ASSUME NEW S, IsFiniteSet(S), NEW f, NEW e, NEW R \in SUBSET S,
           \A x \in S : e[x] \in Nat, \A x \in R : f[x] \in Int /\ f[x] <= e[x]
    PROVE  SumFunctionOnSet(f, R) <= SumFunctionOnSet(e, S)
<1> DEFINE Sum(g, s) == SumFunctionOnSet(g, s)
           Bad == {s \in SUBSET S : ~(Sum(f, s \cap R) <= Sum(e, s))}
<1> HIDE DEF Sum
<1> SUFFICES ASSUME Bad # {} PROVE FALSE
  <2>1. S \cap R = R
    OBVIOUS
  <2> QED BY <2>1 DEF Sum
<1>0. Bad \in SUBSET (SUBSET S)
  OBVIOUS
<1>1. PICK T \in Bad : \A u \in Bad : u \subseteq T => u = T
  <2> HIDE DEF Bad
  <2> QED BY <1>0, MinimalSubset
<1>2. T \in SUBSET S /\ IsFiniteSet(T) /\ IsFiniteSet(T \cap R)
      /\ ~(Sum(f, T \cap R) <= Sum(e, T))
  BY <1>1, FS_Subset
<1>3. PICK x : x \in T
  <2>1. CASE T = {}
    <3>1. T \cap R = {} /\ Sum(f, {}) = 0 /\ Sum(e, {}) = 0
      BY <2>1, SumEmpty DEF Sum
    <3> QED BY <3>1, <2>1, <1>2
  <2> QED BY <2>1
<1> DEFINE U == T \ {x}
<1>4. Sum(f, U \cap R) <= Sum(e, U)
  <2>1. U \in SUBSET S /\ U # T /\ U \subseteq T
    BY <1>2, <1>3
  <2> QED BY <2>1, <1>1
<1>5. Sum(e, T) = e[x] + Sum(e, U)
  BY <1>2, <1>3, SumRemove DEF Sum
<1>6. Sum(e, U) \in Int /\ Sum(f, U \cap R) \in Int
  <2>1. IsFiniteSet(U) /\ IsFiniteSet(U \cap R)
    BY <1>2, FS_Subset
  <2>2. (\A y \in U : e[y] \in Int) /\ (\A y \in U \cap R : f[y] \in Int)
    BY <1>2
  <2> HIDE DEF U
  <2> QED BY <2>1, <2>2, SumType DEF Sum
<1>7. CASE x \in R
  <2>1. Sum(f, T \cap R) = f[x] + Sum(f, (T \cap R) \ {x})
    <3>1. \A y \in T \cap R : f[y] \in Int
      OBVIOUS
    <3> QED BY <3>1, <1>2, <1>3, <1>7, SumRemove DEF Sum
  <2>2. Sum(f, (T \cap R) \ {x}) = Sum(f, U \cap R)
    <3>1. (T \cap R) \ {x} = U \cap R
      OBVIOUS
    <3> QED BY <3>1
  <2>3. f[x] \in Int /\ e[x] \in Int /\ f[x] <= e[x]
    BY <1>7, <1>2, <1>3
  <2>4. Sum(f, T \cap R) = f[x] + Sum(f, U \cap R)
    BY <2>1, <2>2
  <2> HIDE DEF U, Bad
  <2>5. Sum(f, T \cap R) <= Sum(e, T)
    BY <2>3, <2>4, <1>4, <1>5, <1>6
  <2> QED BY <2>5, <1>2
<1>8. CASE x \notin R
  <2>1. Sum(f, T \cap R) = Sum(f, U \cap R)
    <3>1. T \cap R = U \cap R
      BY <1>8
    <3> QED BY <3>1
  <2>2. e[x] \in Nat
    BY <1>2, <1>3
  <2> HIDE DEF U, Bad
  <2>3. Sum(f, T \cap R) <= Sum(e, T)
    BY <2>1, <2>2, <1>4, <1>5, <1>6
  <2> QED BY <2>3, <1>2
<1> QED BY <1>7, <1>8

\* Nothing but zeros.
LEMMA SumOfZeros ==
    ASSUME NEW S, IsFiniteSet(S), NEW f, \A x \in S : f[x] = 0
    PROVE  SumFunctionOnSet(f, S) = 0
<1> DEFINE Bad == {s \in SUBSET S : SumFunctionOnSet(f, s) # 0}
<1> SUFFICES ASSUME Bad # {} PROVE FALSE
  OBVIOUS
<1>0. Bad \in SUBSET (SUBSET S)
  OBVIOUS
<1>1. PICK T \in Bad : \A u \in Bad : u \subseteq T => u = T
  <2> HIDE DEF Bad
  <2> QED BY <1>0, MinimalSubset
<1>2. T \in SUBSET S /\ IsFiniteSet(T) /\ T # {} /\ SumFunctionOnSet(f, T) # 0
  BY <1>1, FS_Subset, SumEmpty
<1>3. FirstOf(T) \in T
  BY <1>2, FirstIn
<1>4. SumFunctionOnSet(f, T) = 0 + SumFunctionOnSet(f, T \ {FirstOf(T)})
  BY <1>2, <1>3, SumUnfold
<1>5. SumFunctionOnSet(f, T \ {FirstOf(T)}) = 0
  BY <1>1, <1>2, <1>3
<1> HIDE DEF Bad
<1> QED BY <1>2, <1>4, <1>5

\* The sum over two sets without a common element is the sum of their sums.
LEMMA SumDisjoint ==
    ASSUME NEW S, IsFiniteSet(S), NEW A \in SUBSET S, NEW B \in SUBSET S, A \cap B = {},
           NEW f, \A x \in S : f[x] \in Int
    PROVE  SumFunctionOnSet(f, A \cup B) = SumFunctionOnSet(f, A) + SumFunctionOnSet(f, B)
<1> DEFINE Sum(s) == SumFunctionOnSet(f, s)
           Bad == {b \in SUBSET B : Sum(A \cup b) # Sum(A) + Sum(b)}
<1> HIDE DEF Sum
<1> SUFFICES ASSUME Bad # {} PROVE FALSE
  BY DEF Sum
<1>0. Bad \in SUBSET (SUBSET B) /\ IsFiniteSet(A) /\ IsFiniteSet(B)
  BY FS_Subset
<1>1. PICK b \in Bad : \A u \in Bad : u \subseteq b => u = b
  <2> HIDE DEF Bad
  <2> QED BY <1>0, MinimalSubset
<1>2. b \in SUBSET B /\ b \in SUBSET S /\ IsFiniteSet(b) /\ Sum(A \cup b) # Sum(A) + Sum(b)
  BY <1>0, <1>1, FS_Subset
<1>3. Sum(A) \in Int
  BY <1>0, SumType DEF Sum
<1>4. b # {}
  <2> SUFFICES ASSUME b = {} PROVE FALSE
    OBVIOUS
  <2>1. A \cup b = A /\ Sum(b) = 0
    BY SumEmpty DEF Sum
  <2> QED BY <1>2, <1>3, <2>1
<1>5. PICK x \in b : TRUE
  BY <1>4
<1>6. PICK c : c = b \ {x}
  OBVIOUS
<1>7. c \in SUBSET B /\ c # b /\ c \subseteq b /\ c \in SUBSET S /\ IsFiniteSet(c)
  BY <1>2, <1>5, <1>6, FS_Subset
<1>8. Sum(A \cup c) = Sum(A) + Sum(c)
  BY <1>1, <1>7
<1>9. Sum(b) = f[x] + Sum(c)
  <2>1. \A y \in b : f[y] \in Int
    BY <1>2
  <2> QED BY <1>2, <1>5, <1>6, <2>1, SumRemove DEF Sum
<1>10. Sum(A \cup b) = f[x] + Sum(A \cup c)
  <2>1. IsFiniteSet(A \cup b) /\ (\A y \in A \cup b : f[y] \in Int) /\ x \in A \cup b
    <3>1. A \cup b \in SUBSET S
      BY <1>2
    <3> QED BY <1>5, <3>1, FS_Subset
  <2>2. (A \cup b) \ {x} = A \cup c
    BY <1>2, <1>5, <1>6
  <2>3. Sum(A \cup b) = f[x] + Sum((A \cup b) \ {x})
    BY <2>1, SumRemove DEF Sum
  <2> QED BY <2>2, <2>3
<1>11. Sum(c) \in Int /\ f[x] \in Int
  <2>1. f[x] \in Int /\ \A y \in c : f[y] \in Int
    BY <1>2, <1>5, <1>7
  <2> QED BY <1>7, <2>1, SumType DEF Sum
<1>12. Sum(A \cup b) = Sum(A) + Sum(b)
  <2> HIDE DEF Bad
  <2> QED BY <1>3, <1>8, <1>9, <1>10, <1>11
<1> QED BY <1>2, <1>12

\* The sum over a set in parts is the sum over the parts of their sums.
LEMMA SumParts ==
    ASSUME NEW S, IsFiniteSet(S), NEW f, \A x \in S : f[x] \in Int,
           NEW D, IsFiniteSet(D), NEW A, \A i \in D : A[i] \in SUBSET S,
           \A i, j \in D : i # j => A[i] \cap A[j] = {},
           NEW t, \A i \in D : t[i] = SumFunctionOnSet(f, A[i])
    PROVE  SumFunctionOnSet(t, D) = SumFunctionOnSet(f, UNION {A[i] : i \in D})
<1> DEFINE Sum(g, s) == SumFunctionOnSet(g, s)
           Whole(d) == UNION {A[i] : i \in d}
           Bad == {d \in SUBSET D : Sum(t, d) # Sum(f, Whole(d))}
<1> HIDE DEF Sum
<1> SUFFICES ASSUME Bad # {} PROVE FALSE
  BY DEF Sum
<1>0. Bad \in SUBSET (SUBSET D)
  OBVIOUS
<1>1. PICK d \in Bad : \A u \in Bad : u \subseteq d => u = d
  <2> HIDE DEF Bad
  <2> QED BY <1>0, MinimalSubset
<1>2. d \in SUBSET D /\ IsFiniteSet(d) /\ Sum(t, d) # Sum(f, Whole(d))
  BY <1>1, FS_Subset
<1>3. d # {}
  <2> SUFFICES ASSUME d = {} PROVE FALSE
    OBVIOUS
  <2>1. Whole(d) = {} /\ Sum(t, {}) = 0 /\ Sum(f, {}) = 0
    BY SumEmpty DEF Sum
  <2> QED BY <1>2, <2>1
<1>4. PICK k \in d : TRUE
  BY <1>3
<1>5. PICK e : e = d \ {k}
  OBVIOUS
<1>6. e \in SUBSET D /\ e # d /\ e \subseteq d /\ IsFiniteSet(e)
  BY <1>2, <1>4, <1>5, FS_Subset
<1>7. Sum(t, e) = Sum(f, Whole(e))
  BY <1>1, <1>6
<1>8. \A i \in D : t[i] \in Int
  <2> SUFFICES ASSUME NEW i \in D PROVE Sum(f, A[i]) \in Int
    BY DEF Sum
  <2>1. IsFiniteSet(A[i]) /\ \A y \in A[i] : f[y] \in Int
    BY FS_Subset
  <2> QED BY <2>1, SumType DEF Sum
<1>9. Sum(t, d) = t[k] + Sum(t, e)
  <2>1. \A i \in d : t[i] \in Int
    BY <1>2, <1>8
  <2> QED BY <1>2, <1>4, <1>5, <2>1, SumRemove DEF Sum
<1>10. Sum(f, Whole(d)) = Sum(f, A[k]) + Sum(f, Whole(e))
  <2>1. Whole(d) = A[k] \cup Whole(e)
    BY <1>4, <1>5
  <2>2. A[k] \in SUBSET S /\ Whole(e) \in SUBSET S
    BY <1>2, <1>4, <1>6
  <2>3. A[k] \cap Whole(e) = {}
    BY <1>2, <1>4, <1>5
  <2> HIDE DEF Whole
  <2>4. Sum(f, A[k] \cup Whole(e)) = Sum(f, A[k]) + Sum(f, Whole(e))
    BY <2>2, <2>3, SumDisjoint DEF Sum
  <2> QED BY <2>1, <2>4
<1>11. t[k] = Sum(f, A[k])
  BY <1>2, <1>4 DEF Sum
<1> QED BY <1>2, <1>7, <1>9, <1>10, <1>11
=============================================================================
