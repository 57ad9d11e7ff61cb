--------------------------- MODULE OrderBookProofs ---------------------------
(***************************************************************************)
(* What the order books keep, for any number of orders at any prices and   *)
(* any sequence of calls.  The red-black book: the price levels always,    *)
(* the tree and the best order it offers until fix_delete takes the        *)
(* sentinel for a sibling.  The ART books: levels, leaf, depth, and that   *)
(* the engine finds no maker.                                              *)
(***************************************************************************)
EXTENDS OrderBookTree, ArtBook, SumTheorems, SequenceTheorems

Inserting == {"descend", "fix_insert"}
Removing == {"find_min", "splice", "fix_delete", "removed"}

LEMMA NodeTypes ==
    /\ Len(PriceOf) \in Nat /\ IsFiniteSet(Nodes)
    /\ Nodes \subseteq Nat \ {0} /\ Null \notin Nodes /\ Nil \notin Nodes /\ Nil # Null
    /\ \A n \in Nodes : PriceOf[n] \in Nat /\ PriceOf[n] \in PriceLevels
<1>1. Len(PriceOf) \in Nat /\ DOMAIN PriceOf = 1 .. Len(PriceOf)
  BY TreeAssumption, LenProperties
<1>2. IsFiniteSet(1 .. Len(PriceOf))
  BY <1>1, FS_Interval
<1>3. \A n \in 1 .. Len(PriceOf) : PriceOf[n] \in Nat \ {0}
  BY TreeAssumption, ElementOfSeq
<1> QED BY <1>1, <1>2, <1>3 DEF Nodes, Null, Nil, PriceLevels
-----------------------------------------------------------------------------
(* The price levels *)

\* q lists the orders of S, each once and in the order of their numbers.
Lists(q, S) ==
    /\ q \in Seq(Nodes) /\ S \subseteq Nodes
    /\ Len(q) = Cardinality(S)
    /\ \A n \in S : \E i \in 1 .. Len(q) : q[i] = n
    /\ \A i \in 1 .. Len(q) : q[i] \in S
    /\ \A i, j \in 1 .. Len(q) : i < j => q[i] < q[j]

LEMMA ListGrows ==
    ASSUME NEW q, NEW S, NEW n \in Nodes, Lists(q, S), \A m \in S : m < n
    PROVE  Lists(Append(q, n), S \cup {n})
<1>1. /\ q \in Seq(Nodes) /\ S \subseteq Nodes /\ IsFiniteSet(S) /\ n \notin S
      /\ Len(q) \in Nat /\ Len(q) = Cardinality(S)
  <2>1. q \in Seq(Nodes) /\ S \subseteq Nodes /\ Len(q) = Cardinality(S)
    BY DEF Lists
  <2>2. IsFiniteSet(S)
    BY <2>1, NodeTypes, FS_Subset
  <2>3. n \in Nat /\ Len(q) \in Nat
    BY <2>1, NodeTypes
  <2>4. n \notin S
    BY <2>3
  <2> QED BY <2>1, <2>2, <2>3, <2>4
<1>2. PICK r : r = Append(q, n)
  OBVIOUS
<1>3. /\ r \in Seq(Nodes) /\ Len(r) = Len(q) + 1 /\ r[Len(q) + 1] = n
      /\ \A i \in 1 .. Len(q) : r[i] = q[i]
  BY <1>1, <1>2
<1>4. Cardinality(S \cup {n}) = Len(q) + 1
  BY <1>1, FS_AddElement
<1>5. \A m \in S \cup {n} : \E i \in 1 .. Len(r) : r[i] = m
  BY <1>1, <1>3 DEF Lists
<1>6. \A i \in 1 .. Len(r) : r[i] \in S \cup {n}
  BY <1>1, <1>3 DEF Lists
<1>7. ASSUME NEW i \in 1 .. Len(r), NEW j \in 1 .. Len(r), i < j PROVE r[i] < r[j]
  <2>1. i \in 1 .. Len(q)
    BY <1>1, <1>3, <1>7
  <2>2. CASE j \in 1 .. Len(q)
    BY <1>3, <1>7, <2>1, <2>2 DEF Lists
  <2>3. CASE j = Len(q) + 1
    <3>1. q[i] \in S
      BY <2>1 DEF Lists
    <3> QED BY <1>3, <2>1, <2>3, <3>1
  <2> QED BY <1>1, <1>3, <2>2, <2>3
<1> QED BY <1>1, <1>2, <1>3, <1>4, <1>5, <1>6, <1>7 DEF Lists

LEMMA ListShrinks ==
    ASSUME NEW q, NEW S, NEW n \in S, Lists(q, S)
    PROVE  Lists(Without(q, n), S \ {n})
<1>1. /\ q \in Seq(Nodes) /\ S \subseteq Nodes /\ IsFiniteSet(S)
      /\ Len(q) \in Nat /\ Len(q) = Cardinality(S) /\ DOMAIN q = 1 .. Len(q)
      /\ \A m \in S : m \in Nat
  BY NodeTypes, FS_Subset, LenProperties DEF Lists
<1>2. PICK at : at = CHOOSE i \in DOMAIN q : q[i] = n
  OBVIOUS
<1>3. at \in 1 .. Len(q) /\ q[at] = n
  BY <1>1, <1>2 DEF Lists
<1>4. PICK r : r = [i \in 1 .. Len(q) - 1 |-> q[IF i < at THEN i ELSE i + 1]]
  OBVIOUS
<1>5. Without(q, n) = r
  BY <1>2, <1>4 DEF Without
<1>6. Len(q) - 1 \in Nat
  BY <1>1, <1>3
<1>7. \A i \in 1 .. Len(q) - 1 :
         /\ r[i] = q[IF i < at THEN i ELSE i + 1]
         /\ (IF i < at THEN i ELSE i + 1) \in 1 .. Len(q) \ {at}
  BY <1>1, <1>3, <1>4
<1>8. \A i, j \in 1 .. Len(q) : q[i] = q[j] => i = j
  <2> SUFFICES ASSUME NEW i \in 1 .. Len(q), NEW j \in 1 .. Len(q), q[i] = q[j] PROVE i = j
    OBVIOUS
  <2>1. q[i] \in Nat /\ q[j] \in Nat /\ i \in Nat /\ j \in Nat
    BY <1>1 DEF Lists
  <2>2. ~(q[i] < q[j]) /\ ~(q[j] < q[i])
    BY <2>1
  <2>3. ~(i < j) /\ ~(j < i)
    BY <2>2 DEF Lists
  <2> QED BY <2>1, <2>3
<1>9. \A i \in 1 .. Len(q) - 1 : r[i] \in S \ {n}
  BY <1>3, <1>7, <1>8 DEF Lists
<1>10. r \in Seq(Nodes) /\ Len(r) = Len(q) - 1
  <2>1. r \in [1 .. Len(q) - 1 -> Nodes]
    BY <1>1, <1>4, <1>9
  <2> QED BY <1>6, <2>1
<1>11. Cardinality(S \ {n}) = Len(q) - 1
  BY <1>1, FS_RemoveElement
<1>12. ASSUME NEW m \in S \ {n} PROVE \E i \in 1 .. Len(r) : r[i] = m
  <2>1. PICK k \in 1 .. Len(q) : q[k] = m
    BY DEF Lists
  <2>2. k # at
    BY <1>3, <2>1
  <2>3. CASE k < at
    BY <1>3, <1>7, <1>10, <2>1, <2>3
  <2>4. CASE k > at
    <3>1. k - 1 \in 1 .. Len(q) - 1 /\ ~(k - 1 < at) /\ k - 1 + 1 = k
      BY <1>1, <1>3, <2>4
    <3> QED BY <1>7, <1>10, <2>1, <3>1
  <2> QED BY <1>3, <2>2, <2>3, <2>4
<1>13. ASSUME NEW i \in 1 .. Len(r), NEW j \in 1 .. Len(r), i < j PROVE r[i] < r[j]
  <2>1. PICK a \in 1 .. Len(q) : a = IF i < at THEN i ELSE i + 1
    BY <1>7, <1>10
  <2>2. PICK b \in 1 .. Len(q) : b = IF j < at THEN j ELSE j + 1
    BY <1>7, <1>10
  <2>3. a < b
    BY <1>1, <1>3, <1>10, <1>13, <2>1, <2>2
  <2>4. r[i] = q[a] /\ r[j] = q[b]
    BY <1>7, <1>10, <2>1, <2>2
  <2> QED BY <2>3, <2>4 DEF Lists
<1> QED BY <1>1, <1>5, <1>9, <1>10, <1>11, <1>12, <1>13 DEF Lists

AtPrice(S, p) == {n \in S : PriceOf[n] = p}

\* The levels q with totals t are those of the orders of S, r what each has remaining.
Shows(q, t, r, S) ==
    /\ DOMAIN q = PriceLevels /\ t \in [PriceLevels -> Nat] /\ r \in [Nodes -> Nat]
    /\ S \subseteq Nodes
    /\ \A p \in PriceLevels : /\ Lists(q[p], AtPrice(S, p))
                             /\ t[p] = SumFunctionOnSet(r, AtPrice(S, p))

LEMMA PriceSets ==
    ASSUME NEW S \in SUBSET Nodes, NEW p
    PROVE  IsFiniteSet(AtPrice(S, p)) /\ AtPrice(S, p) \subseteq Nodes
<1>1. AtPrice(S, p) \subseteq Nodes
  BY DEF AtPrice
<1>2. IsFiniteSet(AtPrice(S, p))
  BY <1>1, NodeTypes, FS_Subset
<1> QED BY <1>1, <1>2

LEMMA PriceSetsChange ==
    ASSUME NEW S, NEW n, NEW p
    PROVE  /\ p # PriceOf[n] => AtPrice(S \cup {n}, p) = AtPrice(S, p)
                                /\ AtPrice(S \ {n}, p) = AtPrice(S, p)
           /\ p = PriceOf[n] => AtPrice(S \cup {n}, p) = AtPrice(S, p) \cup {n}
                                /\ AtPrice(S \ {n}, p) = AtPrice(S, p) \ {n}
BY DEF AtPrice

\* What an order at rest has remaining is at most its level's total.
LEMMA TotalCovers ==
    ASSUME NEW q, NEW t, NEW r, NEW S, Shows(q, t, r, S), NEW n \in S
    PROVE  /\ PriceOf[n] \in PriceLevels /\ r[n] \in Nat /\ t[PriceOf[n]] \in Nat
           /\ SumFunctionOnSet(r, AtPrice(S, PriceOf[n]) \ {n}) \in Nat
           /\ t[PriceOf[n]] = r[n] + SumFunctionOnSet(r, AtPrice(S, PriceOf[n]) \ {n})
<1> DEFINE A == AtPrice(S, PriceOf[n])
<1>1. n \in Nodes /\ PriceOf[n] \in PriceLevels /\ r \in [Nodes -> Nat] /\ t \in [PriceLevels -> Nat]
  BY NodeTypes DEF Shows
<1>2. IsFiniteSet(A) /\ A \subseteq Nodes /\ n \in A
  <2>1. S \in SUBSET Nodes
    BY DEF Shows
  <2>2. n \in A
    BY DEF AtPrice
  <2> QED BY <2>1, <2>2, PriceSets
<1>3. IsFiniteSet(A \ {n}) /\ (\A m \in A \ {n} : r[m] \in Nat) /\ (\A m \in A : r[m] \in Int)
  BY <1>1, <1>2, FS_Subset
<1>4. SumFunctionOnSet(r, A \ {n}) \in Nat
  BY <1>3, SumType
<1>5. SumFunctionOnSet(r, A) = r[n] + SumFunctionOnSet(r, A \ {n})
  BY <1>2, <1>3, SumRemove
<1>6. t[PriceOf[n]] = SumFunctionOnSet(r, A)
  BY <1>1 DEF Shows
<1> QED BY <1>1, <1>4, <1>5, <1>6

LEMMA JoinLevel ==
    ASSUME NEW q, NEW t, NEW r, NEW S, Shows(q, t, r, S), NEW n \in Nodes, n \notin S,
           \A m \in S : PriceOf[m] = PriceOf[n] => m < n
    PROVE  Shows([q EXCEPT ![PriceOf[n]] = Append(@, n)],
                 [t EXCEPT ![PriceOf[n]] = @ + r[n]], r, S \cup {n})
<1> DEFINE A(p) == AtPrice(S, p)
<1>1. PICK a, b : /\ a = [q EXCEPT ![PriceOf[n]] = Append(@, n)]
                  /\ b = [t EXCEPT ![PriceOf[n]] = @ + r[n]]
  OBVIOUS
<1>2. /\ DOMAIN q = PriceLevels /\ t \in [PriceLevels -> Nat] /\ r \in [Nodes -> Nat]
      /\ S \in SUBSET Nodes /\ PriceOf[n] \in PriceLevels
  BY NodeTypes DEF Shows
<1>3. DOMAIN a = PriceLevels /\ b \in [PriceLevels -> Nat] /\ S \cup {n} \subseteq Nodes
  BY <1>1, <1>2
<1>4. ASSUME NEW p \in PriceLevels
      PROVE  Lists(a[p], AtPrice(S \cup {n}, p)) /\ b[p] = SumFunctionOnSet(r, AtPrice(S \cup {n}, p))
  <2>0. Lists(q[p], A(p)) /\ t[p] = SumFunctionOnSet(r, A(p))
    BY DEF Shows
  <2>1. CASE p # PriceOf[n]
    <3>1. AtPrice(S \cup {n}, p) = A(p)
      BY <2>1, PriceSetsChange
    <3>2. a[p] = q[p] /\ b[p] = t[p]
      BY <1>1, <1>2, <2>1
    <3> QED BY <2>0, <3>1, <3>2
  <2>2. CASE p = PriceOf[n]
    <3>1. AtPrice(S \cup {n}, p) = A(p) \cup {n} /\ IsFiniteSet(A(p)) /\ A(p) \subseteq Nodes
      <4>1. AtPrice(S \cup {n}, p) = A(p) \cup {n}
        BY <2>2 DEF AtPrice
      <4> QED BY <1>2, <4>1, PriceSets
    <3>2. a[p] = Append(q[p], n) /\ b[p] = t[p] + r[n]
      BY <1>1, <1>2, <2>2
    <3>3. n \notin A(p) /\ \A m \in A(p) : m < n
      BY <2>2 DEF AtPrice
    <3>4. Lists(a[p], AtPrice(S \cup {n}, p))
      <4>1. Lists(Append(q[p], n), A(p) \cup {n})
        BY <2>0, <3>3, ListGrows
      <4> QED BY <3>1, <3>2, <4>1, Zenon
    <3>5. \A m \in A(p) \cup {n} : r[m] \in Int
      BY <1>2, <3>1
    <3>6. SumFunctionOnSet(r, A(p) \cup {n}) = r[n] + SumFunctionOnSet(r, A(p))
      BY <3>1, <3>3, <3>5, SumAdd
    <3>7. t[p] \in Nat /\ r[n] \in Nat
      BY <1>2
    <3>8. b[p] = SumFunctionOnSet(r, A(p) \cup {n})
      <4>1. PICK c : c = SumFunctionOnSet(r, A(p))
        OBVIOUS
      <4> QED BY ONLY <2>0, <3>2, <3>6, <3>7, <4>1
    <3> QED BY <3>1, <3>4, <3>8, Zenon
  <2> QED BY <2>1, <2>2
<1>5. Shows(a, b, r, S \cup {n})
  BY <1>2, <1>3, <1>4 DEF Shows
<1> QED BY <1>1, <1>5

LEMMA LeaveLevel ==
    ASSUME NEW q, NEW t, NEW r, NEW S, Shows(q, t, r, S), NEW n \in S
    PROVE  Shows([q EXCEPT ![PriceOf[n]] = Without(@, n)],
                 [t EXCEPT ![PriceOf[n]] = IF @ < r[n] THEN 0 ELSE @ - r[n]], r, S \ {n})
<1> DEFINE A(p) == AtPrice(S, p)
<1>1. PICK a, b : /\ a = [q EXCEPT ![PriceOf[n]] = Without(@, n)]
                  /\ b = [t EXCEPT ![PriceOf[n]] = IF @ < r[n] THEN 0 ELSE @ - r[n]]
  OBVIOUS
<1>2. /\ DOMAIN q = PriceLevels /\ t \in [PriceLevels -> Nat] /\ r \in [Nodes -> Nat]
      /\ S \in SUBSET Nodes /\ n \in Nodes /\ PriceOf[n] \in PriceLevels
  BY NodeTypes DEF Shows
<1>c. /\ r[n] \in Nat /\ t[PriceOf[n]] \in Nat
      /\ SumFunctionOnSet(r, A(PriceOf[n]) \ {n}) \in Nat
      /\ t[PriceOf[n]] = r[n] + SumFunctionOnSet(r, A(PriceOf[n]) \ {n})
  BY TotalCovers
<1>d. b = [t EXCEPT ![PriceOf[n]] = SumFunctionOnSet(r, A(PriceOf[n]) \ {n})]
  <2>1. PICK c : c = SumFunctionOnSet(r, A(PriceOf[n]) \ {n})
    OBVIOUS
  <2>2. (IF t[PriceOf[n]] < r[n] THEN 0 ELSE t[PriceOf[n]] - r[n]) = c
    BY <1>c, <2>1
  <2> QED BY <1>1, <1>2, <2>1, <2>2
<1>3. DOMAIN a = PriceLevels /\ b \in [PriceLevels -> Nat] /\ S \ {n} \subseteq Nodes
  BY <1>1, <1>2, <1>c, <1>d
<1>4. ASSUME NEW p \in PriceLevels
      PROVE  Lists(a[p], AtPrice(S \ {n}, p)) /\ b[p] = SumFunctionOnSet(r, AtPrice(S \ {n}, p))
  <2>0. Lists(q[p], A(p)) /\ t[p] = SumFunctionOnSet(r, A(p))
    BY DEF Shows
  <2>1. CASE p # PriceOf[n]
    <3>1. AtPrice(S \ {n}, p) = A(p)
      BY <2>1, PriceSetsChange
    <3>2. a[p] = q[p] /\ b[p] = t[p]
      BY <1>1, <1>2, <2>1
    <3> QED BY <2>0, <3>1, <3>2
  <2>2. CASE p = PriceOf[n]
    <3>1. AtPrice(S \ {n}, p) = A(p) \ {n} /\ n \in A(p)
      BY <2>2, PriceSetsChange DEF AtPrice
    <3>2. a[p] = Without(q[p], n)
      BY <1>1, <1>2, <2>2
    <3>3. b[p] = SumFunctionOnSet(r, A(p) \ {n})
      BY <1>2, <1>d, <2>2
    <3>4. Lists(a[p], AtPrice(S \ {n}, p))
      BY <2>0, <3>1, <3>2, ListShrinks
    <3> QED BY <3>1, <3>3, <3>4
  <2> QED BY <2>1, <2>2
<1>5. Shows(a, b, r, S \ {n})
  BY <1>2, <1>3, <1>4 DEF Shows
<1> QED BY <1>1, <1>5

\* What an order that is not at rest has remaining shows nowhere.
LEMMA HiddenQuantity ==
    ASSUME NEW q, NEW t, NEW r, NEW S, Shows(q, t, r, S), NEW n \in Nodes \ S, NEW k \in Nat
    PROVE  Shows(q, t, [r EXCEPT ![n] = k], S)
<1>1. PICK e : e = [r EXCEPT ![n] = k]
  OBVIOUS
<1>2. r \in [Nodes -> Nat] /\ S \in SUBSET Nodes
  BY DEF Shows
<1>3. e \in [Nodes -> Nat] /\ \A m \in S : r[m] = e[m]
  BY <1>1, <1>2
<1>4. ASSUME NEW p \in PriceLevels
      PROVE  SumFunctionOnSet(r, AtPrice(S, p)) = SumFunctionOnSet(e, AtPrice(S, p))
  <2>1. IsFiniteSet(AtPrice(S, p))
    BY <1>2, PriceSets
  <2>2. \A m \in AtPrice(S, p) : r[m] = e[m]
    BY <1>3 DEF AtPrice
  <2> QED BY <2>1, <2>2, SumSame
<1> QED BY <1>1, <1>3, <1>4 DEF Shows

LEMMA QuantityChanges ==
    ASSUME NEW q, NEW t, NEW r, NEW S, Shows(q, t, r, S), NEW n \in S, NEW k \in Nat
    PROVE  Shows(q, [t EXCEPT ![PriceOf[n]] =
                       IF @ - r[n] + k < 0 THEN 0 ELSE @ - r[n] + k], [r EXCEPT ![n] = k], S)
<1> DEFINE A(p) == AtPrice(S, p)
<1>1. PICK b, e : /\ b = [t EXCEPT ![PriceOf[n]] = IF @ - r[n] + k < 0 THEN 0 ELSE @ - r[n] + k]
                  /\ e = [r EXCEPT ![n] = k]
  OBVIOUS
<1>2. /\ DOMAIN q = PriceLevels /\ t \in [PriceLevels -> Nat] /\ r \in [Nodes -> Nat]
      /\ S \in SUBSET Nodes /\ n \in Nodes /\ PriceOf[n] \in PriceLevels
  BY NodeTypes DEF Shows
<1>3. /\ r[n] \in Nat /\ t[PriceOf[n]] \in Nat
      /\ SumFunctionOnSet(r, A(PriceOf[n]) \ {n}) \in Nat
      /\ t[PriceOf[n]] = r[n] + SumFunctionOnSet(r, A(PriceOf[n]) \ {n})
  BY TotalCovers
<1>4. PICK c : c = SumFunctionOnSet(r, A(PriceOf[n]) \ {n})
  OBVIOUS
<1>5. b = [t EXCEPT ![PriceOf[n]] = k + c] /\ k + c \in Nat
  <2>1. (IF t[PriceOf[n]] - r[n] + k < 0 THEN 0 ELSE t[PriceOf[n]] - r[n] + k) = k + c
        /\ k + c \in Nat
    BY <1>3, <1>4
  <2> QED BY <1>1, <1>2, <2>1
<1>6. b \in [PriceLevels -> Nat] /\ e \in [Nodes -> Nat]
  BY <1>1, <1>2, <1>5
<1>7. ASSUME NEW p \in PriceLevels PROVE b[p] = SumFunctionOnSet(e, A(p))
  <2>0. t[p] = SumFunctionOnSet(r, A(p)) /\ IsFiniteSet(A(p)) /\ A(p) \subseteq Nodes
    BY <1>2, PriceSets DEF Shows
  <2>1. CASE p # PriceOf[n]
    <3>1. b[p] = t[p]
      BY <1>2, <1>5, <2>1
    <3>2. \A m \in A(p) : r[m] = e[m]
      BY <1>1, <1>2, <2>1 DEF AtPrice
    <3>3. SumFunctionOnSet(r, A(p)) = SumFunctionOnSet(e, A(p))
      BY <2>0, <3>2, SumSame
    <3> QED BY <2>0, <3>1, <3>3
  <2>2. CASE p = PriceOf[n]
    <3>1. n \in A(p) /\ IsFiniteSet(A(p) \ {n})
      BY <2>0, <2>2, FS_Subset DEF AtPrice
    <3>2. (\A m \in A(p) : e[m] \in Int) /\ \A m \in A(p) \ {n} : r[m] = e[m]
      BY <1>1, <1>2, <1>6, <2>0
    <3>3. SumFunctionOnSet(e, A(p)) = e[n] + SumFunctionOnSet(e, A(p) \ {n})
      BY <2>0, <3>1, <3>2, SumRemove
    <3>4. SumFunctionOnSet(r, A(p) \ {n}) = SumFunctionOnSet(e, A(p) \ {n})
      BY <3>1, <3>2, SumSame
    <3>5. b[p] = k + c /\ e[n] = k
      BY <1>1, <1>2, <1>5, <2>2
    <3> QED BY <1>4, <2>2, <3>3, <3>4, <3>5
  <2> QED BY <2>1, <2>2
<1>8. Shows(q, b, e, S)
  BY <1>2, <1>6, <1>7 DEF Shows
<1> QED BY <1>1, <1>8

\* The orders the levels show while a call runs.
Shown == CASE pc = "fix_insert" -> order_map_ \cup {node}
           [] pc \in Removing -> order_map_ \ {node}
           [] OTHER -> order_map_

LevelsInv ==
    /\ pc \in {"idle"} \cup Inserting \cup Removing
    /\ order_map_ \subseteq Nodes
    /\ pc # "idle" => node \in Nodes
    /\ pc \in Inserting => node \notin order_map_
                          /\ \A m \in order_map_ : PriceOf[m] = PriceOf[node] => m < node
    /\ pc \in Removing => node \in order_map_
    /\ Shows(queue, total, remaining, Shown)

LEMMA LevelsInit == Init => LevelsInv
<1> SUFFICES ASSUME Init PROVE LevelsInv
  OBVIOUS
<1>1. pc = "idle" /\ order_map_ = {} /\ Shown = {}
  BY DEF Init, Shown, Removing
<1>2. total \in [PriceLevels -> Nat] /\ remaining \in [Nodes -> Nat] /\ DOMAIN queue = PriceLevels
  BY DEF Init
<1>3. ASSUME NEW p \in PriceLevels
      PROVE  Lists(queue[p], AtPrice({}, p)) /\ total[p] = SumFunctionOnSet(remaining, AtPrice({}, p))
  <2>1. queue[p] = <<>> /\ total[p] = 0 /\ AtPrice({}, p) = {}
    BY DEF Init, AtPrice
  <2>2. Len(<<>>) = 0 /\ <<>> \in Seq(Nodes) /\ Cardinality({}) = 0
    BY FS_EmptySet
  <2>3. Lists(<<>>, {})
    BY <2>2 DEF Lists
  <2> QED BY <2>1, <2>3, SumEmpty
<1> QED BY <1>1, <1>2, <1>3 DEF LevelsInv, Shows, Inserting, Removing

LEMMA LevelsStep == LevelsInv /\ [Next]_vars => LevelsInv'
<1> SUFFICES ASSUME LevelsInv, [Next]_vars PROVE LevelsInv'
  OBVIOUS
<1> USE DEF LevelsInv, Inserting, Removing
<1>1. CASE Descend
  BY <1>1 DEF Descend, Shown, levelVars, treeVars
<1>2. CASE Link
  <2>1. /\ pc = "descend" /\ pc' = "fix_insert" /\ node' = node /\ order_map_' = order_map_
        /\ remaining' = remaining /\ LevelAdd(node)
    BY <1>2 DEF Link
  <2>2. Shown = order_map_ /\ Shown' = order_map_ \cup {node}
    BY <2>1 DEF Shown
  <2>3. Shows(queue', total', remaining, order_map_ \cup {node})
    BY <2>1, <2>2, JoinLevel DEF LevelAdd
  <2> QED BY <2>1, <2>2, <2>3
<1>3. CASE FixInsert
  BY <1>3 DEF FixInsert, Shown, levelVars
<1>4. CASE InsertDone
  <2>1. /\ pc = "fix_insert" /\ pc' = "idle" /\ order_map_' = order_map_ \cup {node}
        /\ UNCHANGED levelVars
    BY <1>4 DEF InsertDone
  <2>2. Shown' = Shown
    BY <2>1 DEF Shown
  <2> QED BY <2>1, <2>2 DEF levelVars
<1>5. CASE FindMin
  BY <1>5 DEF FindMin, Shown, levelVars
<1>6. CASE Splice
  <2>1. /\ pc = "splice" /\ pc' \in {"fix_delete", "removed"} /\ node' = node
        /\ order_map_' = order_map_ /\ UNCHANGED levelVars
    BY <1>6 DEF Splice
  <2> QED BY <2>1 DEF Shown, levelVars
<1>7. CASE FixDelete
  <2>1. /\ pc = "fix_delete" /\ pc' = pc /\ node' = node /\ order_map_' = order_map_
        /\ UNCHANGED levelVars
    BY <1>7 DEF FixDelete
  <2> QED BY <2>1 DEF Shown, levelVars
<1>8. CASE RemoveDone
  <2>1. /\ pc \in Removing /\ pc' = "idle" /\ order_map_' = order_map_ \ {node}
        /\ remaining' = [remaining EXCEPT ![node] = 0] /\ queue' = queue /\ total' = total
    BY <1>8 DEF RemoveDone
  <2>2. Shown = order_map_ \ {node} /\ Shown' = order_map_ \ {node}
    BY <2>1 DEF Shown
  <2>3. Shows(queue, total, [remaining EXCEPT ![node] = 0], order_map_ \ {node})
    BY <2>1, <2>2, HiddenQuantity
  <2> QED BY <2>1, <2>2, <2>3
<1>9. ASSUME NEW n \in Nodes, Insert(n) PROVE LevelsInv'
  <2>1. PICK q \in Quantities : remaining' = [remaining EXCEPT ![n] = q]
    BY <1>9 DEF Insert
  <2>2. /\ pc = "idle" /\ pc' = "descend" /\ node' = n /\ order_map_' = order_map_
        /\ n \notin order_map_ /\ (\A m \in order_map_ : PriceOf[m] = PriceOf[n] => m < n)
        /\ queue' = queue /\ total' = total
    BY <1>9 DEF Insert
  <2>3. Shown = order_map_ /\ Shown' = order_map_
    BY <2>2 DEF Shown
  <2>4. Shows(queue, total, [remaining EXCEPT ![n] = q], order_map_)
    BY <2>2, <2>3, HiddenQuantity, TreeAssumption
  <2> QED BY <2>1, <2>2, <2>3, <2>4
<1>10. ASSUME NEW n \in Nodes, Remove(n) PROVE LevelsInv'
  <2>1. /\ pc = "idle" /\ pc' \in {"splice", "find_min"} /\ node' = n
        /\ order_map_' = order_map_ /\ n \in order_map_ /\ LevelRemove(n) /\ remaining' = remaining
    BY <1>10 DEF Remove
  <2>2. Shown = order_map_ /\ Shown' = order_map_ \ {n}
    BY <2>1 DEF Shown
  <2>3. Shows(queue', total', remaining, order_map_ \ {n})
    BY <2>1, <2>2, LeaveLevel DEF LevelRemove
  <2> QED BY <2>1, <2>2, <2>3
<1>11. ASSUME NEW n \in Nodes, NEW q \in Quantities, UpdateQuantity(n, q) PROVE LevelsInv'
  <2>1. /\ pc = "idle" /\ pc' = "idle" /\ order_map_' = order_map_ /\ n \in order_map_
        /\ queue' = queue /\ q \in Nat
    BY <1>11, TreeAssumption DEF UpdateQuantity
  <2>2. Shown = order_map_ /\ Shown' = order_map_
    BY <2>1 DEF Shown
  <2>3. Shows(queue', total', remaining', order_map_)
    BY <1>11, <2>1, <2>2, QuantityChanges DEF UpdateQuantity
  <2> QED BY <2>1, <2>2, <2>3
<1>12. CASE UNCHANGED vars
  BY <1>12 DEF vars, levelVars, Shown
<1> QED BY <1>1, <1>2, <1>3, <1>4, <1>5, <1>6, <1>7, <1>8, <1>9, <1>10, <1>11, <1>12 DEF Next

\* add_order_to_price_level, remove_order_from_price_level, update_quantity: between
\* calls each level lists exactly the orders at its price, in time order, and its
\* total is what they have remaining, whatever the tree has become.
THEOREM LevelsKept == Spec => []LevelsMatchOrders
<1>1. LevelsInv => LevelsMatchOrders
  <2> SUFFICES ASSUME LevelsInv, pc = "idle", NEW p \in PriceLevels
               PROVE  LET here == {n \in order_map_ : PriceOf[n] = p}
                      IN  /\ Len(queue[p]) = Cardinality(here)
                          /\ \A n \in here : \E i \in DOMAIN queue[p] : queue[p][i] = n
                          /\ \A i, j \in DOMAIN queue[p] : i < j => queue[p][i] < queue[p][j]
                          /\ total[p] = SumFunctionOnSet(remaining, here)
    BY DEF LevelsMatchOrders
  <2>1. Shown = order_map_
    BY DEF Shown, Removing
  <2>2. /\ Lists(queue[p], AtPrice(order_map_, p))
        /\ total[p] = SumFunctionOnSet(remaining, AtPrice(order_map_, p))
    BY <2>1 DEF LevelsInv, Shows
  <2>3. DOMAIN queue[p] = 1 .. Len(queue[p])
    BY <2>2, LenProperties DEF Lists
  <2> QED BY <2>2, <2>3 DEF Lists, AtPrice
<1> QED BY <1>1, LevelsInit, LevelsStep, PTL DEF Spec
-----------------------------------------------------------------------------
(* The tree.  The two sides are treated alike: On(d, a, b) says that a belongs *)
(* on side d of b.                                                         *)

Sides == {"left", "right"}
Cells == Nodes \cup {Nil}
On(d, a, b) == IF d = "left" THEN LeftOf(a, b) ELSE LeftOf(b, a)

LEMMA SideFacts ==
    /\ \A d \in Sides : Far(d) \in Sides /\ Far(d) # d /\ Far(Far(d)) = d
    /\ \A d, e \in Sides : e = d \/ e = Far(d)
BY DEF Sides, Far

\* price_better and the timestamp order the orders of a side strictly and totally.
LEMMA KeysOrdered ==
    \A a, b, c \in Nodes :
        /\ ~LeftOf(a, a)
        /\ LeftOf(a, b) /\ LeftOf(b, c) => LeftOf(a, c)
        /\ a # b => LeftOf(a, b) \/ LeftOf(b, a)
<1> SUFFICES ASSUME NEW a \in Nodes, NEW b \in Nodes, NEW c \in Nodes
             PROVE  /\ ~LeftOf(a, a)
                    /\ LeftOf(a, b) /\ LeftOf(b, c) => LeftOf(a, c)
                    /\ a # b => LeftOf(a, b) \/ LeftOf(b, a)
  OBVIOUS
<1>1. /\ PriceOf[a] \in Nat /\ PriceOf[b] \in Nat /\ PriceOf[c] \in Nat
      /\ a \in Nat /\ b \in Nat /\ c \in Nat
  BY NodeTypes
<1>2. CASE IsBuy
  BY <1>1, <1>2 DEF LeftOf
<1>3. CASE ~IsBuy
  BY <1>1, <1>3 DEF LeftOf
<1> QED BY <1>2, <1>3

LEMMA OnOrdered ==
    \A d \in Sides : \A a, b, c \in Nodes :
        /\ ~On(d, a, a)
        /\ On(d, a, b) /\ On(d, b, c) => On(d, a, c)
        /\ ~(On(d, a, b) /\ On(d, b, a))
        /\ a # b => On(d, a, b) \/ On(d, b, a)
        /\ On(Far(d), a, b) <=> On(d, b, a)
<1>1. ASSUME NEW d \in Sides, NEW a \in Nodes, NEW b \in Nodes, NEW c \in Nodes
      PROVE  /\ ~On(d, a, a)
             /\ On(d, a, b) /\ On(d, b, c) => On(d, a, c)
             /\ ~(On(d, a, b) /\ On(d, b, a))
             /\ a # b => On(d, a, b) \/ On(d, b, a)
  BY KeysOrdered DEF On
<1>2. ASSUME NEW d \in Sides, NEW a \in Nodes, NEW b \in Nodes
      PROVE  On(Far(d), a, b) <=> On(d, b, a)
  BY DEF On, Far, Sides
<1> QED BY <1>1, <1>2

Trees == [root : Cells, l : [Cells -> Links], r : [Cells -> Links],
          p : [Cells -> Links], c : [Cells -> {0, 1}]]

\* t is a search tree of the orders T, s[n] those in the subtree of n.
IsTree(t, T, s) ==
    /\ t \in Trees /\ T \subseteq Nodes /\ s \in [Cells -> SUBSET T]
    /\ t.root \in T \cup {Nil} /\ s[Nil] = {} /\ s[t.root] = T
    /\ \A n \in T : s[n] = {n} \cup s[t.l[n]] \cup s[t.r[n]]
    /\ \A n \in T, d \in Sides :
         /\ Child(t, n, d) \in T \cup {Nil}
         /\ Child(t, n, d) # Nil => t.p[Child(t, n, d)] = n
         /\ \A m \in s[Child(t, n, d)] : On(d, m, n)
    /\ t.root # Nil => t.p[t.root] = Null
    /\ \A n \in T \ {t.root} : t.p[n] \in T /\ \E d \in Sides : Child(t, t.p[n], d) = n

\* What a subtree holds it holds with all that is below and, but for its root, with
\* what is directly above.
LEMMA Subtree ==
    ASSUME NEW t, NEW T, NEW s, IsTree(t, T, s)
    PROVE  \A b \in T : \A n \in s[b] : s[n] \subseteq s[b] /\ (n # b => t.p[n] \in s[b])
<1> DEFINE Good(b) == \A n \in s[b] : s[n] \subseteq s[b] /\ (n # b => t.p[n] \in s[b])
           Bad == {u \in SUBSET T : \E b \in T : u = s[b] /\ ~Good(b)}
<1>1. /\ T \subseteq Nodes /\ IsFiniteSet(T) /\ s \in [Cells -> SUBSET T] /\ s[Nil] = {}
      /\ \A n \in T : n \in Cells
  BY NodeTypes, FS_Subset DEF IsTree, Cells
<1> SUFFICES ASSUME Bad # {} PROVE FALSE
  BY <1>1
<1>2. PICK u \in Bad : \A v \in Bad : v \subseteq u => v = u
  <2>1. Bad \in SUBSET (SUBSET T)
    OBVIOUS
  <2> HIDE DEF Bad
  <2> QED BY <1>1, <2>1, MinimalSubset
<1>3. PICK b \in T : u = s[b] /\ ~Good(b)
  BY <1>2
<1>4. ASSUME NEW d \in Sides PROVE \A n \in s[Child(t, b, d)] :
         s[n] \subseteq s[b] /\ t.p[n] \in s[b]
  <2>1. PICK k : k = Child(t, b, d)
    OBVIOUS
  <2>2. /\ k \in T \cup {Nil} /\ (k # Nil => t.p[k] = b) /\ (\A m \in s[k] : On(d, m, b))
        /\ s[k] \subseteq s[b] /\ b \in s[b]
    BY <2>1, <1>3 DEF IsTree, Child, Sides
  <2>3. b \notin s[k]
    BY <1>1, <1>3, <2>2, OnOrdered
  <2>4. CASE k = Nil
    BY <1>1, <2>1, <2>4
  <2>5. CASE k \in T
    <3>1. s[k] \notin Bad
      BY <1>2, <1>3, <2>2, <2>3
    <3>2. s[k] \in SUBSET T
      BY <1>1, <2>5
    <3>3. Good(k)
      BY <2>5, <3>1, <3>2
    <3>4. k # Nil
      BY <1>1, <2>5, NodeTypes
    <3>5. \A n \in s[k] : s[n] \subseteq s[b] /\ t.p[n] \in s[b]
      <4> HIDE DEF Bad
      <4> QED BY <2>2, <3>3, <3>4
    <3> QED BY <2>1, <3>5
  <2> QED BY <2>2, <2>4, <2>5
<1>5. ASSUME NEW n \in s[b] PROVE n = b \/ \E d \in Sides : n \in s[Child(t, b, d)]
  BY <1>3 DEF IsTree, Child, Sides
<1>6. Good(b)
  BY <1>4, <1>5
<1> QED BY <1>3, <1>6

\* The tree with other links at one place or another root or colour, field by field.
LEMMA TreeFields ==
    ASSUME NEW t \in Trees
    PROVE  /\ t = [root |-> t.root, l |-> t.l, r |-> t.r, p |-> t.p, c |-> t.c]
           /\ t.root \in Cells /\ t.l \in [Cells -> Links] /\ t.r \in [Cells -> Links]
           /\ t.p \in [Cells -> Links] /\ t.c \in [Cells -> {0, 1}]
BY DEF Trees

LeftSet(t, n, v) == [t EXCEPT !.l[n] = v]
RightSet(t, n, v) == [t EXCEPT !.r[n] = v]
ParentSet(t, n, v) == [t EXCEPT !.p[n] = v]
RootSet(t, n) == [t EXCEPT !.root = n]

LEMMA SetLeft ==
    ASSUME NEW t \in Trees, NEW n \in Cells, NEW v \in Links, NEW u, u = LeftSet(t, n, v)
    PROVE  /\ u \in Trees /\ u.l = [t.l EXCEPT ![n] = v]
           /\ u.root = t.root /\ u.r = t.r /\ u.p = t.p /\ u.c = t.c
<1>1. PICK f : f = [t.l EXCEPT ![n] = v]
  OBVIOUS
<1>2. f \in [Cells -> Links]
  BY <1>1, TreeFields
<1>3. u = [root |-> t.root, l |-> f, r |-> t.r, p |-> t.p, c |-> t.c]
  BY <1>1, TreeFields DEF LeftSet
<1>4. u \in Trees
  BY <1>2, <1>3, TreeFields DEF Trees
<1> QED BY <1>1, <1>3, <1>4

LEMMA SetRight ==
    ASSUME NEW t \in Trees, NEW n \in Cells, NEW v \in Links, NEW u, u = RightSet(t, n, v)
    PROVE  /\ u \in Trees /\ u.r = [t.r EXCEPT ![n] = v]
           /\ u.root = t.root /\ u.l = t.l /\ u.p = t.p /\ u.c = t.c
<1>1. PICK f : f = [t.r EXCEPT ![n] = v]
  OBVIOUS
<1>2. f \in [Cells -> Links]
  BY <1>1, TreeFields
<1>3. u = [root |-> t.root, l |-> t.l, r |-> f, p |-> t.p, c |-> t.c]
  BY <1>1, TreeFields DEF RightSet
<1>4. u \in Trees
  BY <1>2, <1>3, TreeFields DEF Trees
<1> QED BY <1>1, <1>3, <1>4

LEMMA SetParent ==
    ASSUME NEW t \in Trees, NEW n \in Cells, NEW v \in Links, NEW u, u = ParentSet(t, n, v)
    PROVE  /\ u \in Trees /\ u.p = [t.p EXCEPT ![n] = v]
           /\ u.root = t.root /\ u.l = t.l /\ u.r = t.r /\ u.c = t.c
<1>1. PICK f : f = [t.p EXCEPT ![n] = v]
  OBVIOUS
<1>2. f \in [Cells -> Links]
  BY <1>1, TreeFields
<1>3. u = [root |-> t.root, l |-> t.l, r |-> t.r, p |-> f, c |-> t.c]
  BY <1>1, TreeFields DEF ParentSet
<1>4. u \in Trees
  BY <1>2, <1>3, TreeFields DEF Trees
<1> QED BY <1>1, <1>3, <1>4

LEMMA SetRoot ==
    ASSUME NEW t \in Trees, NEW n \in Cells, NEW u, u = RootSet(t, n)
    PROVE  /\ u \in Trees /\ u.root = n
           /\ u.l = t.l /\ u.r = t.r /\ u.p = t.p /\ u.c = t.c
<1>1. u = [root |-> n, l |-> t.l, r |-> t.r, p |-> t.p, c |-> t.c]
  BY TreeFields DEF RootSet
<1>2. u \in Trees
  BY <1>1, TreeFields DEF Trees
<1> QED BY <1>1, <1>2

PaintEdit(t, u, n, v) ==
    /\ u \in Trees /\ u.c = [t.c EXCEPT ![n] = v]
    /\ u.root = t.root /\ u.l = t.l /\ u.r = t.r /\ u.p = t.p

LEMMA SetColor ==
    ASSUME NEW t \in Trees, NEW n \in Cells, NEW v \in {0, 1}
    PROVE  PaintEdit(t, Paint(t, n, v), n, v)
<1>1. PICK f : f = [t.c EXCEPT ![n] = v]
  OBVIOUS
<1>2. f \in [Cells -> {0, 1}]
  BY <1>1, TreeFields
<1>3. Paint(t, n, v) = [root |-> t.root, l |-> t.l, r |-> t.r, p |-> t.p, c |-> f]
  BY <1>1, TreeFields DEF Paint
<1>4. Paint(t, n, v) \in Trees
  BY <1>2, <1>3, TreeFields DEF Trees
<1> QED BY <1>1, <1>3, <1>4 DEF PaintEdit

\* What setting one pointer does: a parent link (unless n is the sentinel), a child
\* link, and whatever points at a from above.
ParentEdit(t, u, n, v) ==
    /\ u \in Trees /\ u.root = t.root /\ u.l = t.l /\ u.r = t.r /\ u.c = t.c
    /\ \A a \in Cells : u.p[a] = IF a = n /\ n # Nil THEN v ELSE t.p[a]

ChildEdit(t, u, e, n, v) ==
    /\ u \in Trees /\ u.root = t.root /\ u.p = t.p /\ u.c = t.c
    /\ \A a \in Cells, d \in Sides :
         Child(u, a, d) = IF a = n /\ d = e THEN v ELSE Child(t, a, d)

ReplaceEdit(t, u, a, b, q) ==
    /\ u \in Trees /\ u.root = IF q = Null THEN b ELSE t.root
    /\ u.p = t.p /\ u.c = t.c
    /\ \A e \in Cells, d \in Sides :
         Child(u, e, d) = IF e = q /\ Child(t, e, d) = a THEN b ELSE Child(t, e, d)

LEMMA AdoptEffect ==
    ASSUME NEW t \in Trees, NEW n \in Cells, NEW v \in Links
    PROVE  ParentEdit(t, Adopt(t, n, v), n, v)
<1>0. PICK u : u = Adopt(t, n, v)
  OBVIOUS
<1>1. CASE n = Nil
  BY <1>1 DEF Adopt, ParentEdit
<1>2. CASE n # Nil
  <2>1. u = ParentSet(t, n, v)
    BY <1>0, <1>2 DEF Adopt, ParentSet
  <2>2. /\ u \in Trees /\ u.p = [t.p EXCEPT ![n] = v]
        /\ u.root = t.root /\ u.l = t.l /\ u.r = t.r /\ u.c = t.c
    BY <2>1, SetParent
  <2>3. ParentEdit(t, u, n, v)
    BY <1>2, <2>2, TreeFields DEF ParentEdit
  <2> QED BY <1>0, <2>3
<1> QED BY <1>1, <1>2

ChildSet(t, e, n, v) == IF e = "left" THEN LeftSet(t, n, v) ELSE RightSet(t, n, v)

LEMMA SetChild ==
    ASSUME NEW t \in Trees, NEW n \in Cells, NEW v \in Links, NEW e \in Sides
    PROVE  ChildEdit(t, ChildSet(t, e, n, v), e, n, v)
<1>0. PICK u : u = ChildSet(t, e, n, v)
  OBVIOUS
<1>1. CASE e = "left"
  <2>1. u = LeftSet(t, n, v)
    BY <1>0, <1>1 DEF ChildSet
  <2>2. /\ u \in Trees /\ u.l = [t.l EXCEPT ![n] = v]
        /\ u.root = t.root /\ u.r = t.r /\ u.p = t.p /\ u.c = t.c
    BY <2>1, SetLeft
  <2>3. ChildEdit(t, u, e, n, v)
    BY <1>1, <2>2, TreeFields DEF Child, Sides, ChildEdit
  <2> QED BY <1>0, <2>3
<1>2. CASE e = "right"
  <2>1. u = RightSet(t, n, v)
    BY <1>0, <1>2 DEF ChildSet
  <2>2. /\ u \in Trees /\ u.r = [t.r EXCEPT ![n] = v]
        /\ u.root = t.root /\ u.l = t.l /\ u.p = t.p /\ u.c = t.c
    BY <2>1, SetRight
  <2>3. ChildEdit(t, u, e, n, v)
    BY <1>2, <2>2, TreeFields DEF Child, Sides, ChildEdit
  <2> QED BY <1>0, <2>3
<1> QED BY <1>1, <1>2 DEF Sides

\* a hangs below its parent q on one side only, or nowhere when q is Null.
HangsOn(t, a, q) ==
    /\ q = t.p[a]
    /\ q # Null => q \in Nodes /\ \E d \in Sides : Child(t, q, d) = a /\ Child(t, q, Far(d)) # a

LEMMA ReplaceEffect ==
    ASSUME NEW t \in Trees, NEW a \in Nodes, NEW b \in Cells, NEW q, HangsOn(t, a, q)
    PROVE  ReplaceEdit(t, Replace(t, a, b), a, b, q)
<1>0. PICK u : u = Replace(t, a, b)
  OBVIOUS
<1>1. Null \notin Cells /\ b \in Links /\ Nodes \subseteq Cells
  BY NodeTypes DEF Cells, Links
<1>2. CASE q = Null
  <2>1. u = RootSet(t, b)
    BY <1>0, <1>2 DEF Replace, HangsOn, RootSet
  <2>2. /\ u \in Trees /\ u.root = b
        /\ u.l = t.l /\ u.r = t.r /\ u.p = t.p /\ u.c = t.c
    BY <2>1, SetRoot
  <2>3. ReplaceEdit(t, u, a, b, q)
    BY <1>1, <1>2, <2>2 DEF Child, ReplaceEdit
  <2> QED BY <1>0, <2>3
<1>3. CASE q # Null
  <2>1. PICK e \in Sides : Child(t, q, e) = a /\ Child(t, q, Far(e)) # a
    BY <1>3 DEF HangsOn
  <2>2. u = ChildSet(t, e, q, b)
    BY <1>0, <1>3, <2>1 DEF Replace, HangsOn, Child, Far, Sides, ChildSet, LeftSet, RightSet
  <2>3. q \in Cells
    BY <1>1, <1>3 DEF HangsOn
  <2>4. ChildEdit(t, u, e, q, b)
    BY <1>1, <2>2, <2>3, SetChild
  <2>5. \A d \in Sides : Child(t, q, d) = a <=> d = e
    BY <2>1, SideFacts
  <2>6. ReplaceEdit(t, u, a, b, q)
    BY <1>3, <2>4, <2>5 DEF ChildEdit, ReplaceEdit
  <2> QED BY <1>0, <2>6
<1> QED BY <1>2, <1>3

\* A rotation at n to the side `near`: its other child m takes its place below its
\* parent q, and n adopts m's child k on that side.
RotateEdit(t, u, near, n, m, k, q) ==
    /\ u \in Trees /\ u.c = t.c /\ u.root = IF q = Null THEN m ELSE t.root
    /\ \A a \in Cells, d \in Sides :
         Child(u, a, d) = IF a = n /\ d = Far(near) THEN k
                          ELSE IF a = m /\ d = near THEN n
                          ELSE IF a = q /\ Child(t, a, d) = n THEN m
                          ELSE Child(t, a, d)
    /\ \A a \in Cells : u.p[a] = IF a = m THEN q ELSE IF a = n THEN m
                                 ELSE IF a = k /\ k # Nil THEN n ELSE t.p[a]

LEMMA RotateEffect ==
    ASSUME NEW t \in Trees, NEW near \in Sides, NEW n \in Nodes, NEW m \in Nodes, n # m,
           m = Child(t, n, Far(near)), NEW k \in Cells, k = Child(t, m, near), k # n, k # m,
           NEW q, HangsOn(t, n, q), q # n, q # m
    PROVE  RotateEdit(t, Rotate(t, n, near), near, n, m, k, q)
<1>u. PICK u : u = Rotate(t, n, near)
  OBVIOUS
<1>0. /\ n \in Cells /\ m \in Cells /\ k \in Links /\ n \in Links /\ m \in Links /\ q \in Links
      /\ Far(near) \in Sides /\ Null \notin Cells /\ q = t.p[n] /\ Far(near) # near
  BY NodeTypes, SideFacts DEF Cells, Links, HangsOn
<1>2. PICK ta : ta = ChildSet(t, Far(near), n, k)
  OBVIOUS
<1>3. ChildEdit(t, ta, Far(near), n, k)
  BY <1>0, <1>2, SetChild
<1>a. ta \in Trees
  BY <1>3 DEF ChildEdit
<1>4. PICK tb : tb = Adopt(ta, k, n)
  OBVIOUS
<1>5. ParentEdit(ta, tb, k, n)
  BY <1>0, <1>a, <1>4, AdoptEffect
<1>6. PICK tc : tc = ParentSet(tb, m, q)
  OBVIOUS
<1>7. /\ tc \in Trees /\ tc.p = [tb.p EXCEPT ![m] = q] /\ tc.root = t.root
      /\ tc.l = ta.l /\ tc.r = ta.r /\ tc.c = t.c
  BY <1>0, <1>3, <1>5, <1>6, SetParent DEF ParentEdit, ChildEdit
<1>8. \A a \in Cells, d \in Sides : Child(tc, a, d) = Child(ta, a, d)
  BY <1>7 DEF Child
<1>9. \A a \in Cells : tc.p[a] = IF a = m THEN q ELSE IF a = k /\ k # Nil THEN n ELSE t.p[a]
  BY <1>0, <1>3, <1>5, <1>7, TreeFields DEF ParentEdit, ChildEdit
<1>10. HangsOn(tc, n, q)
  <2>1. q = tc.p[n]
    BY <1>0, <1>9
  <2>2. CASE q # Null
    <3>1. PICK d \in Sides : q \in Nodes /\ Child(t, q, d) = n /\ Child(t, q, Far(d)) # n
      BY <2>2 DEF HangsOn
    <3>2. q \in Cells /\ Far(d) \in Sides
      BY <3>1, SideFacts DEF Cells
    <3>3. Child(tc, q, d) = n /\ Child(tc, q, Far(d)) # n
      BY <1>3, <1>8, <3>1, <3>2 DEF ChildEdit
    <3> QED BY <2>1, <3>1, <3>3 DEF HangsOn
  <2> QED BY <2>1, <2>2 DEF HangsOn
<1>11. PICK td : td = Replace(tc, n, m)
  OBVIOUS
<1>12. ReplaceEdit(tc, td, n, m, q)
  BY <1>0, <1>7, <1>10, <1>11, ReplaceEffect
<1>b. td \in Trees
  BY <1>12 DEF ReplaceEdit
<1>13. PICK te : te = ChildSet(td, near, m, n)
  OBVIOUS
<1>14. ChildEdit(td, te, near, m, n)
  BY <1>0, <1>b, <1>13, SetChild
<1> USE DEF ChildEdit, ParentEdit, ReplaceEdit
<1>15. PICK tf : tf = ParentSet(te, n, m)
  OBVIOUS
<1>16. /\ tf \in Trees /\ tf.p = [te.p EXCEPT ![n] = m] /\ tf.root = te.root
       /\ tf.l = te.l /\ tf.r = te.r /\ tf.c = t.c
  BY <1>0, <1>7, <1>12, <1>14, <1>15, SetParent
<1>17. u = tf
  <2>1. CASE near = "left"
    <3>1. ta = [t EXCEPT !.r[n] = k] /\ te = [td EXCEPT !.l[m] = n]
      BY <1>2, <1>13, <2>1 DEF ChildSet, Far, LeftSet, RightSet
    <3>2. tc = [tb EXCEPT !.p[m] = t.p[n]] /\ tf = [te EXCEPT !.p[n] = m]
      BY <1>0, <1>6, <1>15 DEF ParentSet
    <3>3. m = t.r[n] /\ k = t.l[m]
      BY <2>1 DEF Child, Far
    <3>4. u = RotateLeft(t, n)
      BY <1>u, <2>1 DEF Rotate
    <3> QED BY ONLY <1>4, <1>11, <3>1, <3>2, <3>3, <3>4 DEF RotateLeft
  <2>2. CASE near = "right"
    <3>1. ta = [t EXCEPT !.l[n] = k] /\ te = [td EXCEPT !.r[m] = n]
      BY <1>2, <1>13, <2>2 DEF ChildSet, Far, LeftSet, RightSet
    <3>2. tc = [tb EXCEPT !.p[m] = t.p[n]] /\ tf = [te EXCEPT !.p[n] = m]
      BY <1>0, <1>6, <1>15 DEF ParentSet
    <3>3. m = t.l[n] /\ k = t.r[m]
      BY <2>2 DEF Child, Far
    <3>4. u = RotateRight(t, n)
      BY <1>u, <2>2 DEF Rotate
    <3> QED BY ONLY <1>4, <1>11, <3>1, <3>2, <3>3, <3>4 DEF RotateRight
  <2> QED BY <2>1, <2>2 DEF Sides
<1>18. \A a \in Cells : tf.p[a] = IF a = m THEN q ELSE IF a = n THEN m
                                 ELSE IF a = k /\ k # Nil THEN n ELSE t.p[a]
  BY <1>0, <1>9, <1>12, <1>14, <1>16, TreeFields
<1>19. ASSUME NEW a \in Cells, NEW d \in Sides
       PROVE  Child(tf, a, d) = IF a = n /\ d = Far(near) THEN k
                                ELSE IF a = m /\ d = near THEN n
                                ELSE IF a = q /\ Child(t, a, d) = n THEN m
                                ELSE Child(t, a, d)
  <2>1. Child(tf, a, d) = Child(te, a, d)
    BY <1>16 DEF Child
  <2> QED BY <1>0, <1>3, <1>8, <1>12, <1>14, <2>1
<1>20. tf \in Trees /\ tf.c = t.c /\ tf.root = IF q = Null THEN m ELSE t.root
  BY <1>7, <1>12, <1>14, <1>16
<1>21. RotateEdit(t, u, near, n, m, k, q)
  BY <1>17, <1>18, <1>19, <1>20 DEF RotateEdit
<1> QED BY <1>u, <1>21
-----------------------------------------------------------------------------
(* Rotations and colours leave a search tree a search tree. *)

LEMMA BothChildren ==
    ASSUME NEW t, NEW n, NEW s, NEW d \in Sides
    PROVE  s[t.l[n]] \cup s[t.r[n]] = s[Child(t, n, d)] \cup s[Child(t, n, Far(d))]
BY DEF Child, Far, Sides

LEMMA TreeTypes ==
    ASSUME NEW t, NEW T, NEW s, IsTree(t, T, s)
    PROVE  /\ t \in Trees /\ T \subseteq Nodes /\ T \subseteq Cells /\ T \subseteq Links
           /\ Nil \notin T /\ Null \notin T /\ Nil # Null
           /\ s \in [Cells -> SUBSET T] /\ \A e \in T : e \in s[e]
<1>1. t \in Trees /\ T \subseteq Nodes /\ s \in [Cells -> SUBSET T]
  BY DEF IsTree
<1>2. T \subseteq Cells /\ T \subseteq Links /\ Nil \notin T /\ Null \notin T /\ Nil # Null
  BY <1>1, NodeTypes DEF Cells, Links
<1>3. \A e \in T : e \in s[e]
  BY DEF IsTree
<1> QED BY <1>1, <1>2, <1>3

\* What is known of the child c of n on side d.
ChildSound(t, T, s, n, d, c) ==
    /\ n \in Nodes /\ n \in Cells /\ n # Nil /\ n \in s[n]
    /\ c \in T \cup {Nil} /\ c \in Cells
    /\ s[c] \subseteq s[n] /\ n \notin s[c] /\ s[c] \subseteq T /\ T \subseteq Nodes
    /\ \A m \in s[c] : On(d, m, n)
    /\ c # Nil => c \in T /\ c \in s[c] /\ t.p[c] = n /\ c # n /\ c # t.root
    /\ s[c] \cap s[Child(t, n, Far(d))] = {}
    /\ s[n] = {n} \cup s[c] \cup s[Child(t, n, Far(d))]

LEMMA ChildFacts ==
    ASSUME NEW t, NEW T, NEW s, IsTree(t, T, s), NEW n \in T, NEW d \in Sides
    PROVE  ChildSound(t, T, s, n, d, Child(t, n, d))
<1>0. PICK c : c = Child(t, n, d)
  OBVIOUS
<1>1. n \in Nodes /\ n \in Cells /\ n # Nil /\ T \subseteq Nodes /\ Null \notin T /\ Far(d) \in Sides
  BY NodeTypes, SideFacts DEF IsTree, Cells
<1>2. \A e \in T : e \in s[e]
  BY DEF IsTree
<1>3. /\ c \in T \cup {Nil} /\ (c # Nil => t.p[c] = n)
      /\ (\A m \in s[c] : On(d, m, n)) /\ (\A m \in s[Child(t, n, Far(d))] : On(Far(d), m, n))
  BY <1>0, <1>1 DEF IsTree
<1>4. c \in Cells /\ s[c] \subseteq T
  BY <1>1, <1>3 DEF IsTree, Cells
<1>5. s[n] = {n} \cup s[c] \cup s[Child(t, n, Far(d))]
  <2>1. s[n] = {n} \cup (s[t.l[n]] \cup s[t.r[n]])
    BY DEF IsTree
  <2>2. s[t.l[n]] \cup s[t.r[n]] = s[Child(t, n, d)] \cup s[Child(t, n, Far(d))]
    BY BothChildren
  <2> QED BY <1>0, <2>1, <2>2
<1>6. n \notin s[c]
  BY <1>1, <1>3, OnOrdered
<1>7. s[c] \cap s[Child(t, n, Far(d))] = {}
  <2> SUFFICES ASSUME NEW m \in s[c], m \in s[Child(t, n, Far(d))] PROVE FALSE
    OBVIOUS
  <2>1. m \in Nodes /\ On(d, m, n) /\ On(Far(d), m, n)
    BY <1>1, <1>3, <1>4
  <2> QED BY <1>1, <2>1, OnOrdered
<1>8. c # Nil => c # t.root
  <2>1. t.root # Nil => t.p[t.root] = Null
    BY DEF IsTree
  <2> QED BY <1>1, <1>3, <2>1
<1>9. c # Nil => c # n
  BY <1>2, <1>3, <1>6
<1> QED BY <1>0, <1>1, <1>2, <1>3, <1>4, <1>5, <1>6, <1>7, <1>8, <1>9 DEF ChildSound

LEMMA Hanging ==
    ASSUME NEW t, NEW T, NEW s, IsTree(t, T, s), NEW n \in T
    PROVE  /\ HangsOn(t, n, t.p[n]) /\ t.p[n] # n /\ t.p[n] \in T \cup {Null}
           /\ t.p[n] = Null <=> t.root = n
<1>1. n \in Nodes /\ n # Nil /\ Null \notin T /\ T \subseteq Nodes
  BY TreeTypes
<1>2. CASE n = t.root
  BY <1>1, <1>2 DEF IsTree, HangsOn
<1>3. CASE n # t.root
  <2>1. PICK q \in T, d \in Sides : q = t.p[n] /\ Child(t, q, d) = n
    BY <1>3 DEF IsTree
  <2>2. /\ n # q /\ n \in s[Child(t, q, d)]
        /\ s[Child(t, q, d)] \cap s[Child(t, q, Far(d))] = {}
    BY <1>1, <2>1, ChildFacts DEF ChildSound
  <2>3. Child(t, q, Far(d)) # n
    BY <2>1, <2>2
  <2> QED BY <1>1, <1>3, <2>1, <2>2, <2>3 DEF HangsOn
<1> QED BY <1>2, <1>3

\* rotate_left, rotate_right: n sinks below its other child m, and the tree stays sorted.
Rotated(t, u, T, n, m, near) ==
    /\ \E s : IsTree(u, T, s)
    /\ u.c = t.c /\ u.root = IF t.root = n THEN m ELSE t.root
    /\ m \in T /\ u.p[n] = m /\ u.p[m] = t.p[n] /\ Child(u, m, near) = n
    /\ Child(u, n, near) = Child(t, n, near)
    /\ Child(u, m, Far(near)) = Child(t, m, Far(near))
    /\ Child(u, n, Far(near)) = Child(t, m, near)
    /\ \A e \in T, d \in Sides : Child(t, e, d) = n => Child(u, e, d) = m
    /\ \A e \in T, d \in Sides :
         e # n /\ e # m /\ Child(t, e, d) # n => Child(u, e, d) = Child(t, e, d)

LEMMA RotateKeeps ==
    ASSUME NEW t, NEW T, NEW s, IsTree(t, T, s), NEW n \in T, NEW near \in Sides,
           NEW m, m = Child(t, n, Far(near)), m # Nil
    PROVE  Rotated(t, Rotate(t, n, near), T, n, m, near)
<1>0. PICK u : u = Rotate(t, n, near)
  OBVIOUS
<1>1. PICK far \in Sides : far = Far(near) /\ near = Far(far) /\ near # far
  BY SideFacts
<1>2. PICK k, a, b, q : /\ k = Child(t, m, near) /\ b = Child(t, m, far)
                        /\ a = Child(t, n, near) /\ q = t.p[n]
  OBVIOUS
<1>3. /\ t \in Trees /\ T \subseteq Nodes /\ T \subseteq Cells /\ T \subseteq Links
      /\ Nil \notin T /\ Null \notin T /\ Nil # Null /\ s \in [Cells -> SUBSET T]
      /\ s[Nil] = {} /\ Nil \in Cells
  <2>1. s[Nil] = {} /\ Nil \in Cells
    BY DEF IsTree, Cells
  <2> QED BY <2>1, TreeTypes
<1>4. /\ m \in T /\ m \in s[m] /\ t.p[m] = n /\ m # n /\ m # t.root /\ n \in s[n] /\ n \notin s[m]
      /\ (\A x_ \in s[m] : On(far, x_, n)) /\ s[m] \subseteq T
  <2>1. ChildSound(t, T, s, n, far, m)
    BY <1>1, ChildFacts
  <2> QED BY <2>1 DEF ChildSound
<1>5. /\ a \in T \cup {Nil} /\ (\A x_ \in s[a] : On(near, x_, n)) /\ n \notin s[a]
      /\ (a # Nil => a \in s[a] /\ t.p[a] = n /\ a # n /\ a # t.root)
      /\ s[a] \cap s[m] = {} /\ s[n] = {n} \cup s[a] \cup s[m] /\ s[a] \subseteq T
  <2>1. ChildSound(t, T, s, n, near, a)
    BY <1>1, <1>2, ChildFacts
  <2> QED BY <1>1, <2>1 DEF ChildSound
<1>6. /\ k \in T \cup {Nil} /\ (\A x_ \in s[k] : On(near, x_, m)) /\ m \notin s[k]
      /\ (k # Nil => k \in s[k] /\ t.p[k] = m /\ k # m /\ k # t.root)
      /\ s[k] \cap s[b] = {} /\ s[m] = {m} \cup s[k] \cup s[b] /\ s[k] \subseteq T
  <2>1. ChildSound(t, T, s, m, near, k)
    BY <1>1, <1>2, <1>4, ChildFacts
  <2> QED BY <1>1, <1>2, <2>1 DEF ChildSound
<1>7. /\ b \in T \cup {Nil} /\ (\A x_ \in s[b] : On(far, x_, m)) /\ m \notin s[b]
      /\ (b # Nil => b \in s[b] /\ t.p[b] = m /\ b # m) /\ s[b] \subseteq T
  <2>1. ChildSound(t, T, s, m, far, b)
    BY <1>1, <1>2, <1>4, ChildFacts
  <2> QED BY <1>1, <2>1 DEF ChildSound
<1>8. /\ HangsOn(t, n, q) /\ q # n /\ q \in T \cup {Null} /\ (q = Null <=> t.root = n)
  BY <1>2, Hanging
<1>9. k # n /\ b # n /\ a # m /\ q # m
  <2>1. k # n /\ b # n /\ a # m
    BY <1>3, <1>4, <1>5, <1>6, <1>7
  <2>2. CASE q = m
    <3>1. PICK d \in Sides : Child(t, q, d) = n
      BY <1>3, <1>4, <1>8, <2>2 DEF HangsOn
    <3>2. n = k \/ n = b
      BY <1>1, <1>2, <2>2, <3>1, SideFacts
    <3> QED BY <2>1, <3>2
  <2> QED BY <2>1, <2>2
<1>10. /\ u \in Trees /\ u.c = t.c /\ u.root = IF q = Null THEN m ELSE t.root
       /\ \A e \in Cells, d \in Sides :
            Child(u, e, d) = IF e = n /\ d = far THEN k ELSE IF e = m /\ d = near THEN n
                             ELSE IF e = q /\ Child(t, e, d) = n THEN m ELSE Child(t, e, d)
       /\ \A e \in Cells : u.p[e] = IF e = m THEN q ELSE IF e = n THEN m
                                    ELSE IF e = k /\ k # Nil THEN n ELSE t.p[e]
  <2>1. n \in Nodes /\ m \in Nodes /\ k \in Cells
    BY <1>3, <1>4, <1>6
  <2>2. RotateEdit(t, u, near, n, m, k, q)
    BY <1>0, <1>1, <1>2, <1>3, <1>4, <1>6, <1>8, <1>9, <2>1, RotateEffect
  <2> QED BY <1>1, <2>2 DEF RotateEdit
<1>11. PICK s2 : s2 = [s EXCEPT ![m] = s[n], ![n] = {n} \cup s[a] \cup s[k]]
  OBVIOUS
<1>12. /\ s2[m] = s[n] /\ s2[n] = {n} \cup s[a] \cup s[k]
       /\ \A e \in Cells : e # m /\ e # n => s2[e] = s[e]
  BY <1>3, <1>4, <1>11
<1>13. s2 \in [Cells -> SUBSET T]
  BY <1>3, <1>4, <1>5, <1>6, <1>11
<1>14. u.root \in T /\ s2[Nil] = {} /\ s2[u.root] = T /\ u.p[u.root] = Null
  <2>1. CASE q = Null
    BY <1>3, <1>4, <1>8, <1>10, <1>12, <2>1 DEF IsTree
  <2>2. CASE q # Null
    BY <1>3, <1>4, <1>6, <1>8, <1>10, <1>12, <2>2 DEF IsTree
  <2> QED BY <2>1, <2>2
<1>15. ASSUME NEW e \in T
       PROVE  /\ s2[e] = {e} \cup s2[u.l[e]] \cup s2[u.r[e]]
              /\ \A d \in Sides : /\ Child(u, e, d) \in T \cup {Nil}
                                  /\ Child(u, e, d) # Nil => u.p[Child(u, e, d)] = e
                                  /\ \A x_ \in s2[Child(u, e, d)] : On(d, x_, e)
  <2> SUFFICES /\ s2[e] = {e} \cup s2[Child(u, e, near)] \cup s2[Child(u, e, far)]
               /\ \A d \in Sides : /\ Child(u, e, d) \in T \cup {Nil}
                                   /\ Child(u, e, d) # Nil => u.p[Child(u, e, d)] = e
                                   /\ \A x_ \in s2[Child(u, e, d)] : On(d, x_, e)
    <3>1. s2[u.l[e]] \cup s2[u.r[e]] = s2[Child(u, e, near)] \cup s2[Child(u, e, far)]
      BY <1>1, BothChildren
    <3> QED BY <3>1
  <2>1. CASE e = n
    <3>1. Child(u, n, near) = a /\ Child(u, n, far) = k
      BY <1>1, <1>2, <1>3, <1>4, <1>8, <1>10
    <3>2. s2[a] = s[a] /\ s2[k] = s[k]
      BY <1>3, <1>5, <1>6, <1>9, <1>12
    <3>3. (a # Nil => u.p[a] = n) /\ (k # Nil => u.p[k] = n)
      <4>1. a # Nil => a # k
        BY <1>5, <1>6
      <4> QED BY <1>3, <1>5, <1>6, <1>9, <1>10, <4>1
    <3>4. \A x_ \in s[k] : On(far, x_, n)
      BY <1>4, <1>6
    <3>5. \A d \in Sides : d = near \/ d = far
      BY <1>1, SideFacts
    <3> QED BY <1>5, <1>6, <1>12, <2>1, <3>1, <3>2, <3>3, <3>4, <3>5
  <2>2. CASE e = m
    <3>1. Child(u, m, near) = n /\ Child(u, m, far) = b
      BY <1>1, <1>2, <1>3, <1>4, <1>9, <1>10
    <3>2. s2[b] = s[b]
      BY <1>3, <1>4, <1>7, <1>9, <1>12
    <3>3. u.p[n] = m /\ (b # Nil => u.p[b] = m)
      <4>1. b # Nil => b # k
        BY <1>6, <1>7
      <4> QED BY <1>3, <1>4, <1>7, <1>9, <1>10, <4>1
    <3>4. On(near, n, m)
      BY <1>1, <1>3, <1>4, OnOrdered
    <3>5. \A x_ \in s[a] : On(near, x_, m)
      BY <1>3, <1>4, <1>5, <3>4, OnOrdered
    <3>6. \A x_ \in s2[n] : On(near, x_, m)
      BY <1>6, <1>12, <3>4, <3>5
    <3>7. \A d \in Sides : d = near \/ d = far
      BY <1>1, SideFacts
    <3>8. s2[m] = {m} \cup s2[n] \cup s2[b]
      BY <1>5, <1>6, <1>12, <3>2
    <3> QED BY <1>4, <1>7, <2>2, <3>1, <3>2, <3>3, <3>6, <3>7, <3>8
  <2>3. CASE e # n /\ e # m
    <3>1. ASSUME NEW d \in Sides, NEW c, c = Child(t, e, d), NEW c2, c2 = Child(u, e, d)
          PROVE  /\ s2[c2] = s[c] /\ c2 \in T \cup {Nil}
                 /\ (c2 # Nil => u.p[c2] = e) /\ (\A x_ \in s2[c2] : On(d, x_, e))
      <4>1. /\ c \in T \cup {Nil} /\ (c # Nil => t.p[c] = e) /\ (\A x_ \in s[c] : On(d, x_, e))
        BY <3>1 DEF IsTree
      <4>2. c # m
        BY <1>4, <2>3, <4>1
      <4>3. CASE c = n
        <5>0. e = q /\ e \in Cells /\ Child(t, e, d) = n
          BY <1>2, <1>3, <3>1, <4>1, <4>3
        <5>1. e = q /\ c2 = m
          BY <1>10, <2>3, <3>1, <5>0
        <5> QED BY <1>3, <1>4, <1>10, <1>12, <4>1, <4>3, <5>1
      <4>4. CASE c # n
        <5>1. c2 = c
          BY <1>3, <1>10, <2>3, <3>1, <4>4
        <5>2. c # Nil => c # k
          BY <1>6, <2>3, <4>1
        <5>3. s2[c] = s[c]
          BY <1>3, <1>12, <4>1, <4>2, <4>4
        <5>4. c # Nil => u.p[c] = e
          BY <1>3, <1>10, <4>1, <4>2, <4>4, <5>2
        <5> QED BY <4>1, <5>1, <5>3, <5>4
      <4> QED BY <4>3, <4>4
    <3>2. s[e] = {e} \cup s[Child(t, e, near)] \cup s[Child(t, e, far)]
      BY <1>1, ChildFacts DEF ChildSound
    <3>3. s2[e] = s[e]
      BY <1>3, <1>12, <2>3
    <3> QED BY <3>1, <3>2, <3>3
  <2> QED BY <2>1, <2>2, <2>3
<1>16. ASSUME NEW e \in T \ {u.root}
       PROVE  u.p[e] \in T /\ \E d \in Sides : Child(u, u.p[e], d) = e
  <2>1. CASE e = m
    <3>1. q # Null
      BY <1>10, <1>16, <2>1
    <3>2. PICK d \in Sides : Child(t, q, d) = n
      BY <1>8, <3>1 DEF HangsOn
    <3>3. u.p[e] = q /\ q \in T
      BY <1>3, <1>4, <1>8, <1>10, <2>1, <3>1
    <3>4. Child(u, q, d) = m
      BY <1>3, <1>8, <1>9, <1>10, <3>2, <3>3
    <3> QED BY <2>1, <3>3, <3>4
  <2>2. CASE e = n
    BY <1>1, <1>3, <1>4, <1>10, <2>2
  <2>3. CASE e = k
    BY <1>1, <1>3, <1>4, <1>6, <1>9, <1>10, <2>3
  <2>4. CASE e # m /\ e # n /\ e # k
    <3>1. u.p[e] = t.p[e]
      BY <1>3, <1>10, <2>4
    <3>2. e # t.root
      BY <1>8, <1>10, <1>16, <2>4
    <3>3. PICK f \in T, d \in Sides : f = t.p[e] /\ Child(t, f, d) = e
      BY <3>2 DEF IsTree
    <3>4. Child(u, f, d) = e
      <4>1. f \in Cells /\ ~(f = n /\ d = far) /\ ~(f = m /\ d = near) /\ Child(t, f, d) # n
        BY <1>1, <1>2, <1>3, <2>4, <3>3
      <4> QED BY <1>10, <3>3, <4>1
    <3> QED BY <3>1, <3>3, <3>4
  <2> QED BY <2>1, <2>2, <2>3, <2>4
<1>17. IsTree(u, T, s2)
  BY <1>3, <1>10, <1>13, <1>14, <1>15, <1>16 DEF IsTree
<1>18. /\ u.p[n] = m /\ u.p[m] = q /\ Child(u, m, near) = n
       /\ Child(u, n, near) = a /\ Child(u, m, far) = b /\ Child(u, n, far) = k
  BY <1>1, <1>2, <1>3, <1>4, <1>8, <1>9, <1>10
<1>19. \A e \in T, d \in Sides : Child(t, e, d) = n => Child(u, e, d) = m
  <2> SUFFICES ASSUME NEW e \in T, NEW d \in Sides, Child(t, e, d) = n PROVE Child(u, e, d) = m
    OBVIOUS
  <2>1. e = q
    BY <1>2, <1>3 DEF IsTree
  <2> QED BY <1>3, <1>8, <1>9, <1>10, <2>1
<1>20. \A e \in T, d \in Sides :
         e # n /\ e # m /\ Child(t, e, d) # n => Child(u, e, d) = Child(t, e, d)
  BY <1>3, <1>10
<1>21. Rotated(t, u, T, n, m, near)
  BY <1>1, <1>2, <1>4, <1>8, <1>10, <1>17, <1>18, <1>19, <1>20 DEF Rotated
<1> QED BY <1>0, <1>21

Repainted(t, u, T, s, n, v) ==
    /\ IsTree(u, T, s) /\ u.c = [t.c EXCEPT ![n] = v]
    /\ u.root = t.root /\ u.p = t.p /\ \A e, d : Child(u, e, d) = Child(t, e, d)

LEMMA PaintKeeps ==
    ASSUME NEW t, NEW T, NEW s, IsTree(t, T, s), NEW n \in Cells, NEW v \in {0, 1}
    PROVE  Repainted(t, Paint(t, n, v), T, s, n, v)
<1>1. PICK u : u = Paint(t, n, v)
  OBVIOUS
<1>2. t \in Trees
  BY TreeTypes
<1>3. /\ u \in Trees /\ u.c = [t.c EXCEPT ![n] = v]
      /\ u.root = t.root /\ u.l = t.l /\ u.r = t.r /\ u.p = t.p
  BY <1>1, <1>2, SetColor DEF PaintEdit
<1>4. \A e, d : Child(u, e, d) = Child(t, e, d)
  BY <1>3 DEF Child
<1>5. IsTree(u, T, s)
  BY <1>3, <1>4 DEF IsTree
<1> QED BY <1>1, <1>3, <1>4, <1>5 DEF Repainted
-----------------------------------------------------------------------------
(* The descents: insert's to a leaf, remove's to a successor. *)

\* The keys between which everything below y lies admit n: n belongs on side d of
\* each node that has y below it on that side.
Fits(t, T, s, n, y_) ==
    \A a \in T, d \in Sides : y_ \in s[Child(t, a, d)] => On(d, n, a)

LEMMA FitsBelow ==
    ASSUME NEW t, NEW T, NEW s, IsTree(t, T, s), NEW n, NEW y_ \in T, Fits(t, T, s, n, y_),
           NEW e \in Sides, On(e, n, y_), NEW k, k = Child(t, y_, e), k # Nil
    PROVE  k \in T /\ Fits(t, T, s, n, k)
<1>1. ChildSound(t, T, s, y_, e, k)
  BY ChildFacts
<1>2. k \in T /\ t.p[k] = y_
  BY <1>1 DEF ChildSound
<1>3. ASSUME NEW a \in T, NEW d \in Sides, k \in s[Child(t, a, d)] PROVE On(d, n, a)
  <2>1. PICK c : c = Child(t, a, d)
    OBVIOUS
  <2>2. ChildSound(t, T, s, a, d, c)
    BY <2>1, ChildFacts
  <2>3. c \in T
    <3>1. s[Nil] = {}
      BY DEF IsTree
    <3> QED BY <1>3, <2>1, <2>2, <3>1 DEF ChildSound
  <2>4. CASE c = k
    <3>1. a = y_
      BY <1>2, <2>2, <2>3, <2>4, TreeTypes DEF ChildSound
    <3>2. d = e
      <4>1. s[Child(t, y_, e)] \cap s[Child(t, y_, Far(e))] = {} /\ k \in s[k]
        BY <1>1, <1>2, TreeTypes DEF ChildSound
      <4> QED BY <2>1, <2>4, <3>1, <4>1, SideFacts
    <3> QED BY <3>1, <3>2
  <2>5. CASE c # k
    <3>1. y_ \in s[c]
      BY <1>2, <1>3, <2>1, <2>3, <2>5, Subtree
    <3> QED BY <2>1, <3>1 DEF Fits
  <2> QED BY <2>4, <2>5
<1> QED BY <1>2, <1>3 DEF Fits

\* Where a descent for n that has come to an end below y_ links n as a leaf.
LEMMA LinkKeeps ==
    ASSUME NEW t, NEW T, NEW s, IsTree(t, T, s), NEW n \in Nodes \ T,
           t.l[n] = Nil, t.r[n] = Nil, NEW u, u \in Trees, NEW y_, u.p = [t.p EXCEPT ![n] = y_],
           \/ y_ = Null /\ T = {} /\ u.root = n /\ u.l = t.l /\ u.r = t.r
           \/ /\ y_ \in T /\ Fits(t, T, s, n, y_) /\ u.root = t.root
              /\ \E e \in Sides : /\ Child(t, y_, e) = Nil /\ On(e, n, y_)
                                  /\ \A a \in Cells, d \in Sides :
                                       Child(u, a, d) = IF a = y_ /\ d = e THEN n ELSE Child(t, a, d)
    PROVE  \E s2 : IsTree(u, T \cup {n}, s2)
<1>1. /\ t \in Trees /\ T \subseteq Nodes /\ T \subseteq Cells /\ Nil \notin T /\ Null \notin T
      /\ Nil # Null /\ s \in [Cells -> SUBSET T] /\ s[Nil] = {} /\ Nil \in Cells
      /\ n \in Cells /\ n # Nil /\ n # Null /\ \A e \in T : e \in s[e]
  <2>1. s[Nil] = {} /\ Nil \in Cells /\ n \in Cells
    BY DEF IsTree, Cells
  <2> QED BY <2>1, TreeTypes, NodeTypes
<1>2. u.p[n] = y_ /\ \A e \in Cells : e # n => u.p[e] = t.p[e]
  BY <1>1, TreeFields
<1>3. CASE y_ = Null /\ T = {} /\ u.root = n /\ u.l = t.l /\ u.r = t.r
  <2>1. PICK s2 : s2 = [e \in Cells |-> IF e = n THEN {n} ELSE {}]
    OBVIOUS
  <2>2. s2 \in [Cells -> SUBSET {n}] /\ s2[Nil] = {} /\ s2[n] = {n}
    BY <1>1, <2>1
  <2>3. u.l[n] = Nil /\ u.r[n] = Nil /\ \A d \in Sides : Child(u, n, d) = Nil
    BY <1>3 DEF Child
  <2> QED BY <1>1, <1>2, <1>3, <2>2, <2>3 DEF IsTree
<1>4. ASSUME y_ \in T, Fits(t, T, s, n, y_), u.root = t.root,
             NEW e \in Sides, Child(t, y_, e) = Nil, On(e, n, y_),
             \A a \in Cells, d \in Sides :
                Child(u, a, d) = IF a = y_ /\ d = e THEN n ELSE Child(t, a, d)
      PROVE  \E s2 : IsTree(u, T \cup {n}, s2)
  <2>1. PICK s2 : s2 = [a \in Cells |-> IF a = n THEN {n} ELSE IF y_ \in s[a] THEN s[a] \cup {n} ELSE s[a]]
    OBVIOUS
  <2>2. /\ s2 \in [Cells -> SUBSET (T \cup {n})] /\ s2[Nil] = {} /\ s2[n] = {n}
        /\ \A a \in T \cup {Nil} : s2[a] = IF y_ \in s[a] THEN s[a] \cup {n} ELSE s[a]
    BY <1>1, <2>1
  <2>3. /\ u.root \in T \cup {n} /\ s2[u.root] = T \cup {n} /\ u.p[u.root] = Null
    <3>1. t.root \in T \cup {Nil} /\ s[t.root] = T /\ (t.root # Nil => t.p[t.root] = Null)
      BY DEF IsTree
    <3>2. t.root # Nil
      BY <1>1, <1>4, <3>1
    <3> QED BY <1>1, <1>2, <1>4, <2>2, <3>1, <3>2
  <2>4. \A d \in Sides : Child(u, n, d) = Nil
    <3>1. \A d \in Sides : Child(t, n, d) = Nil
      BY DEF Child
    <3> QED BY <1>1, <1>4, <3>1
  <2>5. ASSUME NEW a \in T
        PROVE  /\ s2[a] = {a} \cup s2[u.l[a]] \cup s2[u.r[a]]
               /\ \A d \in Sides : /\ Child(u, a, d) \in T \cup {n} \cup {Nil}
                                   /\ Child(u, a, d) # Nil => u.p[Child(u, a, d)] = a
                                   /\ \A m \in s2[Child(u, a, d)] : On(d, m, a)
    <3>1. ASSUME NEW d \in Sides, NEW c, c = Child(t, a, d), NEW c2, c2 = Child(u, a, d)
          PROVE  /\ s2[c2] = s[c] \cup IF y_ \in s[c] \/ (a = y_ /\ d = e) THEN {n} ELSE {}
                 /\ c2 \in T \cup {n} \cup {Nil} /\ (c2 # Nil => u.p[c2] = a)
                 /\ \A m \in s2[c2] : On(d, m, a)
      <4>1. c \in T \cup {Nil} /\ (c # Nil => t.p[c] = a) /\ (\A m \in s[c] : On(d, m, a))
        BY <3>1 DEF IsTree
      <4>2. CASE a = y_ /\ d = e
        <5>1. c2 = n /\ c = Nil
          BY <1>1, <1>4, <3>1, <4>2
        <5> QED BY <1>1, <1>2, <1>4, <2>2, <4>2, <5>1
      <4>3. CASE ~(a = y_ /\ d = e)
        <5>1. c2 = c /\ c # n
          BY <1>1, <1>4, <3>1, <4>1, <4>3
        <5>2. s2[c] = IF y_ \in s[c] THEN s[c] \cup {n} ELSE s[c]
          BY <2>2, <4>1
        <5>3. y_ \in s[c] => On(d, n, a)
          BY <1>4, <3>1 DEF Fits
        <5>4. c # Nil => u.p[c] = a
          BY <1>1, <1>2, <4>1, <5>1
        <5>5. \A m \in s2[c] : On(d, m, a)
          BY <4>1, <5>2, <5>3
        <5> QED BY <4>1, <4>3, <5>1, <5>2, <5>4, <5>5
      <4> QED BY <4>2, <4>3
    <3>2. PICK f \in Sides : f = Far(e) /\ f # e
      BY SideFacts
    <3>3. s[a] = {a} \cup s[Child(t, a, e)] \cup s[Child(t, a, f)]
      BY <3>2, ChildFacts DEF ChildSound
    <3>4. s2[a] = {a} \cup s2[Child(u, a, e)] \cup s2[Child(u, a, f)]
      <4>1. s2[Child(u, a, e)] = s[Child(t, a, e)] \cup IF y_ \in s[Child(t, a, e)] \/ a = y_ THEN {n} ELSE {}
        BY <3>1
      <4>2. s2[Child(u, a, f)] = s[Child(t, a, f)] \cup IF y_ \in s[Child(t, a, f)] THEN {n} ELSE {}
        BY <3>1, <3>2
      <4>3. s2[a] = IF y_ \in s[a] THEN s[a] \cup {n} ELSE s[a]
        BY <2>2
      <4> QED BY <3>3, <4>1, <4>2, <4>3
    <3>5. s2[u.l[a]] \cup s2[u.r[a]] = s2[Child(u, a, e)] \cup s2[Child(u, a, f)]
      BY <3>2, BothChildren
    <3> QED BY <3>1, <3>4, <3>5
  <2>6. ASSUME NEW a \in T, a # u.root
        PROVE  u.p[a] \in T /\ \E d \in Sides : Child(u, u.p[a], d) = a
    <3>1. PICK q \in T, d \in Sides : q = t.p[a] /\ Child(t, q, d) = a
      BY <1>4, <2>6 DEF IsTree
    <3>2. u.p[a] = q /\ Child(u, q, d) = a
      BY <1>1, <1>2, <1>4, <3>1
    <3> QED BY <3>1, <3>2
  <2>7. u.p[n] \in T /\ \E d \in Sides : Child(u, u.p[n], d) = n
    BY <1>1, <1>2, <1>4
  <2>8. u.l[n] = Nil /\ u.r[n] = Nil
    BY <2>4 DEF Child, Sides
  <2> QED BY <1>1, <2>2, <2>3, <2>4, <2>5, <2>6, <2>7, <2>8 DEF IsTree
<1> QED BY <1>3, <1>4

\* The first of the orders behind z lies in the subtree of w, or is w.
Leads(t, s, z, w) ==
    /\ w \in s[t.r[z]]
    /\ \A m \in s[t.r[z]] : m \in s[w] \/ LeftOf(w, m)

LEMMA LeadsRight ==
    ASSUME NEW t, NEW T, NEW s, IsTree(t, T, s), NEW z \in T, t.r[z] # Nil
    PROVE  Leads(t, s, z, t.r[z])
<1>1. ChildSound(t, T, s, z, "right", t.r[z])
  <2>1. "right" \in Sides /\ Child(t, z, "right") = t.r[z]
    BY DEF Sides, Child
  <2> QED BY <2>1, ChildFacts
<1> QED BY <1>1 DEF ChildSound, Leads

LEMMA LeadsLeft ==
    ASSUME NEW t, NEW T, NEW s, IsTree(t, T, s), NEW z \in T, NEW w, Leads(t, s, z, w)
    PROVE  /\ w \in T /\ t.l[w] \in T \cup {Nil}
           /\ t.l[w] # Nil => Leads(t, s, z, t.l[w])
<1>1. PICK k, b, r : k = t.l[w] /\ b = t.r[w] /\ r = t.r[z]
  OBVIOUS
<1>2. /\ "left" \in Sides /\ "right" \in Sides /\ Far("left") = "right"
      /\ Child(t, w, "left") = k /\ Child(t, w, "right") = b /\ Child(t, z, "right") = r
  BY <1>1 DEF Sides, Child, Far
<1>3. w \in s[r] /\ \A m \in s[r] : m \in s[w] \/ LeftOf(w, m)
  BY <1>1 DEF Leads
<1>4. ChildSound(t, T, s, z, "right", r)
  BY <1>2, ChildFacts
<1>5. w \in T /\ r \in T
  <2>1. s[Nil] = {}
    BY DEF IsTree
  <2> QED BY <1>3, <1>4, <2>1 DEF ChildSound
<1>6. ChildSound(t, T, s, w, "left", k) /\ ChildSound(t, T, s, w, "right", b)
  BY <1>2, <1>5, ChildFacts
<1>7. ASSUME k # Nil PROVE Leads(t, s, z, k)
  <2>1. k \in s[r]
    <3>1. k \in s[w] /\ s[w] \subseteq s[r]
      BY <1>3, <1>5, <1>6, <1>7, Subtree DEF ChildSound
    <3> QED BY <3>1
  <2>2. k \in Nodes /\ w \in Nodes /\ LeftOf(k, w) /\ s[r] \subseteq Nodes
    BY <1>4, <1>6, <1>7 DEF ChildSound, On
  <2>3. \A m \in s[r] : LeftOf(w, m) => LeftOf(k, m)
    BY <2>2, KeysOrdered
  <2>4. \A m \in s[b] : LeftOf(w, m)
    BY <1>6 DEF ChildSound, On
  <2>5. s[w] = {w} \cup s[k] \cup s[b]
    BY <1>2, <1>6 DEF ChildSound
  <2> QED BY <1>1, <1>3, <2>1, <2>2, <2>3, <2>4, <2>5 DEF Leads
<1> QED BY <1>1, <1>5, <1>6, <1>7 DEF ChildSound
-----------------------------------------------------------------------------
(* remove: the tree without z. *)

\* z had one child at most, which takes its place.
OnlyEdit(t, u, z, only, q) ==
    /\ u \in Trees /\ u.c = t.c /\ u.root = IF q = Null THEN only ELSE t.root
    /\ \A a \in Cells, d \in Sides :
         Child(u, a, d) = IF a = q /\ Child(t, a, d) = z THEN only ELSE Child(t, a, d)
    /\ \A a \in Cells : u.p[a] = IF a = only /\ only # Nil THEN q ELSE t.p[a]

LEMMA OnlyEffect ==
    ASSUME NEW z \in Nodes, NEW t, t = Tree, t \in Trees,
           NEW only \in Cells, only = IF left[z] = Nil THEN right[z] ELSE left[z],
           NEW q \in Links, HangsOn(t, z, q)
    PROVE  OnlyEdit(t, Spliced(z, z), z, only, q)
<1>1. PICK ta : ta = Replace(t, z, only)
  OBVIOUS
<1>2. ReplaceEdit(t, ta, z, only, q)
  BY <1>1, ReplaceEffect
<1>3. ta \in Trees
  BY <1>2 DEF ReplaceEdit
<1>4. PICK tb : tb = Adopt(ta, only, q)
  OBVIOUS
<1>5. ParentEdit(ta, tb, only, q)
  BY <1>3, <1>4, AdoptEffect
<1>6. Spliced(z, z) = tb
  <2>1. parent[z] = q
    BY DEF HangsOn, Tree
  <2> QED BY <1>1, <1>4, <2>1 DEF Spliced
<1>7. \A a \in Cells, d \in Sides : Child(tb, a, d) = Child(ta, a, d)
  BY <1>5 DEF ParentEdit, Child
<1>8. OnlyEdit(t, tb, z, only, q)
  BY <1>2, <1>5, <1>7 DEF OnlyEdit, ParentEdit, ReplaceEdit
<1> QED BY <1>6, <1>8

\* z's successor w, the child of g, takes the place of z between its parent q and its
\* children l1 and r1, and leaves its own child h to g.
SuccessorEdit(t, u, z, w, q, g, h, l1, r1) ==
    /\ u \in Trees /\ u.c = [t.c EXCEPT ![w] = t.c[z]] /\ u.root = IF q = Null THEN w ELSE t.root
    /\ \A a \in Cells, d \in Sides :
         Child(u, a, d) = IF a = w /\ d = "left" THEN l1
                          ELSE IF a = w /\ g # z THEN r1
                          ELSE IF a = q /\ Child(t, a, d) = z THEN w
                          ELSE IF a = g /\ g # z /\ Child(t, a, d) = w THEN h
                          ELSE Child(t, a, d)
    /\ \A a \in Cells : u.p[a] = IF a = w THEN q
                                 ELSE IF a = l1 /\ l1 # Nil THEN w
                                 ELSE IF a = r1 THEN w
                                 ELSE IF a = h /\ h # Nil THEN IF g = z THEN w ELSE g
                                 ELSE t.p[a]

LEMMA SuccessorEffect ==
    ASSUME NEW z \in Nodes, NEW w \in Nodes, w # z, NEW t, t = Tree, t \in Trees,
           NEW q \in Links, HangsOn(t, z, q), q # w, q # z,
           NEW g \in Nodes, HangsOn(t, w, g), g # w, q # g,
           NEW h \in Cells, h = t.r[w], h # z, h # w,
           NEW l1 \in Cells, l1 = t.l[z], l1 # w, l1 # z,
           NEW r1 \in Nodes, r1 = t.r[z], r1 # z, g = z => r1 = w, g # z => r1 # w,
           h # r1, l1 # r1, h # Nil => h # l1
    PROVE  SuccessorEdit(t, Spliced(z, w), z, w, q, g, h, l1, r1)
<1>1. /\ t.l = left /\ t.r = right /\ t.p = parent /\ t.c = color
      /\ parent[w] = g /\ parent[z] = q /\ right[w] = h
  BY DEF Tree, HangsOn
<1>2. /\ z \in Cells /\ w \in Cells /\ g \in Cells /\ g # Null /\ r1 \in Cells /\ r1 # Nil
      /\ w # Nil /\ g \in Links /\ h \in Links /\ w \in Links /\ r1 \in Links /\ l1 \in Links
      /\ Null \notin Cells /\ "left" \in Sides /\ "right" \in Sides
      /\ \A d \in Sides : Far(d) \in Sides
  BY NodeTypes, SideFacts DEF Cells, Links, Sides
<1>3. PICK e : e = t.c[z]
  OBVIOUS
<1>4. e \in {0, 1}
  BY <1>2, <1>3, TreeFields
\* The first half: w leaves its place.
<1>5. \E t1 : /\ t1 \in Trees /\ t1.c = t.c /\ t1.root = t.root
              /\ \A a \in Cells, d \in Sides :
                   Child(t1, a, d) = IF a = w /\ d = "right" /\ g # z THEN r1
                                     ELSE IF a = g /\ g # z /\ Child(t, a, d) = w THEN h
                                     ELSE Child(t, a, d)
              /\ \A a \in Cells : t1.p[a] = IF g # z /\ a = r1 THEN w
                                            ELSE IF a = h /\ h # Nil THEN IF g = z THEN w ELSE g
                                            ELSE t.p[a]
              /\ t1 = IF parent[w] = z THEN Adopt(Tree, right[w], w)
                      ELSE LET u == Adopt(Replace(Tree, w, right[w]), right[w], parent[w])
                           IN  Adopt([u EXCEPT !.r[w] = u.r[z]], u.r[z], w)
  <2>1. CASE g = z
    <3>1. PICK ta : ta = Adopt(t, h, w)
      OBVIOUS
    <3>2. ParentEdit(t, ta, h, w)
      BY <1>2, <3>1, AdoptEffect
    <3>3. \A a, d : Child(ta, a, d) = Child(t, a, d)
      BY <3>2 DEF ParentEdit, Child
    <3>4. ta = Adopt(Tree, right[w], w)
      BY <1>1, <3>1
    <3> QED BY <1>1, <2>1, <3>2, <3>3, <3>4 DEF ParentEdit
  <2>2. CASE g # z
    <3>1. PICK ta : ta = Replace(t, w, h)
      OBVIOUS
    <3>2. ReplaceEdit(t, ta, w, h, g)
      BY <3>1, ReplaceEffect
    <3>3. ta \in Trees
      BY <3>2 DEF ReplaceEdit
    <3>4. PICK tb : tb = Adopt(ta, h, g)
      OBVIOUS
    <3>5. ParentEdit(ta, tb, h, g)
      BY <1>2, <3>3, <3>4, AdoptEffect
    <3>6. tb \in Trees
      BY <3>5 DEF ParentEdit
    <3>7. tb.r[z] = r1
      <4>1. Child(ta, z, "right") = Child(t, z, "right")
        BY <1>2, <2>2, <3>2 DEF ReplaceEdit
      <4>2. tb.r = ta.r
        BY <3>5 DEF ParentEdit
      <4> QED BY <4>1, <4>2 DEF Child
    <3>8. PICK tc : tc = ChildSet(tb, "right", w, r1)
      OBVIOUS
    <3>9. ChildEdit(tb, tc, "right", w, r1)
      BY <1>2, <3>6, <3>8, SetChild
    <3>10. tc \in Trees
      BY <3>9 DEF ChildEdit
    <3>11. PICK td : td = Adopt(tc, r1, w)
      OBVIOUS
    <3>12. ParentEdit(tc, td, r1, w)
      BY <1>2, <3>10, <3>11, AdoptEffect
    <3>13. tc = [tb EXCEPT !.r[w] = r1]
      BY <3>8 DEF ChildSet, RightSet
    <3>14. td = LET u == Adopt(Replace(Tree, w, right[w]), right[w], parent[w])
                IN  Adopt([u EXCEPT !.r[w] = u.r[z]], u.r[z], w)
      BY ONLY t = Tree, <1>1, <3>1, <3>4, <3>7, <3>11, <3>13
    <3>15. parent[w] # z
      BY <1>1, <2>2
    <3>16. td \in Trees /\ td.c = t.c /\ td.root = t.root
      BY <1>2, <3>2, <3>5, <3>9, <3>12 DEF ReplaceEdit, ParentEdit, ChildEdit
    <3>17. \A a \in Cells : td.p[a] = IF a = r1 THEN w ELSE IF a = h /\ h # Nil THEN g ELSE t.p[a]
      BY <1>2, <3>2, <3>5, <3>9, <3>12 DEF ReplaceEdit, ParentEdit, ChildEdit
    <3>18. ASSUME NEW a \in Cells, NEW d \in Sides
           PROVE  Child(td, a, d) = IF a = w /\ d = "right" THEN r1
                                    ELSE IF a = g /\ Child(t, a, d) = w THEN h
                                    ELSE Child(t, a, d)
      <4>1. Child(td, a, d) = Child(tc, a, d) /\ Child(tb, a, d) = Child(ta, a, d)
        BY <3>5, <3>12 DEF ParentEdit, Child
      <4> QED BY <1>2, <3>2, <3>9, <4>1 DEF ReplaceEdit, ChildEdit
    <3> QED BY <2>2, <3>14, <3>15, <3>16, <3>17, <3>18
  <2> QED BY <2>1, <2>2
<1>6. PICK t1 : /\ t1 \in Trees /\ t1.c = t.c /\ t1.root = t.root
                /\ \A a \in Cells, d \in Sides :
                     Child(t1, a, d) = IF a = w /\ d = "right" /\ g # z THEN r1
                                       ELSE IF a = g /\ g # z /\ Child(t, a, d) = w THEN h
                                       ELSE Child(t, a, d)
                /\ \A a \in Cells : t1.p[a] = IF g # z /\ a = r1 THEN w
                                              ELSE IF a = h /\ h # Nil THEN IF g = z THEN w ELSE g
                                              ELSE t.p[a]
                /\ t1 = IF parent[w] = z THEN Adopt(Tree, right[w], w)
                        ELSE LET u == Adopt(Replace(Tree, w, right[w]), right[w], parent[w])
                             IN  Adopt([u EXCEPT !.r[w] = u.r[z]], u.r[z], w)
  BY <1>5
<1>6a. \A a \in Cells, d \in Sides :
         Child(t1, a, d) = IF a = w /\ d = "right" /\ g # z THEN r1
                           ELSE IF a = g /\ g # z /\ Child(t, a, d) = w THEN h
                           ELSE Child(t, a, d)
  BY <1>6
<1>6b. \A a \in Cells : t1.p[a] = IF g # z /\ a = r1 THEN w
                                  ELSE IF a = h /\ h # Nil THEN IF g = z THEN w ELSE g
                                  ELSE t.p[a]
  BY <1>6
\* The second: it takes the place of z.
<1>7. HangsOn(t1, z, q)
  <2>1. t1.p[z] = q
    BY <1>1, <1>2, <1>6b
  <2>2. CASE q # Null
    <3>1. PICK d \in Sides : q \in Nodes /\ Child(t, q, d) = z /\ Child(t, q, Far(d)) # z
      BY <2>2 DEF HangsOn
    <3>2. q \in Cells
      BY <3>1 DEF Cells
    <3>3. PICK f \in Sides : f = Far(d)
      BY SideFacts
    <3>4. Child(t, q, d) = z /\ Child(t, q, f) # z /\ q # w /\ q # g
      BY <3>1, <3>3
    <3>5. Child(t1, q, d) = Child(t, q, d) /\ Child(t1, q, f) = Child(t, q, f)
      BY <1>6a, <3>2, <3>4
    <3>6. Child(t1, q, d) = z /\ Child(t1, q, Far(d)) # z
      BY <3>3, <3>4, <3>5
    <3> QED BY <2>1, <3>1, <3>6 DEF HangsOn
  <2> QED BY <2>1, <2>2 DEF HangsOn
<1>8. PICK t2 : t2 = Replace(t1, z, w)
  OBVIOUS
<1>9. ReplaceEdit(t1, t2, z, w, q)
  BY <1>2, <1>6, <1>7, <1>8, ReplaceEffect
<1>10. t2 \in Trees /\ t2.p = t1.p /\ t2.c = t.c /\ t2.p[z] = q
  BY <1>6, <1>7, <1>9 DEF ReplaceEdit, HangsOn
<1>11. t2.l[z] = l1
  <2>1. Child(t2, z, "left") = Child(t1, z, "left")
    BY <1>2, <1>9 DEF ReplaceEdit
  <2>2. Child(t1, z, "left") = Child(t, z, "left")
    BY <1>2, <1>6a
  <2> QED BY <2>1, <2>2 DEF Child
<1>12. PICK ta : ta = ParentSet(t2, w, q)
  OBVIOUS
<1>13. /\ ta \in Trees /\ ta.p = [t2.p EXCEPT ![w] = q] /\ ta.root = t2.root
       /\ ta.l = t2.l /\ ta.r = t2.r /\ ta.c = t.c
  BY <1>2, <1>10, <1>12, SetParent
<1>14. PICK tb : tb = ChildSet(ta, "left", w, l1)
  OBVIOUS
<1>15. ChildEdit(ta, tb, "left", w, l1)
  BY <1>2, <1>13, <1>14, SetChild
<1>16. tb \in Trees
  BY <1>15 DEF ChildEdit
<1>17. PICK t3 : t3 = Paint(tb, w, e)
  OBVIOUS
<1>18. /\ t3 \in Trees /\ t3.c = [tb.c EXCEPT ![w] = e]
       /\ t3.root = tb.root /\ t3.l = tb.l /\ t3.r = tb.r /\ t3.p = tb.p
  <2>1. PaintEdit(tb, t3, w, e)
    BY <1>2, <1>4, <1>16, <1>17, SetColor
  <2> QED BY <2>1 DEF PaintEdit
<1>19. PICK u : u = Adopt(t3, l1, w)
  OBVIOUS
<1>20. ParentEdit(t3, u, l1, w)
  BY <1>2, <1>18, <1>19, AdoptEffect
<1>21. Spliced(z, w) = u
  <2>1. t3 = [t2 EXCEPT !.p[w] = t2.p[z], !.l[w] = t2.l[z], !.c[w] = t2.c[z]]
    <3>1. t2.c[z] = e
      BY <1>3, <1>10
    <3> QED BY <1>10, <1>11, <1>12, <1>14, <1>17, <3>1 DEF ParentSet, ChildSet, LeftSet, Paint
  <2> HIDE DEF Tree
  <2> QED BY ONLY w # z, <1>6, <1>8, <1>11, <1>19, <2>1 DEF Spliced
<1>22. u \in Trees /\ u.c = [t.c EXCEPT ![w] = t.c[z]] /\ u.root = IF q = Null THEN w ELSE t.root
  <2>1. u \in Trees /\ u.c = [t.c EXCEPT ![w] = e]
    BY <1>13, <1>15, <1>18, <1>20 DEF ChildEdit, ParentEdit
  <2>2. u.root = t2.root
    BY <1>13, <1>15, <1>18, <1>20 DEF ChildEdit, ParentEdit
  <2>3. t2.root = IF q = Null THEN w ELSE t.root
    BY <1>6, <1>9 DEF ReplaceEdit
  <2> QED BY <1>3, <2>1, <2>2, <2>3
<1>23. ASSUME NEW a \in Cells
       PROVE  u.p[a] = IF a = w THEN q
                       ELSE IF a = l1 /\ l1 # Nil THEN w
                       ELSE IF a = r1 THEN w
                       ELSE IF a = h /\ h # Nil THEN IF g = z THEN w ELSE g
                       ELSE t.p[a]
  <2>1. ta.p[a] = IF a = w THEN q ELSE t1.p[a]
    BY <1>2, <1>10, <1>13, TreeFields
  <2>2. u.p[a] = IF a = l1 /\ l1 # Nil THEN w ELSE ta.p[a]
    BY <1>15, <1>18, <1>20 DEF ChildEdit, ParentEdit
  <2>3. t1.p[a] = IF g # z /\ a = r1 THEN w
                  ELSE IF a = h /\ h # Nil THEN IF g = z THEN w ELSE g
                  ELSE t.p[a]
    BY <1>6b
  <2>4. CASE a = w
    BY <1>2, <2>1, <2>2, <2>4
  <2>5. CASE a # w /\ a = l1 /\ l1 # Nil
    BY <2>2, <2>5
  <2>6. CASE a # w /\ ~(a = l1 /\ l1 # Nil)
    <3>1. u.p[a] = t1.p[a]
      BY <2>1, <2>2, <2>6
    <3> QED BY <1>2, <2>3, <2>6, <3>1
  <2> QED BY <2>4, <2>5, <2>6
<1>24. ASSUME NEW a \in Cells, NEW d \in Sides
       PROVE  Child(u, a, d) = IF a = w /\ d = "left" THEN l1
                               ELSE IF a = w /\ g # z THEN r1
                               ELSE IF a = q /\ Child(t, a, d) = z THEN w
                               ELSE IF a = g /\ g # z /\ Child(t, a, d) = w THEN h
                               ELSE Child(t, a, d)
  <2>1. Child(u, a, d) = Child(tb, a, d) /\ Child(ta, a, d) = Child(t2, a, d)
    BY <1>13, <1>18, <1>20 DEF ParentEdit, Child
  <2>2. Child(u, a, d) = IF a = w /\ d = "left" THEN l1 ELSE Child(t2, a, d)
    BY <1>15, <2>1 DEF ChildEdit
  <2>3. Child(t2, a, d) = IF a = q /\ Child(t1, a, d) = z THEN w ELSE Child(t1, a, d)
    BY <1>9 DEF ReplaceEdit
  <2>4. Child(t1, a, d) = IF a = w /\ d = "right" /\ g # z THEN r1
                          ELSE IF a = g /\ g # z /\ Child(t, a, d) = w THEN h
                          ELSE Child(t, a, d)
    BY <1>6a
  <2>5. d = "left" \/ d = "right"
    BY DEF Sides
  <2> QED BY <2>2, <2>3, <2>4, <2>5
<1>25. SuccessorEdit(t, u, z, w, q, g, h, l1, r1)
  BY <1>22, <1>23, <1>24 DEF SuccessorEdit
<1> QED BY <1>21, <1>25

LEMMA OnlyKeeps ==
    ASSUME NEW t, NEW T, NEW s, IsTree(t, T, s), NEW z \in T, NEW e \in Sides,
           Child(t, z, Far(e)) = Nil, NEW only, only = Child(t, z, e),
           NEW u, OnlyEdit(t, u, z, only, t.p[z])
    PROVE  \E s2 : IsTree(u, T \ {z}, s2)
<1>1. /\ T \subseteq Nodes /\ T \subseteq Cells /\ Nil \notin T /\ Null \notin T
      /\ Nil # Null /\ s \in [Cells -> SUBSET T] /\ s[Nil] = {} /\ Nil \in Cells
      /\ \A a \in T : a \in s[a]
  <2>1. s[Nil] = {} /\ Nil \in Cells
    BY DEF IsTree, Cells
  <2> QED BY <2>1, TreeTypes
<1>2. PICK q : q = t.p[z]
  OBVIOUS
<1>3. HangsOn(t, z, q) /\ q # z /\ q \in T \cup {Null} /\ (q = Null <=> t.root = z)
  BY <1>2, Hanging
<1>4. /\ only \in T \cup {Nil} /\ only \in Cells /\ z \notin s[only]
      /\ (only # Nil => only \in s[only] /\ t.p[only] = z /\ only # z /\ only # t.root)
      /\ s[z] = {z} \cup s[only]
  <2>1. ChildSound(t, T, s, z, e, only)
    BY ChildFacts
  <2> QED BY <1>1, <2>1 DEF ChildSound
<1>5. /\ u \in Trees /\ u.root = IF q = Null THEN only ELSE t.root
      /\ \A a \in Cells, d \in Sides :
           Child(u, a, d) = IF a = q /\ Child(t, a, d) = z THEN only ELSE Child(t, a, d)
      /\ \A a \in Cells : u.p[a] = IF a = only /\ only # Nil THEN q ELSE t.p[a]
  BY <1>2 DEF OnlyEdit
<1>6. PICK s2 : s2 = [a \in Cells |-> IF a = z THEN {} ELSE s[a] \ {z}]
  OBVIOUS
<1>7. /\ s2 \in [Cells -> SUBSET (T \ {z})] /\ s2[Nil] = {} /\ s2[only] = s[only]
      /\ \A a \in Cells : a # z => s2[a] = s[a] \ {z}
  BY <1>1, <1>4, <1>6
<1>8. t.root \in T /\ s[t.root] = T /\ t.p[t.root] = Null
  <2>1. t.root \in T \cup {Nil} /\ s[t.root] = T /\ (t.root # Nil => t.p[t.root] = Null)
    BY DEF IsTree
  <2> QED BY <1>1, <2>1
<1>9. /\ u.root \in (T \ {z}) \cup {Nil} /\ s2[u.root] = T \ {z}
      /\ (u.root # Nil => u.p[u.root] = Null)
  <2>1. CASE q = Null
    BY <1>1, <1>3, <1>4, <1>5, <1>7, <1>8, <2>1
  <2>2. CASE q # Null
    <3>1. u.root = t.root /\ t.root # z /\ t.root # only /\ t.root \in Cells
      BY <1>1, <1>3, <1>4, <1>5, <1>8, <2>2
    <3> QED BY <1>5, <1>7, <1>8, <3>1
  <2> QED BY <2>1, <2>2
<1>10. ASSUME NEW a \in T \ {z}
       PROVE  /\ s2[a] = {a} \cup s2[u.l[a]] \cup s2[u.r[a]]
              /\ \A d \in Sides : /\ Child(u, a, d) \in (T \ {z}) \cup {Nil}
                                  /\ Child(u, a, d) # Nil => u.p[Child(u, a, d)] = a
                                  /\ \A m \in s2[Child(u, a, d)] : On(d, m, a)
  <2>1. ASSUME NEW d \in Sides, NEW c, c = Child(t, a, d), NEW c2, c2 = Child(u, a, d)
        PROVE  /\ s2[c2] = s[c] \ {z} /\ c2 \in (T \ {z}) \cup {Nil}
               /\ (c2 # Nil => u.p[c2] = a) /\ \A m \in s2[c2] : On(d, m, a)
    <3>1. c \in T \cup {Nil} /\ (c # Nil => t.p[c] = a) /\ (\A m \in s[c] : On(d, m, a))
      BY <2>1 DEF IsTree
    <3>2. CASE c = z
      <4>1. a = q /\ c2 = only
        <5>1. a = q /\ a \in Cells
          BY <1>1, <1>2, <3>1, <3>2
        <5>2. Child(u, a, d) = IF a = q /\ Child(t, a, d) = z THEN only ELSE Child(t, a, d)
          BY <1>5, <5>1
        <5> QED BY <2>1, <3>2, <5>1, <5>2
      <4>2. c2 # Nil => u.p[c2] = a
        BY <1>4, <1>5, <4>1
      <4> QED BY <1>1, <1>4, <1>7, <3>1, <3>2, <4>1, <4>2
    <3>3. CASE c # z
      <4>1. c2 = c
        BY <1>1, <1>5, <2>1, <3>3
      <4>2. s2[c] = s[c] \ {z}
        BY <1>1, <1>7, <3>1, <3>3
      <4>3. c # Nil => c # only /\ u.p[c] = a
        BY <1>1, <1>4, <1>5, <3>1
      <4> QED BY <3>1, <3>3, <4>1, <4>2, <4>3
    <3> QED BY <3>2, <3>3
  <2>2. PICK f \in Sides : f = Far(e)
    BY SideFacts
  <2>3. s[a] = {a} \cup s[Child(t, a, e)] \cup s[Child(t, a, f)]
    BY <2>2, ChildFacts DEF ChildSound
  <2>4. s2[Child(u, a, e)] = s[Child(t, a, e)] \ {z} /\ s2[Child(u, a, f)] = s[Child(t, a, f)] \ {z}
    BY <2>1
  <2>5. s2[a] = s[a] \ {z}
    BY <1>1, <1>7
  <2>6. s2[u.l[a]] \cup s2[u.r[a]] = s2[Child(u, a, e)] \cup s2[Child(u, a, f)]
    BY <2>2, BothChildren
  <2>7. s2[a] = {a} \cup s2[u.l[a]] \cup s2[u.r[a]]
    BY <2>3, <2>4, <2>5, <2>6
  <2> QED BY <2>1, <2>7
<1>11. ASSUME NEW a \in T \ {z}, a # u.root
       PROVE  u.p[a] \in T \ {z} /\ \E d \in Sides : Child(u, u.p[a], d) = a
  <2>1. CASE a = only
    <3>1. q # Null /\ u.p[a] = q /\ q \in T \ {z}
      BY <1>1, <1>3, <1>5, <1>11, <2>1
    <3>2. PICK d \in Sides : Child(t, q, d) = z
      BY <1>3, <3>1 DEF HangsOn
    <3>3. Child(u, q, d) = only
      BY <1>1, <1>5, <3>1, <3>2
    <3> QED BY <2>1, <3>1, <3>3
  <2>2. CASE a # only
    <3>1. a # t.root /\ u.p[a] = t.p[a]
      BY <1>1, <1>3, <1>5, <1>11, <2>2
    <3>2. PICK f \in T, d \in Sides : f = t.p[a] /\ Child(t, f, d) = a
      BY <3>1 DEF IsTree
    <3>3. f # z
      <4>1. d = e \/ d = Far(e)
        BY SideFacts
      <4> QED BY <1>1, <2>2, <3>2, <4>1
    <3>4. Child(u, f, d) = a
      BY <1>1, <1>5, <3>2
    <3> QED BY <3>1, <3>2, <3>3, <3>4
  <2> QED BY <2>1, <2>2
<1>12. IsTree(u, T \ {z}, s2)
  <2>1. T \ {z} \subseteq Nodes
    BY <1>1
  <2>2. PICK R : R = T \ {z}
    OBVIOUS
  <2> QED BY <1>5, <1>7, <1>9, <1>10, <1>11, <2>1 DEF IsTree
<1> QED BY <1>12

\* Where the successor w of z stands, given that z has two children.
Succeeds(t, T, s, z, w, q, g, h, l1, r1) ==
    /\ w \in T /\ w # z /\ w \in s[r1] /\ z \notin s[r1] /\ z \notin s[l1] /\ w \notin s[l1]
    /\ q \in T \cup {Null} /\ q # z /\ q # w /\ q # g /\ HangsOn(t, z, q)
    /\ (q = Null <=> t.root = z)
    /\ g \in T /\ g # w /\ HangsOn(t, w, g) /\ (g = z => r1 = w) /\ (g # z => r1 # w)
    /\ h \in T \cup {Nil} /\ h # z /\ h # w /\ h # r1 /\ (h # Nil => h # l1 /\ t.p[h] = w)
    /\ s[w] = {w} \cup s[h] /\ w \notin s[h] /\ s[h] \subseteq s[r1]
    /\ l1 \in T /\ l1 # w /\ l1 # z /\ l1 # r1 /\ t.p[l1] = z
    /\ r1 \in T /\ r1 # z /\ t.p[r1] = z
    /\ s[z] = {z} \cup s[l1] \cup s[r1]
    /\ \A m \in s[r1] \ {w} : On("right", m, w)
    /\ \A m \in s[l1] : On("left", m, w)

LEMMA SuccessorStands ==
    ASSUME NEW t, NEW T, NEW s, IsTree(t, T, s), NEW z \in T, t.l[z] # Nil, t.r[z] # Nil,
           NEW w, Leads(t, s, z, w), t.l[w] = Nil
    PROVE  Succeeds(t, T, s, z, w, t.p[z], t.p[w], t.r[w], t.l[z], t.r[z])
<1>1. PICK q, g, h, l1, r1 : q = t.p[z] /\ g = t.p[w] /\ h = t.r[w] /\ l1 = t.l[z] /\ r1 = t.r[z]
  OBVIOUS
<1>2. /\ "left" \in Sides /\ "right" \in Sides /\ Far("left") = "right" /\ Far("right") = "left"
      /\ Child(t, w, "left") = Nil /\ Child(t, w, "right") = h
      /\ Child(t, z, "left") = l1 /\ Child(t, z, "right") = r1
  BY <1>1 DEF Sides, Child, Far
<1>3. /\ T \subseteq Nodes /\ Nil \notin T /\ Null \notin T /\ Nil # Null /\ s[Nil] = {}
      /\ \A e \in T : e \in s[e]
  <2>1. s[Nil] = {}
    BY DEF IsTree
  <2> QED BY <2>1, TreeTypes
<1>4. w \in s[r1] /\ \A m \in s[r1] : m \in s[w] \/ LeftOf(w, m)
  BY <1>1 DEF Leads
<1>5. /\ r1 \in T /\ t.p[r1] = z /\ r1 # z /\ z \notin s[r1] /\ s[r1] \subseteq T
      /\ s[r1] \cap s[l1] = {} /\ (\A m \in s[r1] : LeftOf(z, m))
  <2>1. ChildSound(t, T, s, z, "right", r1)
    BY <1>2, ChildFacts
  <2> QED BY <1>1, <1>2, <2>1 DEF ChildSound, On
<1>6. /\ l1 \in T /\ t.p[l1] = z /\ l1 # z /\ z \notin s[l1] /\ s[l1] \subseteq T
      /\ s[z] = {z} \cup s[l1] \cup s[r1] /\ (\A m \in s[l1] : LeftOf(m, z))
  <2>1. ChildSound(t, T, s, z, "left", l1)
    BY <1>2, ChildFacts
  <2> QED BY <1>1, <1>2, <2>1 DEF ChildSound, On
<1>7. w \in T /\ w # z /\ w \notin s[l1] /\ l1 # w /\ l1 # r1
  BY <1>3, <1>4, <1>5, <1>6
<1>8. /\ h \in T \cup {Nil} /\ (h # Nil => t.p[h] = w /\ h # w /\ h \in s[h])
      /\ s[w] = {w} \cup s[h] /\ w \notin s[h] /\ (\A m \in s[h] : LeftOf(w, m))
  <2>1. ChildSound(t, T, s, w, "right", h)
    BY <1>2, <1>7, ChildFacts
  <2> QED BY <1>2, <1>3, <2>1 DEF ChildSound, On
<1>9. s[w] \subseteq s[r1] /\ (w # r1 => g \in s[r1])
  BY <1>1, <1>4, <1>5, Subtree
<1>10. h # z /\ h # w /\ h # r1 /\ (h # Nil => h # l1)
  BY <1>3, <1>5, <1>6, <1>7, <1>8, <1>9
<1>11. HangsOn(t, z, q) /\ q # z /\ q \in T \cup {Null} /\ (q = Null <=> t.root = z)
  BY <1>1, Hanging
<1>12. HangsOn(t, w, g) /\ g # w /\ g \in T \cup {Null} /\ (g = Null <=> t.root = w)
  BY <1>1, <1>7, Hanging
<1>13. g \in T /\ (g = z => r1 = w) /\ (g # z => r1 # w)
  BY <1>1, <1>3, <1>5, <1>7, <1>9, <1>12
<1>14. q \notin s[r1]
  <2> SUFFICES ASSUME q \in s[r1] PROVE FALSE
    OBVIOUS
  <2>1. q \in T /\ s[q] \subseteq s[r1]
    BY <1>5, Subtree
  <2>2. PICK d \in Sides : Child(t, q, d) = z
    BY <1>3, <1>11, <2>1 DEF HangsOn
  <2>3. z \in s[q]
    <3>1. ChildSound(t, T, s, q, d, z)
      BY <2>1, <2>2, ChildFacts
    <3> QED BY <1>3, <3>1 DEF ChildSound
  <2> QED BY <1>5, <2>1, <2>3
<1>15. q # w /\ q # g
  BY <1>3, <1>4, <1>9, <1>11, <1>12, <1>13, <1>14
<1>16. \A m \in s[r1] \ {w} : LeftOf(w, m)
  BY <1>4, <1>8
<1>17. \A m \in s[l1] : LeftOf(m, w)
  <2>1. LeftOf(z, w)
    BY <1>4, <1>5
  <2> QED BY <1>3, <1>6, <1>7, <2>1, KeysOrdered
<1>18. /\ \A m \in s[r1] \ {w} : On("right", m, w)
       /\ \A m \in s[l1] : On("left", m, w)
  BY <1>16, <1>17 DEF On
<1>19. s[h] \subseteq s[r1]
  BY <1>8, <1>9
<1>20. Succeeds(t, T, s, z, w, q, g, h, l1, r1)
  BY <1>3, <1>4, <1>5, <1>6, <1>7, <1>8, <1>10, <1>11, <1>12, <1>13, <1>15, <1>18, <1>19 DEF Succeeds
<1> QED BY <1>1, <1>20

LEMMA SuccessorKeeps ==
    ASSUME NEW t, NEW T, NEW s, IsTree(t, T, s), NEW z \in T, NEW w, NEW q, NEW g, NEW h,
           NEW l1, NEW r1, q = t.p[z], g = t.p[w], h = t.r[w], l1 = t.l[z], r1 = t.r[z],
           t.l[w] = Nil, Succeeds(t, T, s, z, w, q, g, h, l1, r1),
           NEW u, SuccessorEdit(t, u, z, w, q, g, h, l1, r1)
    PROVE  \E s2 : IsTree(u, T \ {z}, s2)
<1>1. /\ T \subseteq Nodes /\ T \subseteq Cells /\ Nil \notin T /\ Null \notin T
      /\ Nil # Null /\ s \in [Cells -> SUBSET T] /\ s[Nil] = {} /\ Nil \in Cells
      /\ \A a \in T : a \in s[a]
  <2>1. s[Nil] = {} /\ Nil \in Cells
    BY DEF IsTree, Cells
  <2> QED BY <2>1, TreeTypes
<1>2. /\ w \in T /\ w # z /\ w \in s[r1] /\ z \notin s[r1] /\ z \notin s[l1] /\ w \notin s[l1]
      /\ q \in T \cup {Null} /\ q # z /\ q # w /\ q # g /\ (q = Null <=> t.root = z)
      /\ g \in T /\ g # w /\ (g = z => r1 = w) /\ (g # z => r1 # w)
      /\ h \in T \cup {Nil} /\ h # z /\ h # w /\ h # r1 /\ (h # Nil => h # l1 /\ t.p[h] = w)
      /\ s[w] = {w} \cup s[h] /\ w \notin s[h] /\ s[h] \subseteq s[r1]
      /\ l1 \in T /\ l1 # w /\ l1 # z /\ l1 # r1 /\ t.p[l1] = z
      /\ r1 \in T /\ r1 # z /\ t.p[r1] = z /\ s[z] = {z} \cup s[l1] \cup s[r1]
  BY DEF Succeeds
<1>3. /\ \A m \in s[r1] \ {w} : On("right", m, w)
      /\ \A m \in s[l1] : On("left", m, w)
  BY DEF Succeeds
<1>4. /\ "left" \in Sides /\ "right" \in Sides /\ Far("left") = "right" /\ "left" # "right"
      /\ (\A d \in Sides : d = "left" \/ d = "right")
      /\ Child(t, w, "left") = Nil /\ Child(t, w, "right") = h
      /\ Child(t, z, "left") = l1 /\ Child(t, z, "right") = r1
  BY DEF Sides, Child, Far
<1>5. /\ u \in Trees /\ u.root = IF q = Null THEN w ELSE t.root
      /\ \A a \in Cells, d \in Sides :
           Child(u, a, d) = IF a = w /\ d = "left" THEN l1
                            ELSE IF a = w /\ g # z THEN r1
                            ELSE IF a = q /\ Child(t, a, d) = z THEN w
                            ELSE IF a = g /\ g # z /\ Child(t, a, d) = w THEN h
                            ELSE Child(t, a, d)
      /\ \A a \in Cells : u.p[a] = IF a = w THEN q
                                   ELSE IF a = l1 /\ l1 # Nil THEN w
                                   ELSE IF a = r1 THEN w
                                   ELSE IF a = h /\ h # Nil THEN IF g = z THEN w ELSE g
                                   ELSE t.p[a]
  BY DEF SuccessorEdit
<1>6. \A a \in T : z \in s[a] => w \in s[a]
  <2>1. w \in s[z]
    BY <1>2
  <2> QED BY <2>1, Subtree
<1>7. PICK s2 : s2 = [a \in Cells |-> IF a = w THEN s[z] \ {z}
                                      ELSE IF a = z THEN {}
                                      ELSE IF z \in s[a] THEN s[a] \ {z} ELSE s[a] \ {w}]
  OBVIOUS
<1>8. /\ s2 \in [Cells -> SUBSET (T \ {z})] /\ s2[w] = s[l1] \cup s[r1] /\ s2[Nil] = {}
      /\ \A a \in T \cup {Nil} : a # w /\ a # z =>
             s2[a] = IF z \in s[a] THEN s[a] \ {z} ELSE s[a] \ {w}
  <2>1. ASSUME NEW a \in Cells
        PROVE  (IF a = w THEN s[z] \ {z} ELSE IF a = z THEN {}
                ELSE IF z \in s[a] THEN s[a] \ {z} ELSE s[a] \ {w}) \in SUBSET (T \ {z})
    BY <1>1, <2>1
  <2>2. s2 \in [Cells -> SUBSET (T \ {z})]
    BY <1>7, <2>1
  <2>3. s2[w] = s[z] \ {z} /\ s[z] \ {z} = s[l1] \cup s[r1]
    BY <1>1, <1>2, <1>7
  <2>4. \A a \in T \cup {Nil} : a # w /\ a # z =>
             s2[a] = IF z \in s[a] THEN s[a] \ {z} ELSE s[a] \ {w}
    BY <1>1, <1>7
  <2>5. s2[Nil] = {}
    BY <1>1, <1>2, <2>4
  <2> QED BY <2>2, <2>3, <2>4, <2>5
<1>9. t.root \in T /\ s[t.root] = T /\ t.p[t.root] = Null
  <2>1. t.root \in T \cup {Nil} /\ s[t.root] = T /\ (t.root # Nil => t.p[t.root] = Null)
    BY DEF IsTree
  <2> QED BY <1>1, <2>1
<1>10. u.root \in T \ {z} /\ s2[u.root] = T \ {z} /\ u.p[u.root] = Null
  <2>1. CASE q = Null
    <3>1. u.root = w /\ s[z] = T /\ u.p[w] = Null
      BY <1>1, <1>2, <1>5, <1>9, <2>1
    <3> QED BY <1>2, <1>8, <3>1
  <2>2. CASE q # Null
    <3>1. u.root = t.root /\ t.root # z
      BY <1>2, <1>5, <2>2
    <3>2. t.root # w /\ t.root # l1 /\ t.root # r1 /\ (h # Nil => t.root # h)
      BY <1>1, <1>2, <1>9
    <3>3. u.p[t.root] = Null
      BY <1>1, <1>5, <1>9, <3>2
    <3>4. s2[t.root] = T \ {z}
      BY <1>8, <1>9, <3>1, <3>2
    <3> QED BY <1>9, <3>1, <3>3, <3>4
  <2> QED BY <2>1, <2>2
<1>11. /\ Child(u, w, "left") = l1 /\ s2[l1] = s[l1] /\ u.p[l1] = w
       /\ s2[Child(u, w, "right")] = s[r1] \ {w} /\ Child(u, w, "right") \in (T \ {z}) \cup {Nil}
       /\ (Child(u, w, "right") # Nil => u.p[Child(u, w, "right")] = w)
  <2>1. Child(u, w, "left") = l1 /\ u.p[l1] = w
    BY <1>1, <1>2, <1>4, <1>5
  <2>2. s2[l1] = s[l1]
    <3>1. s2[l1] = s[l1] \ {w}
      BY <1>2, <1>8
    <3> QED BY ONLY <1>2, <3>1
  <2>3. CASE g = z
    <3>1. Child(u, w, "right") = h /\ r1 = w
      BY <1>1, <1>2, <1>4, <1>5, <2>3
    <3>2. z \notin s[h]
      BY <1>2
    <3>3. s2[h] = s[h]
      <4>1. s2[h] = s[h] \ {w}
        BY <1>2, <1>8, <3>2
      <4> QED BY ONLY <1>2, <4>1
    <3>4. h # Nil => u.p[h] = w
      BY <1>1, <1>2, <1>5, <2>3
    <3>5. s[r1] \ {w} = s[h]
      BY <1>2, <3>1
    <3> QED BY <1>2, <2>1, <2>2, <3>1, <3>3, <3>4, <3>5
  <2>4. CASE g # z
    <3>1. Child(u, w, "right") = r1 /\ r1 # w
      BY <1>1, <1>2, <1>4, <1>5, <2>4
    <3>2. s2[r1] = s[r1] \ {w}
      BY <1>2, <1>8, <3>1
    <3>3. u.p[r1] = w
      BY <1>1, <1>2, <1>5, <3>1
    <3> QED BY <1>2, <2>1, <2>2, <3>1, <3>2, <3>3
  <2> QED BY <2>3, <2>4
<1>12. ASSUME NEW a \in T \ {z}
       PROVE  /\ s2[a] = {a} \cup s2[u.l[a]] \cup s2[u.r[a]]
              /\ \A d \in Sides : /\ Child(u, a, d) \in (T \ {z}) \cup {Nil}
                                  /\ Child(u, a, d) # Nil => u.p[Child(u, a, d)] = a
                                  /\ \A m \in s2[Child(u, a, d)] : On(d, m, a)
  <2>0. s2[u.l[a]] \cup s2[u.r[a]] = s2[Child(u, a, "left")] \cup s2[Child(u, a, "right")]
    BY DEF Child
  <2>1. CASE a = w
    <3>1. s2[w] = {w} \cup s2[Child(u, w, "left")] \cup s2[Child(u, w, "right")]
      BY <1>2, <1>8, <1>11
    <3>2. \A d \in Sides : /\ Child(u, w, d) \in (T \ {z}) \cup {Nil}
                           /\ Child(u, w, d) # Nil => u.p[Child(u, w, d)] = w
                           /\ \A m \in s2[Child(u, w, d)] : On(d, m, w)
      BY <1>2, <1>3, <1>4, <1>11
    <3> QED BY <2>0, <2>1, <3>1, <3>2
  <2>2. CASE a # w
    <3> DEFINE X(c) == IF z \in s[c] THEN s[c] \ {z} ELSE s[c] \ {w}
    <3>1. ASSUME NEW d \in Sides, NEW c, c = Child(t, a, d), NEW c2, c2 = Child(u, a, d)
          PROVE  /\ s2[c2] = X(c) /\ c2 \in (T \ {z}) \cup {Nil}
                 /\ (c2 # Nil => u.p[c2] = a) /\ \A m \in s2[c2] : On(d, m, a)
      <4>1. c \in T \cup {Nil} /\ (c # Nil => t.p[c] = a) /\ (\A m \in s[c] : On(d, m, a))
        BY <3>1 DEF IsTree
      <4>0. c2 = IF a = q /\ c = z THEN w ELSE IF a = g /\ g # z /\ c = w THEN h ELSE c
        BY <1>1, <1>5, <2>2, <3>1
      <4>2. CASE c = z
        <5>1. a = q /\ c2 = w
          BY <1>1, <4>0, <4>1, <4>2
        <5>2. u.p[w] = q /\ s2[w] = s[z] \ {z} /\ z \in s[z]
          BY <1>1, <1>2, <1>5, <1>8
        <5> QED BY <1>2, <4>1, <4>2, <5>1, <5>2
      <4>3. CASE c = w
        <5>1. a = g /\ g # z /\ c2 = h
          BY <1>1, <1>2, <4>0, <4>1, <4>3
        <5>2. z \notin s[h] /\ z \notin s[w]
          BY <1>2
        <5>3. s2[h] = s[h] /\ X(w) = s[h]
          <6>1. s2[h] = s[h] \ {w} /\ X(w) = s[w] \ {w}
            BY <1>2, <1>8, <5>2
          <6>2. s[w] \ {w} = s[h] /\ s[h] \ {w} = s[h]
            BY ONLY <1>2
          <6> QED BY ONLY <6>1, <6>2
        <5>4. h # Nil => u.p[h] = g
          BY <1>1, <1>2, <1>5, <5>1
        <5> QED BY <1>2, <4>1, <4>3, <5>1, <5>3, <5>4
      <4>4. CASE c # z /\ c # w
        <5>1. c2 = c
          BY <4>0, <4>4
        <5>2. s2[c] = X(c)
          BY <1>8, <4>1, <4>4
        <5>3. c # Nil => u.p[c] = a
          <6>1. c # Nil => c # l1 /\ c # r1 /\ (h # Nil => c # h)
            BY <1>2, <2>2, <4>1
          <6> QED BY <1>1, <1>5, <4>1, <4>4, <6>1
        <5> QED BY <4>1, <4>4, <5>1, <5>2, <5>3
      <4> QED BY <4>2, <4>3, <4>4
    <3>2. ChildSound(t, T, s, a, "left", Child(t, a, "left"))
      BY <1>4, ChildFacts
    <3>3. PICK c, k : c = Child(t, a, "left") /\ k = Child(t, a, "right")
      OBVIOUS
    <3>4. s[a] = {a} \cup s[c] \cup s[k] /\ s[c] \cap s[k] = {} /\ c \in T \cup {Nil}
      BY <1>4, <3>2, <3>3 DEF ChildSound
    <3>5. k \in T \cup {Nil}
      BY <1>4, <3>3 DEF IsTree
    <3>6. (z \in s[c] => w \in s[c]) /\ (z \in s[k] => w \in s[k])
      BY <1>1, <1>6, <3>4, <3>5
    <3>7. s2[a] = X(a)
      BY <1>8, <2>2
    <3>8. X(a) = {a} \cup X(c) \cup X(k)
      BY <2>2, <3>4, <3>6
    <3>9. s2[Child(u, a, "left")] = X(c) /\ s2[Child(u, a, "right")] = X(k)
      <4> HIDE DEF X
      <4>1. \A d \in Sides : s2[Child(u, a, d)] = X(Child(t, a, d))
        BY <3>1
      <4> QED BY <1>4, <3>3, <4>1
    <3>10. s2[a] = {a} \cup s2[u.l[a]] \cup s2[u.r[a]]
      BY <2>0, <3>7, <3>8, <3>9
    <3> QED BY <3>1, <3>10
  <2> QED BY <2>1, <2>2
<1>13. ASSUME NEW a \in T \ {z}, a # u.root
       PROVE  u.p[a] \in T \ {z} /\ \E d \in Sides : Child(u, u.p[a], d) = a
  <2>1. CASE a = w
    <3>1. q # Null /\ u.p[w] = q /\ q \in T \ {z}
      BY <1>1, <1>2, <1>5, <1>13, <2>1
    <3>2. PICK d \in Sides : Child(t, q, d) = z
      BY <3>1 DEF Succeeds, HangsOn
    <3>3. Child(u, q, d) = w
      BY <1>1, <1>2, <1>5, <3>1, <3>2
    <3> QED BY <2>1, <3>1, <3>3
  <2>2. CASE a = l1
    BY <1>2, <1>4, <1>11, <2>2
  <2>3. CASE a = r1 /\ a # w
    <3>1. Child(u, w, "right") = r1
      BY <1>1, <1>2, <1>4, <1>5, <2>3
    <3>2. u.p[r1] = w
      BY <1>1, <1>2, <1>5, <2>3
    <3> QED BY <1>2, <1>4, <2>3, <3>1, <3>2
  <2>4. CASE a = h
    <3>1. CASE g = z
      <4>1. Child(u, w, "right") = h
        BY <1>1, <1>2, <1>4, <1>5, <3>1
      <4>2. u.p[h] = w
        BY <1>1, <1>2, <1>5, <2>4, <3>1
      <4> QED BY <1>2, <1>4, <2>4, <4>1, <4>2
    <3>2. CASE g # z
      <4>1. PICK d \in Sides : Child(t, g, d) = w
        BY <1>1, <1>2 DEF Succeeds, HangsOn
      <4>2. Child(u, g, d) = h
        BY <1>1, <1>2, <1>5, <3>2, <4>1
      <4>3. u.p[h] = g
        BY <1>1, <1>2, <1>5, <2>4, <3>2
      <4> QED BY <1>2, <2>4, <3>2, <4>2, <4>3
    <3> QED BY <3>1, <3>2
  <2>5. CASE a # w /\ a # l1 /\ a # r1 /\ a # h
    <3>1. u.p[a] = t.p[a]
      BY <1>1, <1>5, <2>5
    <3>2. a # t.root
      BY <1>2, <1>5, <1>13
    <3>3. PICK f \in T, d \in Sides : f = t.p[a] /\ Child(t, f, d) = a
      BY <3>2 DEF IsTree
    <3>4. f # z /\ f # w
      BY <1>1, <1>4, <2>5, <3>3
    <3>5. Child(u, f, d) = a
      BY <1>1, <1>5, <2>5, <3>3, <3>4
    <3> QED BY <3>1, <3>3, <3>4, <3>5
  <2> QED BY <2>1, <2>2, <2>3, <2>4, <2>5
<1>14. IsTree(u, T \ {z}, s2)
  <2>1. T \ {z} \subseteq Nodes
    BY <1>1
  <2> QED BY <1>5, <1>8, <1>10, <1>12, <1>13, <2>1 DEF IsTree
<1> QED BY <1>14
-----------------------------------------------------------------------------
(* One turn of each repair. *)

LEMMA SideOfChild ==
    ASSUME NEW t, NEW T, NEW s, IsTree(t, T, s), NEW n \in T, n # t.root
    PROVE  /\ t.p[n] \in T /\ t.p[n] # n /\ SideOf(t, n) \in Sides
           /\ Child(t, t.p[n], SideOf(t, n)) = n
<1>1. HangsOn(t, n, t.p[n]) /\ t.p[n] # n /\ t.p[n] \in T
  BY Hanging
<1>2. t.p[n] # Null
  BY <1>1, TreeTypes
<1>3. PICK d \in Sides : Child(t, t.p[n], d) = n
  BY <1>2, <1>1 DEF HangsOn
<1>4. SideOf(t, n) \in Sides /\ Child(t, t.p[n], SideOf(t, n)) = n
  BY <1>3 DEF SideOf, Child, Sides
<1> QED BY <1>1, <1>4

\* fix_insert: the rotation that brings z, its parent m and its grandparent g in line.
LineUp(t, T, t1, z, near, m, g) ==
    /\ \E s1 : IsTree(t1, T, s1)
    /\ t1.root = t.root /\ t1.c = t.c /\ near \in Sides
    /\ z \in T /\ m \in T /\ g \in T /\ m # g
    /\ t1.p[z] = m /\ t1.p[m] = g /\ Child(t1, g, near) = m

LEMMA InsertLinesUp ==
    ASSUME NEW t, NEW T, NEW s, IsTree(t, T, s), NEW n \in T, NEW p, p = t.p[n], p # Null,
           p # t.root, NEW near, near = SideOf(t, p),
           NEW z, z = IF n = Child(t, p, Far(near)) THEN p ELSE n,
           NEW t1, t1 = IF z = n THEN t ELSE Rotate(t, z, near)
    PROVE  LineUp(t, T, t1, z, near, t1.p[z], t.p[p])
<1>1. /\ p \in T /\ p # n /\ n # t.root /\ n # Nil
      /\ \E d \in Sides : Child(t, p, d) = n
  <2>1. HangsOn(t, n, p) /\ p # n /\ p \in T \cup {Null} /\ (p = Null <=> t.root = n)
    BY Hanging
  <2>2. n # Nil
    BY TreeTypes
  <2> QED BY <2>1, <2>2 DEF HangsOn
<1>2. PICK g : g = t.p[p]
  OBVIOUS
<1>3. g \in T /\ g # p /\ near \in Sides /\ Child(t, g, near) = p
  BY <1>1, <1>2, SideOfChild
<1>4. CASE n # Child(t, p, Far(near))
  <2>1. z = n /\ t1 = t
    BY <1>4
  <2> QED BY <1>1, <1>2, <1>3, <2>1 DEF LineUp
<1>5. CASE n = Child(t, p, Far(near))
  <2>1. z = p /\ t1 = Rotate(t, p, near)
    BY <1>1, <1>5
  <2>2. Rotated(t, t1, T, p, n, near)
    BY <1>1, <1>3, <1>5, <2>1, RotateKeeps
  <2>3. n # g
    <3>1. t.p[t.p[n]] # n
      <4> SUFFICES ASSUME g = n PROVE FALSE
        BY <1>2
      <4>1. ChildSound(t, T, s, p, Far(near), n) /\ ChildSound(t, T, s, g, near, p)
        BY <1>1, <1>3, <1>5, SideFacts, ChildFacts
      <4> QED BY <1>1, <4>1 DEF ChildSound
    <3> QED BY <1>2, <3>1
  <2> QED BY <1>1, <1>2, <1>3, <2>1, <2>2, <2>3 DEF LineUp, Rotated
<1> QED BY <1>4, <1>5

Blackened(u, T) == (\E s : IsTree(u, T, s)) /\ u.c[Nil] = 0 /\ u.c[u.root] = 0

\* fix_insert: the rotation at the grandparent.
LEMMA InsertRotates ==
    ASSUME NEW t, NEW T, NEW t1, NEW z, NEW near, NEW m, NEW g, LineUp(t, T, t1, z, near, m, g),
           t.c[Nil] = 0, t.c[t.root] = 0
    PROVE  /\ Paint(Paint(t1, m, 0), g, 1).p = t1.p
           /\ Blackened(Rotate(Paint(Paint(t1, m, 0), g, 1), g, Far(near)), T)
<1>0. PICK t2, u : t2 = Paint(Paint(t1, m, 0), g, 1) /\ u = Rotate(t2, g, Far(near))
  OBVIOUS
<1>1. PICK s1 : IsTree(t1, T, s1)
  BY DEF LineUp
<1>2. /\ t1.root = t.root /\ t1.c = t.c /\ near \in Sides
      /\ z \in T /\ m \in T /\ g \in T /\ m # g
      /\ t1.p[z] = m /\ t1.p[m] = g /\ Child(t1, g, near) = m
  BY DEF LineUp
<1>3. /\ T \subseteq Cells /\ Nil \notin T /\ t1 \in Trees /\ Nil \in Cells /\ t1.root \in Cells
      /\ 0 \in {0, 1} /\ 1 \in {0, 1}
  BY <1>1, TreeTypes, TreeFields DEF Cells
<1>4. PICK ta : ta = Paint(t1, m, 0)
  OBVIOUS
<1>a. Repainted(t1, ta, T, s1, m, 0)
  BY <1>1, <1>2, <1>3, <1>4, PaintKeeps
<1>5. /\ IsTree(ta, T, s1) /\ ta.c = [t1.c EXCEPT ![m] = 0]
      /\ ta.root = t1.root /\ ta.p = t1.p /\ (\A e, d : Child(ta, e, d) = Child(t1, e, d))
  BY <1>a DEF Repainted
<1>6. t2 = Paint(ta, g, 1)
  BY <1>0, <1>4
<1>b. Repainted(ta, t2, T, s1, g, 1)
  BY <1>2, <1>3, <1>5, <1>6, PaintKeeps
<1>7. /\ IsTree(t2, T, s1) /\ t2.c = [ta.c EXCEPT ![g] = 1]
      /\ t2.root = ta.root /\ t2.p = ta.p /\ (\A e, d : Child(t2, e, d) = Child(ta, e, d))
  BY <1>b DEF Repainted
<1>8. u = Rotate(t2, g, Far(near)) /\ m = Child(t2, g, Far(Far(near))) /\ Far(near) \in Sides
  BY <1>0, <1>2, <1>5, <1>7, SideFacts
<1>c. Rotated(t2, u, T, g, m, Far(near))
  <2>1. IsTree(t2, T, s1) /\ m # Nil
    BY <1>2, <1>3, <1>7
  <2> QED BY <1>2, <1>8, <2>1, RotateKeeps
<1>9. /\ \E s2 : IsTree(u, T, s2)
      /\ u.c = t2.c /\ u.root = IF t2.root = g THEN m ELSE t2.root
  BY <1>c DEF Rotated
<1>10. \A e \in Cells : t2.c[e] = IF e = g THEN 1 ELSE IF e = m THEN 0 ELSE t.c[e]
  BY <1>2, <1>3, <1>5, <1>7, TreeFields
<1>11. u.c[Nil] = 0 /\ u.c[u.root] = 0
  BY <1>2, <1>3, <1>5, <1>7, <1>9, <1>10
<1>12. t2.p = t1.p /\ Blackened(u, T)
  BY <1>5, <1>7, <1>9, <1>11 DEF Blackened
<1> QED BY <1>0, <1>12

\* fix_insert: a red uncle.
LEMMA InsertRepaints ==
    ASSUME NEW t, NEW T, NEW s, IsTree(t, T, s), NEW p \in T, NEW g \in T, NEW k \in T,
           p # t.root, k # t.root, t.c[Nil] = 0, t.c[t.root] = 0,
           NEW u, u = Paint(Paint(Paint(t, p, 0), k, 0), g, 1)
    PROVE  IsTree(u, T, s) /\ u.c[Nil] = 0 /\ (u.c[u.root] = 0 \/ u.root = g)
<1>1. /\ T \subseteq Cells /\ Nil \notin T /\ t \in Trees /\ Nil \in Cells /\ t.root \in Cells
      /\ 0 \in {0, 1} /\ 1 \in {0, 1}
  BY TreeTypes, TreeFields DEF Cells
<1>2. PICK ta : ta = Paint(t, p, 0)
  OBVIOUS
<1>3. IsTree(ta, T, s) /\ ta.c = [t.c EXCEPT ![p] = 0] /\ ta.root = t.root
  <2>1. Repainted(t, ta, T, s, p, 0)
    BY <1>1, <1>2, PaintKeeps
  <2> QED BY <2>1 DEF Repainted
<1>4. PICK tb : tb = Paint(ta, k, 0)
  OBVIOUS
<1>5. IsTree(tb, T, s) /\ tb.c = [ta.c EXCEPT ![k] = 0] /\ tb.root = ta.root
  <2>1. Repainted(ta, tb, T, s, k, 0)
    BY <1>1, <1>3, <1>4, PaintKeeps
  <2> QED BY <2>1 DEF Repainted
<1>6. u = Paint(tb, g, 1)
  BY <1>2, <1>4
<1>7. IsTree(u, T, s) /\ u.c = [tb.c EXCEPT ![g] = 1] /\ u.root = tb.root
  <2>1. Repainted(tb, u, T, s, g, 1)
    BY <1>1, <1>5, <1>6, PaintKeeps
  <2> QED BY <2>1 DEF Repainted
<1>8. \A e \in Cells : u.c[e] = IF e = g THEN 1 ELSE IF e = k \/ e = p THEN 0 ELSE t.c[e]
  BY <1>1, <1>3, <1>5, <1>7, TreeFields
<1> QED BY <1>1, <1>3, <1>5, <1>7, <1>8

\* fix_delete: x_ hangs on side near of p in a search tree with a black root.
Doubly(t, T, x_, p, near) ==
    /\ \E s : IsTree(t, T, s)
    /\ x_ \in T /\ p \in T /\ near \in Sides /\ Child(t, p, near) = x_
    /\ t.c[Nil] = 0 /\ t.c[t.root] = 0

LEMMA DoublyFacts ==
    ASSUME NEW t, NEW T, NEW x_, NEW p, NEW near, Doubly(t, T, x_, p, near),
           NEW w, w = Child(t, p, Far(near)), w # Nil
    PROVE  /\ t.p[x_] = p /\ w \in T /\ w # p /\ w # x_ /\ w # t.root /\ t \in Trees
           /\ T \subseteq Cells /\ Nil \notin T /\ Nil \in Cells /\ t.root \in T
           /\ Far(near) \in Sides /\ 0 \in {0, 1} /\ 1 \in {0, 1}
<1>1. PICK s : IsTree(t, T, s)
  BY DEF Doubly
<1>2. p \in T /\ x_ \in T /\ near \in Sides /\ Child(t, p, near) = x_ /\ Far(near) \in Sides
  BY SideFacts DEF Doubly
<1>3. ChildSound(t, T, s, p, near, x_) /\ ChildSound(t, T, s, p, Far(near), w)
  BY <1>1, <1>2, ChildFacts
<1>4. t \in Trees /\ T \subseteq Cells /\ Nil \notin T /\ Nil \in Cells /\ s[Nil] = {}
  <2>1. Nil \in Cells /\ s[Nil] = {}
    BY <1>1 DEF IsTree, Cells
  <2> QED BY <1>1, <2>1, TreeTypes
<1>5. t.root \in T
  <2>1. t.root \in T \cup {Nil} /\ s[t.root] = T
    BY <1>1 DEF IsTree
  <2> QED BY <1>2, <1>4, <2>1
<1> QED BY <1>2, <1>3, <1>4, <1>5 DEF ChildSound

LEMMA SiblingLifted ==
    ASSUME NEW t, NEW T, NEW x_, NEW p, NEW near, Doubly(t, T, x_, p, near),
           NEW w, w = Child(t, p, Far(near)), w # Nil,
           NEW u, u = Rotate(Paint(Paint(t, w, 0), p, 1), p, near)
    PROVE  Doubly(u, T, x_, p, near)
<1>1. PICK s : IsTree(t, T, s)
  BY DEF Doubly
<1>2. /\ x_ \in T /\ p \in T /\ near \in Sides /\ Child(t, p, near) = x_
      /\ t.c[Nil] = 0 /\ t.c[t.root] = 0
  BY DEF Doubly
<1>3. /\ t.p[x_] = p /\ w \in T /\ w # p /\ w # x_ /\ w # t.root /\ t \in Trees
      /\ T \subseteq Cells /\ Nil \notin T /\ Nil \in Cells /\ t.root \in T
      /\ Far(near) \in Sides /\ 0 \in {0, 1} /\ 1 \in {0, 1}
  BY DoublyFacts
<1>4. PICK ta : ta = Paint(t, w, 0)
  OBVIOUS
<1>5. Repainted(t, ta, T, s, w, 0)
  BY <1>1, <1>3, <1>4, PaintKeeps
<1>6. IsTree(ta, T, s)
  BY <1>5 DEF Repainted
<1>7. PICK tb : tb = Paint(ta, p, 1)
  OBVIOUS
<1>8. Repainted(ta, tb, T, s, p, 1)
  BY <1>2, <1>3, <1>6, <1>7, PaintKeeps
<1>9. IsTree(tb, T, s) /\ tb.root = t.root /\ \A e, d : Child(tb, e, d) = Child(t, e, d)
  BY <1>5, <1>8 DEF Repainted
<1>10. Rotated(tb, u, T, p, w, near)
  <2>1. w = Child(tb, p, Far(near)) /\ w # Nil /\ u = Rotate(tb, p, near)
    BY <1>4, <1>7, <1>9
  <2> QED BY <1>2, <1>9, <2>1, RotateKeeps
<1>11. \A e \in Cells : tb.c[e] = IF e = p THEN 1 ELSE IF e = w THEN 0 ELSE t.c[e]
  BY <1>2, <1>3, <1>5, <1>8, TreeFields DEF Repainted
<1>12. /\ \E s1 : IsTree(u, T, s1)
       /\ u.c = tb.c /\ u.root = IF t.root = p THEN w ELSE t.root
       /\ Child(u, p, near) = x_
  BY <1>2, <1>9, <1>10 DEF Rotated
<1>13. u.c[Nil] = 0 /\ u.c[u.root] = 0
  BY <1>2, <1>3, <1>11, <1>12
<1> QED BY <1>2, <1>12, <1>13 DEF Doubly

LEMMA NephewLifted ==
    ASSUME NEW t, NEW T, NEW x_, NEW p, NEW near, Doubly(t, T, x_, p, near),
           NEW w, w = Child(t, p, Far(near)), w # Nil,
           t.c[Child(t, w, Far(near))] # 1,
           ~(t.c[t.l[w]] = 0 /\ t.c[t.r[w]] = 0),
           NEW u, u = Rotate(Paint(Paint(t, Child(t, w, near), 0), w, 1), w, Far(near))
    PROVE  Doubly(u, T, x_, p, near)
<1>1. PICK s : IsTree(t, T, s)
  BY DEF Doubly
<1>2. /\ x_ \in T /\ p \in T /\ near \in Sides /\ Child(t, p, near) = x_
      /\ t.c[Nil] = 0 /\ t.c[t.root] = 0
  BY DEF Doubly
<1>3. /\ t.p[x_] = p /\ w \in T /\ w # p /\ w # x_ /\ w # t.root /\ t \in Trees
      /\ T \subseteq Cells /\ Nil \notin T /\ Nil \in Cells /\ t.root \in T
      /\ Far(near) \in Sides /\ 0 \in {0, 1} /\ 1 \in {0, 1}
  BY DoublyFacts
<1>4. PICK k : k = Child(t, w, near)
  OBVIOUS
<1>5. ChildSound(t, T, s, w, near, k) /\ ChildSound(t, T, s, p, Far(near), w)
  BY <1>1, <1>2, <1>3, <1>4, ChildFacts
<1>6. k # Nil
  <2>1. Child(t, w, Far(near)) \in T \cup {Nil}
    BY <1>1, <1>3 DEF IsTree
  <2>2. t.c[Child(t, w, Far(near))] = 0
    BY <1>3, <2>1, TreeFields
  <2>3. t.c[k] # 0
    BY <1>2, <1>4, <2>2 DEF Child, Far, Sides
  <2> QED BY <1>2, <2>3
<1>7. k \in T /\ k # w /\ k # p
  BY <1>3, <1>5, <1>6 DEF ChildSound
<1>8. PICK ta : ta = Paint(t, k, 0)
  OBVIOUS
<1>9. Repainted(t, ta, T, s, k, 0)
  BY <1>1, <1>3, <1>7, <1>8, PaintKeeps
<1>10. IsTree(ta, T, s)
  BY <1>9 DEF Repainted
<1>11. PICK tb : tb = Paint(ta, w, 1)
  OBVIOUS
<1>12. Repainted(ta, tb, T, s, w, 1)
  BY <1>3, <1>10, <1>11, PaintKeeps
<1>13. IsTree(tb, T, s) /\ tb.root = t.root /\ \A e, d : Child(tb, e, d) = Child(t, e, d)
  BY <1>9, <1>12 DEF Repainted
<1>14. Rotated(tb, u, T, w, k, Far(near))
  <2>1. k = Child(tb, w, Far(Far(near))) /\ u = Rotate(tb, w, Far(near))
    BY <1>2, <1>4, <1>8, <1>11, <1>13, SideFacts
  <2> QED BY <1>3, <1>6, <1>13, <2>1, RotateKeeps
<1>15. \A e \in Cells : tb.c[e] = IF e = w THEN 1 ELSE IF e = k THEN 0 ELSE t.c[e]
  BY <1>3, <1>7, <1>9, <1>12, TreeFields DEF Repainted
<1>16. /\ \E s1 : IsTree(u, T, s1)
       /\ u.c = tb.c /\ u.root = t.root /\ Child(u, p, near) = x_
  <2>1. Child(tb, p, near) = x_ /\ tb.root # w
    BY <1>2, <1>3, <1>13
  <2> QED BY <1>2, <1>3, <1>7, <1>13, <1>14, <2>1 DEF Rotated
<1>17. u.c[Nil] = 0 /\ u.c[u.root] = 0
  BY <1>2, <1>3, <1>7, <1>15, <1>16
<1> QED BY <1>2, <1>16, <1>17 DEF Doubly

LEMMA SiblingDarkened ==
    ASSUME NEW t, NEW T, NEW x_, NEW p, NEW near, Doubly(t, T, x_, p, near),
           NEW w, w = Child(t, p, Far(near)), w # Nil, NEW u, u = Paint(t, w, 1)
    PROVE  (\E s : IsTree(u, T, s)) /\ u.c[Nil] = 0 /\ u.c[u.root] = 0
<1>1. PICK s : IsTree(t, T, s)
  BY DEF Doubly
<1>2. /\ w \in T /\ w # t.root /\ t \in Trees /\ T \subseteq Cells /\ Nil \notin T
      /\ Nil \in Cells /\ t.root \in T /\ 1 \in {0, 1} /\ t.c[Nil] = 0 /\ t.c[t.root] = 0
  <2>1. t.c[Nil] = 0 /\ t.c[t.root] = 0
    BY DEF Doubly
  <2> QED BY <2>1, DoublyFacts
<1>3. Repainted(t, u, T, s, w, 1)
  BY <1>1, <1>2, PaintKeeps
<1> QED BY <1>2, <1>3, TreeFields DEF Repainted

Standing(u, T) == (\E s : IsTree(u, T, s)) /\ u.c[Nil] = 0 /\ u.root \in T

LEMMA SiblingRises ==
    ASSUME NEW t, NEW T, NEW x_, NEW p, NEW near, Doubly(t, T, x_, p, near),
           NEW w, w = Child(t, p, Far(near)), w # Nil
    PROVE  Standing(SiblingUp(t, x_, w, near), T)
<1>0. PICK t3, t4, u : /\ t3 = Paint(Paint(t, w, t.c[t.p[x_]]), t.p[x_], 0)
                       /\ t4 = Paint(t3, Child(t3, w, Far(near)), 0)
                       /\ u = Rotate(t4, t4.p[x_], near)
  OBVIOUS
<1>1. PICK s : IsTree(t, T, s)
  BY DEF Doubly
<1>2. /\ x_ \in T /\ p \in T /\ near \in Sides /\ Child(t, p, near) = x_
      /\ t.c[Nil] = 0 /\ t.c[t.root] = 0
  BY DEF Doubly
<1>3. /\ t.p[x_] = p /\ w \in T /\ w # p /\ w # x_ /\ w # t.root /\ t \in Trees
      /\ T \subseteq Cells /\ Nil \notin T /\ Nil \in Cells /\ t.root \in T
      /\ Far(near) \in Sides /\ 0 \in {0, 1} /\ 1 \in {0, 1}
  BY DoublyFacts
<1>4. PICK e : e = t.c[p]
  OBVIOUS
<1>5. e \in {0, 1}
  BY <1>2, <1>3, <1>4, TreeFields
<1>6. PICK ta : ta = Paint(t, w, e)
  OBVIOUS
<1>7. Repainted(t, ta, T, s, w, e)
  BY <1>1, <1>3, <1>5, <1>6, PaintKeeps
<1>8. IsTree(ta, T, s) /\ t3 = Paint(ta, p, 0)
  BY <1>0, <1>3, <1>4, <1>6, <1>7 DEF Repainted
<1>9. Repainted(ta, t3, T, s, p, 0)
  BY <1>2, <1>3, <1>8, PaintKeeps
<1>10. IsTree(t3, T, s)
  BY <1>9 DEF Repainted
<1>11. PICK k : k = Child(t3, w, Far(near))
  OBVIOUS
<1>12. k \in Cells
  <2>1. k \in T \cup {Nil}
    BY <1>3, <1>10, <1>11 DEF IsTree
  <2> QED BY <1>3, <2>1
<1>13. Repainted(t3, t4, T, s, k, 0)
  BY <1>0, <1>3, <1>10, <1>11, <1>12, PaintKeeps
<1>14. IsTree(t4, T, s) /\ t4.root = t.root /\ t4.p = t.p
  BY <1>7, <1>9, <1>13 DEF Repainted
<1>15. Rotated(t4, u, T, p, w, near)
  <2>1. Child(t4, p, Far(near)) = Child(t3, p, Far(near))
    BY <1>13, Zenon DEF Repainted
  <2>2. Child(t3, p, Far(near)) = Child(ta, p, Far(near))
    BY <1>9, Zenon DEF Repainted
  <2>3. Child(ta, p, Far(near)) = Child(t, p, Far(near))
    BY <1>7, Zenon DEF Repainted
  <2>4. w = Child(t4, p, Far(near)) /\ w # Nil
    BY <2>1, <2>2, <2>3
  <2>5. u = Rotate(t4, p, near)
    BY <1>0, <1>3, <1>14
  <2>6. IsTree(t4, T, s) /\ p \in T /\ near \in Sides
    BY <1>2, <1>14
  <2> QED BY ONLY <2>4, <2>5, <2>6, RotateKeeps
<1>16. t4.c[Nil] = 0
  <2>1. ta.c[Nil] = 0 /\ ta.c = [t.c EXCEPT ![w] = e]
    BY <1>2, <1>3, <1>7, TreeFields DEF Repainted
  <2>2. t3.c[Nil] = 0 /\ t3 \in Trees /\ ta \in Trees
    BY <1>2, <1>3, <1>8, <1>9, <1>10, <2>1, TreeTypes, TreeFields DEF Repainted
  <2> QED BY <1>3, <1>12, <1>13, <2>2, TreeFields DEF Repainted
<1>17. (\E s1 : IsTree(u, T, s1)) /\ u.c = t4.c /\ u.root = IF t4.root = p THEN w ELSE t4.root
  BY <1>15 DEF Rotated
<1>18. Standing(u, T)
  BY <1>3, <1>14, <1>16, <1>17 DEF Standing
<1> QED BY <1>0, <1>18 DEF SiblingUp
-----------------------------------------------------------------------------
(* The invariant: until fix_delete takes the sentinel for a sibling, the tree is a *)
(* search tree of the orders linked into it, its root is black but for the node    *)
(* under repair, and the running call is at a node that its loop may stand at.     *)

\* The orders linked into the tree while a call runs.
InTree == CASE pc = "fix_insert" -> order_map_ \cup {node}
            [] pc \in {"fix_delete", "removed"} -> order_map_ \ {node}
            [] OTHER -> order_map_

\* insert looks for the place of the leaf n and has come from b to a.
Descending(t, T, s, n, a, b) ==
    /\ t.l[n] = Nil /\ t.r[n] = Nil /\ a \in T \cup {Nil}
    /\ \/ b = Null /\ a = t.root
       \/ /\ b \in T /\ Fits(t, T, s, n, b)
          /\ a = Child(t, b, IF LeftOf(n, b) THEN "left" ELSE "right")

\* remove cuts out n itself, or has come to b in its search for n's successor.
Seeking(t, s, at, n, b) ==
    \/ at = "splice" /\ b = n /\ (t.l[n] = Nil \/ t.r[n] = Nil)
    \/ /\ t.l[n] # Nil /\ t.r[n] # Nil /\ Leads(t, s, n, b)
       /\ at = "splice" => t.l[b] = Nil

Place(t, T, s, at, n, a, b) ==
    /\ at = "descend" => Descending(t, T, s, n, a, b)
    /\ at \in {"fix_insert", "fix_delete"} => a \in T
    /\ at \in {"find_min", "splice"} => Seeking(t, s, at, n, b)

Painted(t, at, a) ==
    /\ t.c[Nil] = 0
    /\ t.c[t.root] = 0 \/ (at \in {"fix_insert", "fix_delete"} /\ t.root = a)

Holds(t, T, at, n, a, b) ==
    Painted(t, at, a) /\ \E s : IsTree(t, T, s) /\ Place(t, T, s, at, n, a, b)

TreeInv == ~lame => {node, x, y} \subseteq Links /\ Holds(Tree, InTree, pc, node, x, y)

LEMMA TreeBecomes == ASSUME NEW u \in Trees, Becomes(u) PROVE Tree' = u
<1>1. Tree' = [root |-> u.root, l |-> u.l, r |-> u.r, p |-> u.p, c |-> u.c]
  BY DEF Becomes, Tree
<1> QED BY <1>1, TreeFields

\* Fields of nodes outside the tree do not matter to it.
LEMMA Elsewhere ==
    ASSUME NEW t, NEW T, NEW s, IsTree(t, T, s), NEW u \in Trees, u.root = t.root,
           \A n \in T : u.l[n] = t.l[n] /\ u.r[n] = t.r[n] /\ u.p[n] = t.p[n]
    PROVE  IsTree(u, T, s)
<1>1. \A n \in T, d \in Sides : Child(u, n, d) = Child(t, n, d)
  BY DEF Child
<1>2. \A n \in T, d \in Sides : Child(t, n, d) \in T \cup {Nil}
  BY DEF IsTree
<1>3. T \subseteq Nodes /\ s \in [Cells -> SUBSET T] /\ u.root \in T \cup {Nil} /\ s[Nil] = {} /\ s[u.root] = T
  BY DEF IsTree
<1>4. u.root # Nil => u.p[u.root] = Null
  BY <1>3 DEF IsTree
<1>5. \A n \in T : s[n] = {n} \cup s[u.l[n]] \cup s[u.r[n]]
  BY DEF IsTree
<1>6. ASSUME NEW n \in T, NEW d \in Sides
      PROVE  /\ Child(u, n, d) \in T \cup {Nil}
             /\ Child(u, n, d) # Nil => u.p[Child(u, n, d)] = n
             /\ \A m \in s[Child(u, n, d)] : On(d, m, n)
  BY <1>1, <1>2 DEF IsTree
<1>7. ASSUME NEW n \in T \ {u.root}
      PROVE  u.p[n] \in T /\ \E d \in Sides : Child(u, u.p[n], d) = n
  <2>1. t.p[n] \in T /\ \E d \in Sides : Child(t, t.p[n], d) = n
    BY DEF IsTree
  <2> QED BY <1>1, <2>1
<1> QED BY <1>3, <1>4, <1>5, <1>6, <1>7 DEF IsTree

\* Every node lies below the root: it fits anywhere from there.
LEMMA FitsAtRoot ==
    ASSUME NEW t, NEW T, NEW s, IsTree(t, T, s), t.root \in T, NEW n
    PROVE  Fits(t, T, s, n, t.root)
<1> SUFFICES ASSUME NEW a \in T, NEW d \in Sides, t.root \in s[Child(t, a, d)] PROVE FALSE
  BY DEF Fits
<1>1. PICK c : c = Child(t, a, d)
  OBVIOUS
<1>2. ChildSound(t, T, s, a, d, c)
  BY <1>1, ChildFacts
<1>3. s[Nil] = {} /\ (t.root # Nil => t.p[t.root] = Null)
  BY DEF IsTree
<1>4. c \in T /\ t.root # c /\ s[c] \subseteq T
  BY <1>1, <1>2, <1>3 DEF ChildSound
<1>5. t.p[t.root] \in s[c]
  BY <1>1, <1>4, Subtree
<1> QED BY <1>3, <1>4, <1>5, TreeTypes

LEMMA DescentGoesOn ==
    ASSUME NEW t, NEW T, NEW s, IsTree(t, T, s), NEW n \in Nodes \ T, NEW a \in T, NEW b,
           Descending(t, T, s, n, a, b)
    PROVE  Descending(t, T, s, n, Child(t, a, IF LeftOf(n, a) THEN "left" ELSE "right"), a)
<1>1. PICK d : d = IF LeftOf(n, a) THEN "left" ELSE "right"
  OBVIOUS
<1>2. d \in Sides
  BY <1>1 DEF Sides
<1>3. Fits(t, T, s, n, a)
  <2>1. CASE b = Null /\ a = t.root
    BY <2>1, FitsAtRoot
  <2>2. CASE b \in T /\ Fits(t, T, s, n, b) /\ a = Child(t, b, IF LeftOf(n, b) THEN "left" ELSE "right")
    <3>1. PICK e : e = IF LeftOf(n, b) THEN "left" ELSE "right"
      OBVIOUS
    <3>2. e \in Sides /\ On(e, n, b)
      <4>1. LeftOf(n, b) \/ LeftOf(b, n)
        BY <2>2, TreeTypes, KeysOrdered
      <4> QED BY <3>1, <4>1 DEF Sides, On
    <3>3. a = Child(t, b, e) /\ a # Nil
      BY <2>2, <3>1, TreeTypes
    <3> QED BY <2>2, <3>2, <3>3, FitsBelow
  <2> QED BY <2>1, <2>2 DEF Descending
<1>4. Child(t, a, d) \in T \cup {Nil}
  BY <1>2 DEF IsTree
<1> QED BY <1>1, <1>3, <1>4 DEF Descending

\* The leaf n linked below b, on the side its key belongs.
Linked(t, n, b) ==
    LET t2 == [t EXCEPT !.p[n] = b]
    IN  CASE b = Null -> [t2 EXCEPT !.root = n]
          [] b # Null /\ LeftOf(n, b) -> [t2 EXCEPT !.l[b] = n]
          [] OTHER -> [t2 EXCEPT !.r[b] = n]

LEMMA LeafLinked ==
    ASSUME NEW t, NEW T, NEW s, IsTree(t, T, s), NEW n \in Nodes \ T, NEW b \in Links,
           Descending(t, T, s, n, Nil, b), NEW u, u = Linked(t, n, b)
    PROVE  /\ \E s2 : IsTree(u, T \cup {n}, s2)
           /\ u \in Trees /\ u.c = t.c /\ u.root = IF b = Null THEN n ELSE t.root
<1>1. /\ t \in Trees /\ n \in Cells /\ T \subseteq Cells /\ Null \notin T /\ n \in Links
      /\ T \subseteq Nodes /\ Nil # Null
  BY TreeTypes, NodeTypes DEF Cells, Links
<1>2. PICK t2 : t2 = ParentSet(t, n, b)
  OBVIOUS
<1>3. /\ t2 \in Trees /\ t2.p = [t.p EXCEPT ![n] = b]
      /\ t2.root = t.root /\ t2.l = t.l /\ t2.r = t.r /\ t2.c = t.c
  BY <1>1, <1>2, SetParent
<1>4. CASE b = Null
  <2>1. u = RootSet(t2, n)
    BY <1>2, <1>4 DEF Linked, ParentSet, RootSet
  <2>2. /\ u \in Trees /\ u.root = n
        /\ u.l = t2.l /\ u.r = t2.r /\ u.p = t2.p /\ u.c = t2.c
    BY <1>1, <1>3, <2>1, SetRoot
  <2>3. T = {}
    <3>1. t.root = Nil
      BY <1>1, <1>4 DEF Descending
    <3> QED BY <3>1 DEF IsTree
  <2>4. t.l[n] = Nil /\ t.r[n] = Nil
    BY DEF Descending
  <2>5. \E s2 : IsTree(u, T \cup {n}, s2)
    BY <1>3, <1>4, <2>2, <2>3, <2>4, LinkKeeps
  <2> QED BY <1>3, <1>4, <2>2, <2>5
<1>5. CASE b # Null
  <2>1. PICK e : e = IF LeftOf(n, b) THEN "left" ELSE "right"
    OBVIOUS
  <2>2. b \in T /\ Fits(t, T, s, n, b) /\ Child(t, b, e) = Nil /\ e \in Sides
    BY <1>5, <2>1 DEF Descending, Sides
  <2>3. On(e, n, b)
    <3>1. LeftOf(n, b) \/ LeftOf(b, n)
      BY <1>1, <2>2, KeysOrdered
    <3> QED BY <2>1, <3>1 DEF On
  <2>4. u = ChildSet(t2, e, b, n)
    BY <1>2, <1>5, <2>1 DEF Linked, ParentSet, ChildSet, LeftSet, RightSet
  <2>5. ChildEdit(t2, u, e, b, n)
    BY <1>1, <1>3, <2>2, <2>4, SetChild
  <2>6. /\ u \in Trees /\ u.root = t.root /\ u.p = [t.p EXCEPT ![n] = b] /\ u.c = t.c
        /\ \A a \in Cells, d \in Sides :
             Child(u, a, d) = IF a = b /\ d = e THEN n ELSE Child(t, a, d)
    <3>1. \A a, d : Child(t2, a, d) = Child(t, a, d)
      BY <1>3 DEF Child
    <3> QED BY <1>3, <2>5, <3>1 DEF ChildEdit
  <2>7. t.l[n] = Nil /\ t.r[n] = Nil
    BY DEF Descending
  <2>8. \E s2 : IsTree(u, T \cup {n}, s2)
    BY <2>2, <2>3, <2>6, <2>7, LinkKeeps
  <2> QED BY <1>5, <2>6, <2>8
<1> QED BY <1>4, <1>5

\* The invariant seen by a step: the tree, the orders in it and their subtrees.
LEMMA Seen ==
    ASSUME TreeInv, ~lame
    PROVE  /\ {node, x, y} \subseteq Links /\ Painted(Tree, pc, x)
           /\ \E s : IsTree(Tree, InTree, s) /\ Place(Tree, InTree, s, pc, node, x, y)
BY DEF TreeInv, Holds

LEMMA DescendKeeps == LevelsInv /\ TreeInv /\ Descend => TreeInv'
<1> SUFFICES ASSUME LevelsInv, TreeInv, Descend, ~lame' PROVE TreeInv'
  BY DEF TreeInv
<1>1. /\ pc = "descend" /\ x # Nil /\ ~lame /\ y' = x /\ pc' = pc /\ node' = node
      /\ order_map_' = order_map_ /\ x' = IF LeftOf(node, x) THEN left[x] ELSE right[x]
  BY DEF Descend
<1>2. Tree' = Tree
  BY DEF Descend, treeVars, Tree
<1>3. PICK t, T, e : t = Tree /\ T = order_map_ /\ e = IF LeftOf(node, x) THEN "left" ELSE "right"
  OBVIOUS
<1>4. InTree = T /\ InTree' = T /\ node \in Nodes \ T
  BY <1>1, <1>3 DEF InTree, LevelsInv, Inserting
<1>5. {node, x, y} \subseteq Links /\ Painted(t, pc, x)
  BY <1>1, <1>3, Seen
<1>6. PICK s : IsTree(t, T, s) /\ Place(t, T, s, pc, node, x, y)
  BY <1>1, <1>3, <1>4, Seen
<1>7. Descending(t, T, s, node, x, y)
  BY <1>1, <1>6 DEF Place
<1>8. x \in T
  BY <1>1, <1>7 DEF Descending
<1>9. x' = Child(t, x, e)
  BY <1>1, <1>3 DEF Child, Tree
<1>10. Descending(t, T, s, node, x', x)
  BY <1>3, <1>4, <1>6, <1>7, <1>8, <1>9, DescentGoesOn
<1>11. Place(t, T, s, pc', node', x', y')
  BY <1>1, <1>10 DEF Place
<1>12. Painted(t, pc', x')
  BY <1>1, <1>5 DEF Painted
<1>13. {node', x', y'} \subseteq Links
  <2>1. x' \in T \cup {Nil} /\ Nil \in Links
    BY <1>10 DEF Descending, Links
  <2> QED BY <1>1, <1>5, <1>6, <2>1, TreeTypes
<1>14. Holds(t, T, pc', node', x', y')
  BY <1>6, <1>11, <1>12 DEF Holds
<1> QED BY <1>2, <1>3, <1>4, <1>13, <1>14 DEF TreeInv

LEMMA LinkKept == LevelsInv /\ TreeInv /\ Link => TreeInv'
<1> SUFFICES ASSUME LevelsInv, TreeInv, Link, ~lame' PROVE TreeInv'
  BY DEF TreeInv
<1>1. /\ pc = "descend" /\ x = Nil /\ ~lame /\ y' = y /\ pc' = "fix_insert" /\ node' = node
      /\ order_map_' = order_map_ /\ x' = node /\ Becomes(Linked(Tree, node, y))
  BY DEF Link, Linked
<1>3. PICK t, T, u : t = Tree /\ T = order_map_ /\ u = Linked(Tree, node, y)
  OBVIOUS
<1>4. InTree = T /\ InTree' = T \cup {node} /\ node \in Nodes \ T
  BY <1>1, <1>3 DEF InTree, LevelsInv, Inserting
<1>5. {node, x, y} \subseteq Links /\ Painted(t, pc, x)
  BY <1>1, <1>3, Seen
<1>6. PICK s : IsTree(t, T, s) /\ Place(t, T, s, pc, node, x, y)
  BY <1>1, <1>3, <1>4, Seen
<1>7. Descending(t, T, s, node, Nil, y)
  BY <1>1, <1>6 DEF Place
<1>8. /\ \E s2 : IsTree(u, T \cup {node}, s2)
      /\ u \in Trees /\ u.c = t.c /\ u.root = IF y = Null THEN node ELSE t.root
  <2>1. y \in Links
    BY <1>5
  <2> QED BY <1>3, <1>4, <1>6, <1>7, <2>1, LeafLinked
<1>9. PICK s2 : IsTree(u, T \cup {node}, s2)
  BY <1>8
<1>10. Place(u, T \cup {node}, s2, pc', node', x', y')
  BY <1>1 DEF Place
<1>11. Painted(u, pc', x')
  BY <1>1, <1>5, <1>8 DEF Painted
<1>12. Tree' = u
  BY <1>1, <1>3, <1>8, TreeBecomes
<1>13. {node', x', y'} \subseteq Links
  BY <1>1, <1>5
<1>14. Holds(u, T \cup {node}, pc', node', x', y')
  BY <1>9, <1>10, <1>11 DEF Holds
<1> QED BY <1>4, <1>12, <1>13, <1>14 DEF TreeInv

\* The parts of fix_insert's second case, by name: z, the tree with z in line and the
\* tree with its colours.
Lowest(n, p, k) == IF n = k THEN p ELSE n
InLine(t, n, z, near) == IF z = n THEN t ELSE Rotate(t, z, near)
Recoloured(t, z) == Paint(Paint(t, t.p[z], 0), t.p[t.p[z]], 1)
Raised(t, z, near) == Rotate(t, t.p[t.p[z]], Far(near))
Lifted(t, n, z, near) == Raised(Recoloured(InLine(t, n, z, near), z), z, near)

LEMMA FixInsertParts ==
    ASSUME FixInsert
    PROVE  LET near == SideOf(Tree, parent[x])
               z == Lowest(x, parent[x], Child(Tree, parent[x], Far(near)))
               uncle == Child(Tree, parent[parent[x]], Far(near))
           IN  \/ /\ uncle # Nil
                  /\ Becomes(Paint(Paint(Paint(Tree, parent[x], 0), uncle, 0), parent[parent[x]], 1))
                  /\ x' = parent[parent[x]]
               \/ Becomes(Lifted(Tree, x, z, near)) /\ x' = z
BY Zenon DEF FixInsert, Lowest, InLine, Recoloured, Raised, Lifted

LEMMA FixInsertKeeps == LevelsInv /\ TreeInv /\ FixInsert => TreeInv'
<1> SUFFICES ASSUME LevelsInv, TreeInv, FixInsert, ~lame' PROVE TreeInv'
  BY DEF TreeInv
<1>1. /\ pc = "fix_insert" /\ ~lame /\ y' = y /\ pc' = pc /\ node' = node
      /\ order_map_' = order_map_ /\ RedParent(Tree, x)
  BY DEF FixInsert
<1>2. PICK t, T, p, g : t = Tree /\ T = order_map_ \cup {node} /\ p = t.p[x] /\ g = t.p[p]
  OBVIOUS
<1>3. InTree = T /\ InTree' = T
  BY <1>1, <1>2 DEF InTree
<1>4. {node, x, y} \subseteq Links /\ Painted(t, pc, x)
  BY <1>1, <1>2, Seen
<1>5. PICK s : IsTree(t, T, s) /\ Place(t, T, s, pc, node, x, y)
  BY <1>1, <1>2, <1>3, Seen
<1>6. x \in T
  BY <1>1, <1>5 DEF Place
<1>7. p # Null /\ t.c[p] = 1
  BY <1>1, <1>2 DEF RedParent
<1>8. p # t.root /\ t.root # x /\ t.c[t.root] = 0 /\ t.c[Nil] = 0
  <2>1. p = Null <=> t.root = x
    BY <1>2, <1>5, <1>6, Hanging
  <2> QED BY <1>4, <1>7, <2>1 DEF Painted
<1>9. PICK near, uncle, z : /\ near = SideOf(t, p) /\ uncle = Child(t, g, Far(near))
                            /\ z = IF x = Child(t, p, Far(near)) THEN p ELSE x
  OBVIOUS
<1>10. PICK t1 : t1 = IF z = x THEN t ELSE Rotate(t, z, near)
  OBVIOUS
<1>11. PICK t2 : t2 = Paint(Paint(t1, t1.p[z], 0), t1.p[t1.p[z]], 1)
  OBVIOUS
<1>12. t.p = parent /\ t.c = color
  BY <1>2 DEF Tree
<1>13. \/ /\ uncle # Nil
          /\ Becomes(Paint(Paint(Paint(t, p, 0), uncle, 0), g, 1)) /\ x' = g
       \/ Becomes(Rotate(t2, t2.p[t2.p[z]], Far(near))) /\ x' = z
  <2>1. parent[x] = p /\ parent[p] = g /\ Tree = t
    BY <1>2, <1>12
  <2>2. SideOf(Tree, parent[x]) = near /\ Child(Tree, parent[parent[x]], Far(near)) = uncle
    BY <1>9, <2>1
  <2>3. Lowest(x, parent[x], Child(Tree, parent[x], Far(near))) = z
    BY <1>9, <2>1 DEF Lowest
  <2>4. Rotate(t2, t2.p[t2.p[z]], Far(near)) = Lifted(Tree, x, z, near)
    BY <1>10, <1>11, <2>1 DEF InLine, Recoloured, Raised, Lifted
  <2> HIDE DEF Tree
  <2> QED BY ONLY FixInsert, <2>1, <2>2, <2>3, <2>4, FixInsertParts DEF Becomes
<1>14. LineUp(t, T, t1, z, near, t1.p[z], g)
  BY <1>2, <1>5, <1>6, <1>7, <1>8, <1>9, <1>10, InsertLinesUp
<1>15. p \in T /\ g \in T /\ near \in Sides
  <2>1. p \in T
    BY <1>2, <1>5, <1>6, <1>8, SideOfChild
  <2> QED BY <2>1, <1>14 DEF LineUp
<1>16. ASSUME uncle # Nil, Becomes(Paint(Paint(Paint(t, p, 0), uncle, 0), g, 1)), x' = g
       PROVE  TreeInv'
  <2>1. PICK u : u = Paint(Paint(Paint(t, p, 0), uncle, 0), g, 1)
    OBVIOUS
  <2>2. uncle \in T /\ uncle # t.root
    <3>1. Far(near) \in Sides
      BY <1>15, SideFacts
    <3>2. ChildSound(t, T, s, g, Far(near), uncle)
      BY <1>5, <1>9, <1>15, <3>1, ChildFacts
    <3> QED BY <1>16, <3>2 DEF ChildSound
  <2>3. IsTree(u, T, s) /\ u.c[Nil] = 0 /\ (u.c[u.root] = 0 \/ u.root = g)
    BY <1>5, <1>8, <1>15, <2>1, <2>2, InsertRepaints
  <2>4. Tree' = u
    BY <1>16, <2>1, <2>3, TreeTypes, TreeBecomes
  <2>5. Place(u, T, s, pc', node', x', y') /\ Painted(u, pc', x')
    BY <1>1, <1>15, <1>16, <2>3 DEF Place, Painted
  <2>6. {node', x', y'} \subseteq Links
    BY <1>1, <1>4, <1>5, <1>15, <1>16, TreeTypes
  <2>7. Holds(u, T, pc', node', x', y')
    BY <2>3, <2>5 DEF Holds
  <2> QED BY <1>3, <2>4, <2>6, <2>7 DEF TreeInv
<1>17. ASSUME Becomes(Rotate(t2, t2.p[t2.p[z]], Far(near))), x' = z
       PROVE  TreeInv'
  <2>1. PICK u : u = Rotate(t2, t2.p[t2.p[z]], Far(near))
    OBVIOUS
  <2>2. (\E s2 : IsTree(u, T, s2)) /\ u.c[Nil] = 0 /\ u.c[u.root] = 0 /\ z \in T
    <3>1. PICK m : m = t1.p[z]
      OBVIOUS
    <3>2. t1.p[m] = g /\ z \in T
      BY <1>14, <3>1 DEF LineUp
    <3>3. t2 = Paint(Paint(t1, m, 0), g, 1)
      BY <1>11, <3>1, <3>2
    <3>4. t2.p = t1.p /\ Blackened(Rotate(t2, g, Far(near)), T)
      BY <1>8, <1>14, <3>1, <3>3, InsertRotates
    <3>5. u = Rotate(t2, g, Far(near))
      BY <2>1, <3>1, <3>2, <3>4
    <3> QED BY <3>2, <3>4, <3>5 DEF Blackened
  <2>3. PICK s2 : IsTree(u, T, s2)
    BY <2>2
  <2>4. Tree' = u
    BY <1>17, <2>1, <2>3, TreeTypes, TreeBecomes
  <2>5. Place(u, T, s2, pc', node', x', y') /\ Painted(u, pc', x')
    BY <1>1, <1>17, <2>2 DEF Place, Painted
  <2>6. {node', x', y'} \subseteq Links
    BY <1>1, <1>4, <1>5, <1>17, <2>2, TreeTypes
  <2>7. Holds(u, T, pc', node', x', y')
    BY <2>3, <2>5 DEF Holds
  <2> QED BY <1>3, <2>4, <2>6, <2>7 DEF TreeInv
<1> QED BY <1>13, <1>16, <1>17

LEMMA InsertDoneKeeps == LevelsInv /\ TreeInv /\ InsertDone => TreeInv'
<1> SUFFICES ASSUME LevelsInv, TreeInv, InsertDone, ~lame' PROVE TreeInv'
  BY DEF TreeInv
<1>1. /\ pc = "fix_insert" /\ ~lame /\ pc' = "idle" /\ node' = Null /\ x' = Null /\ y' = Null
      /\ order_map_' = order_map_ \cup {node} /\ color' = [color EXCEPT ![root_] = 0]
      /\ root_' = root_ /\ left' = left /\ right' = right /\ parent' = parent
  BY DEF InsertDone
<1>2. PICK t, T, u : t = Tree /\ T = order_map_ \cup {node} /\ u = Paint(t, root_, 0)
  OBVIOUS
<1>3. InTree = T /\ InTree' = T
  BY <1>1, <1>2 DEF InTree
<1>4. Painted(t, pc, x)
  BY <1>1, <1>2, Seen
<1>5. PICK s : IsTree(t, T, s)
  BY <1>1, <1>2, <1>3, Seen
<1>6. /\ t \in Trees /\ root_ \in Cells /\ 0 \in {0, 1} /\ t.root = root_ /\ Nil \in Cells
      /\ t.c \in [Cells -> {0, 1}]
  <2>1. t \in Trees
    BY <1>5, TreeTypes
  <2> QED BY <1>2, <2>1, TreeFields DEF Tree, Cells
<1>7. Repainted(t, u, T, s, root_, 0)
  BY <1>2, <1>5, <1>6, PaintKeeps
<1>8. IsTree(u, T, s) /\ u.c = [t.c EXCEPT ![root_] = 0] /\ u.root = root_
  BY <1>6, <1>7 DEF Repainted
<1>9. Tree' = u
  <2>1. Becomes(u)
    <3>1. u.c = color' /\ u.root = root_ /\ u.l = left /\ u.r = right /\ u.p = parent
      BY <1>1, <1>2 DEF Tree, Paint
    <3> QED BY <1>1, <3>1 DEF Becomes
  <2> QED BY <1>8, <2>1, TreeTypes, TreeBecomes
<1>10. Painted(u, pc', x')
  BY <1>4, <1>6, <1>8 DEF Painted
<1>11. Place(u, T, s, pc', node', x', y')
  BY <1>1 DEF Place
<1>12. {node', x', y'} \subseteq Links
  BY <1>1 DEF Links
<1>13. Holds(u, T, pc', node', x', y')
  BY <1>8, <1>10, <1>11 DEF Holds
<1> QED BY <1>3, <1>9, <1>12, <1>13 DEF TreeInv

LEMMA FixDeleteKeeps == LevelsInv /\ TreeInv /\ FixDelete => TreeInv'
<1> SUFFICES ASSUME LevelsInv, TreeInv, FixDelete, ~lame' PROVE TreeInv'
  BY DEF TreeInv
<1>1. /\ pc = "fix_delete" /\ y' = y /\ pc' = pc /\ node' = node
      /\ order_map_' = order_map_ /\ x # root_
  BY DEF FixDelete
<1>2. PICK t, T, p : t = Tree /\ T = order_map_ \ {node} /\ p = t.p[x]
  OBVIOUS
<1>3. PICK near : near = SideOf(t, x)
  OBVIOUS
<1>4. PICK w, t1 : w = Sibling(t, x, near) /\ t1 = BlackSibling(t, x, near)
  OBVIOUS
<1>5. PICK w1, t2 : w1 = Sibling(t1, x, near) /\ t2 = FarNephew(t1, w1, near)
  OBVIOUS
<1>6. PICK w2, t3 : w2 = Sibling(t2, x, near) /\ t3 = SiblingUp(t2, x, w2, near)
  OBVIOUS
<1>7. \/ /\ Becomes(Paint(t1, w1, 1)) /\ x' = t1.p[x]
         /\ lame' = (lame \/ Nil \in {w, w1})
      \/ /\ ~(t1.c[t1.l[w1]] = 0 /\ t1.c[t1.r[w1]] = 0)
         /\ Becomes(t3) /\ x' = t3.root
         /\ lame' = (lame \/ Nil \in {w, w1, w2})
  <2> HIDE DEF Tree
  <2> QED BY ONLY FixDelete, <1>2, <1>3, <1>4, <1>5, <1>6 DEF FixDelete, Becomes
<1>8. ~lame /\ w # Nil /\ w1 # Nil
  BY <1>7
<1>9. InTree = T /\ InTree' = T
  BY <1>1, <1>2 DEF InTree
<1>10. {node, x, y} \subseteq Links /\ Painted(t, pc, x)
  BY <1>2, <1>8, Seen
<1>11. PICK s : IsTree(t, T, s) /\ Place(t, T, s, pc, node, x, y)
  BY <1>2, <1>8, <1>9, Seen
<1>12. x \in T /\ x # t.root /\ t.c[Nil] = 0 /\ t.c[t.root] = 0
  <2>1. t.root = root_
    BY <1>2 DEF Tree
  <2> QED BY <1>1, <1>10, <1>11, <2>1 DEF Place, Painted
<1>13. Doubly(t, T, x, p, near)
  <2>1. p \in T /\ near \in Sides /\ Child(t, p, near) = x
    BY <1>2, <1>3, <1>11, <1>12, SideOfChild
  <2> QED BY <1>11, <1>12, <2>1 DEF Doubly
<1>14. Doubly(t1, T, x, p, near)
  <2>1. w = Child(t, p, Far(near))
    BY <1>2, <1>4 DEF Sibling
  <2>2. t1 = t \/ t1 = Rotate(Paint(Paint(t, w, 0), p, 1), p, near)
    BY <1>2, <1>4 DEF BlackSibling
  <2> QED BY <1>8, <1>13, <2>1, <2>2, SiblingLifted
<1>15. t1.p[x] = p /\ w1 = Child(t1, p, Far(near)) /\ p \in T
  <2>1. PICK s1 : IsTree(t1, T, s1)
    BY <1>14 DEF Doubly
  <2>2. t1.p[x] = p /\ p \in T
    <3>1. ChildSound(t1, T, s1, p, near, x) /\ p \in T
      BY <1>14, <2>1, ChildFacts DEF Doubly
    <3> QED BY <1>11, <1>12, <3>1, TreeTypes DEF ChildSound
  <2> QED BY <1>5, <2>2 DEF Sibling
<1>16. ASSUME NEW u, NEW n, Becomes(u), x' = n, \E s1 : IsTree(u, T, s1), n \in T,
              u.c[Nil] = 0, u.c[u.root] = 0 \/ u.root = n
       PROVE  TreeInv'
  <2>1. PICK s1 : IsTree(u, T, s1)
    BY <1>16
  <2>2. Tree' = u
    BY <1>16, <2>1, TreeTypes, TreeBecomes
  <2>3. Place(u, T, s1, pc', node', x', y') /\ Painted(u, pc', x')
    BY <1>1, <1>16 DEF Place, Painted
  <2>4. {node', x', y'} \subseteq Links
    BY <1>1, <1>10, <1>11, <1>16, TreeTypes
  <2>5. Holds(u, T, pc', node', x', y')
    BY <2>1, <2>3 DEF Holds
  <2> QED BY <1>9, <2>2, <2>4, <2>5 DEF TreeInv
<1>17. ASSUME Becomes(Paint(t1, w1, 1)), x' = t1.p[x] PROVE TreeInv'
  <2>1. PICK u : u = Paint(t1, w1, 1)
    OBVIOUS
  <2>2. (\E s1 : IsTree(u, T, s1)) /\ u.c[Nil] = 0 /\ u.c[u.root] = 0
    BY <1>8, <1>14, <1>15, <2>1, SiblingDarkened
  <2> QED BY <1>15, <1>16, <1>17, <2>1, <2>2
<1>18. ASSUME ~(t1.c[t1.l[w1]] = 0 /\ t1.c[t1.r[w1]] = 0), Becomes(t3), x' = t3.root,
              lame' = (lame \/ Nil \in {w, w1, w2})
       PROVE  TreeInv'
  <2>1. w2 # Nil
    BY <1>18
  <2>2. Doubly(t2, T, x, p, near)
    <3>1. CASE t1.c[Child(t1, w1, Far(near))] = 1
      BY <1>5, <1>14, <3>1 DEF FarNephew
    <3>2. CASE t1.c[Child(t1, w1, Far(near))] # 1
      <4>1. t2 = Rotate(Paint(Paint(t1, Child(t1, w1, near), 0), w1, 1), w1, Far(near))
        BY <1>5, <3>2 DEF FarNephew
      <4> QED BY <1>8, <1>14, <1>15, <1>18, <3>2, <4>1, NephewLifted
    <3> QED BY <3>1, <3>2
  <2>3. w2 = Child(t2, p, Far(near))
    <3>1. PICK s2 : IsTree(t2, T, s2)
      BY <2>2 DEF Doubly
    <3>2. ChildSound(t2, T, s2, p, near, x)
      BY <2>2, <3>1, ChildFacts DEF Doubly
    <3>3. t2.p[x] = p
      BY <1>11, <1>12, <3>2, TreeTypes DEF ChildSound
    <3> QED BY <1>6, <3>3 DEF Sibling
  <2>4. Standing(t3, T)
    BY <1>6, <2>1, <2>2, <2>3, SiblingRises
  <2> QED BY <1>16, <1>18, <2>4 DEF Standing
<1> QED BY <1>7, <1>17, <1>18

LEMMA FindMinKeeps == LevelsInv /\ TreeInv /\ FindMin => TreeInv'
<1> SUFFICES ASSUME LevelsInv, TreeInv, FindMin, ~lame' PROVE TreeInv'
  BY DEF TreeInv
<1>1. /\ pc = "find_min" /\ ~lame /\ x' = x /\ node' = node /\ order_map_' = order_map_
      /\ IF left[y] = Nil THEN pc' = "splice" /\ y' = y ELSE pc' = pc /\ y' = left[y]
  BY DEF FindMin
<1>2. Tree' = Tree
  BY DEF FindMin, treeVars, Tree
<1>3. PICK t, T : t = Tree /\ T = order_map_
  OBVIOUS
<1>4. InTree = T /\ InTree' = T /\ node \in T /\ t.l = left
  BY <1>1, <1>3 DEF InTree, LevelsInv, Removing, Tree
<1>5. {node, x, y} \subseteq Links /\ Painted(t, pc, x)
  BY <1>1, <1>3, Seen
<1>6. PICK s : IsTree(t, T, s) /\ Place(t, T, s, pc, node, x, y)
  BY <1>1, <1>3, <1>4, Seen
<1>7. t.l[node] # Nil /\ t.r[node] # Nil /\ Leads(t, s, node, y)
  BY <1>1, <1>6 DEF Place, Seeking
<1>8. y \in T /\ t.l[y] \in T \cup {Nil} /\ (t.l[y] # Nil => Leads(t, s, node, t.l[y]))
  BY <1>4, <1>6, <1>7, LeadsLeft
<1>9. Seeking(t, s, pc', node', y') /\ pc' \in {"find_min", "splice"} /\ y' \in T
  BY <1>1, <1>4, <1>7, <1>8 DEF Seeking
<1>10. Place(t, T, s, pc', node', x', y')
  BY <1>9 DEF Place
<1>11. Painted(t, pc', x')
  BY <1>1, <1>5 DEF Painted
<1>12. {node', x', y'} \subseteq Links
  BY <1>1, <1>5, <1>6, <1>9, TreeTypes
<1>13. Holds(t, T, pc', node', x', y')
  BY <1>6, <1>10, <1>11 DEF Holds
<1> QED BY <1>2, <1>3, <1>4, <1>12, <1>13 DEF TreeInv

LEMMA SpliceKeeps == LevelsInv /\ TreeInv /\ Splice => TreeInv'
<1> SUFFICES ASSUME LevelsInv, TreeInv, Splice, ~lame' PROVE TreeInv'
  BY DEF TreeInv
<1>1. /\ pc = "splice" /\ ~lame /\ y' = y /\ node' = node /\ order_map_' = order_map_
      /\ x' = IF y = node /\ right[y] = Nil THEN left[y] ELSE right[y]
      /\ pc' = IF color[y] = 0 /\ x' # Nil THEN "fix_delete" ELSE "removed"
      /\ Becomes(Spliced(node, y))
  BY DEF Splice
<1>2. PICK t, T, z, w : t = Tree /\ T = order_map_ /\ z = node /\ w = y
  OBVIOUS
<1>3. /\ InTree = T /\ InTree' = T \ {z} /\ z \in T
      /\ t.l = left /\ t.r = right /\ t.c = color
  BY <1>1, <1>2 DEF InTree, LevelsInv, Removing, Tree
<1>4. {node, x, y} \subseteq Links /\ Painted(t, pc, x)
  BY <1>1, <1>2, Seen
<1>5. PICK s : IsTree(t, T, s) /\ Place(t, T, s, pc, node, x, y)
  BY <1>1, <1>2, <1>3, Seen
<1>6. t.c[Nil] = 0 /\ t.c[t.root] = 0
  BY <1>1, <1>4 DEF Painted
<1>7. Seeking(t, s, "splice", z, w)
  BY <1>1, <1>2, <1>5 DEF Place
<1>8. ASSUME NEW u, u = Spliced(z, w), \E s2 : IsTree(u, T \ {z}, s2), x' \in (T \ {z}) \cup {Nil},
             u.c[Nil] = 0, u.c[u.root] = 0 \/ (u.root = x' /\ color[y] = 0)
      PROVE  TreeInv'
  <2>1. PICK s2 : IsTree(u, T \ {z}, s2)
    BY <1>8
  <2>2. Tree' = u
    <3>1. Becomes(u)
      BY <1>1, <1>2, <1>8 DEF Becomes
    <3> QED BY <2>1, <3>1, TreeTypes, TreeBecomes
  <2>3. Place(u, T \ {z}, s2, pc', node', x', y')
    BY <1>1, <1>8 DEF Place
  <2>4. Painted(u, pc', x')
    BY <1>1, <1>8 DEF Painted
  <2>5. {node', x', y'} \subseteq Links
    <3>1. T \subseteq Links /\ Nil \in Links
      BY <1>5, TreeTypes DEF Links
    <3> QED BY <1>1, <1>4, <1>8, <3>1
  <2>6. InTree' = T \ {z}
    BY <1>1, <1>2 DEF InTree
  <2>7. Holds(u, T \ {z}, pc', node', x', y')
    BY <2>1, <2>3, <2>4 DEF Holds
  <2> QED BY <2>2, <2>5, <2>6, <2>7 DEF TreeInv
<1>9. /\ t \in Trees /\ T \subseteq Nodes /\ T \subseteq Cells /\ T \subseteq Links /\ Nil \notin T
      /\ Null \notin T /\ Nil \in Cells /\ Null \in Links /\ t.root \in T
  <2>1. /\ t \in Trees /\ T \subseteq Nodes /\ T \subseteq Cells /\ T \subseteq Links /\ Nil \notin T
        /\ Null \notin T /\ Nil \in Cells /\ Null \in Links
    BY <1>5, TreeTypes DEF Cells, Links
  <2>2. t.root \in T \cup {Nil} /\ s[t.root] = T /\ s[Nil] = {}
    BY <1>5 DEF IsTree
  <2> QED BY <1>3, <2>1, <2>2
<1>10. PICK u, q : u = Spliced(z, w) /\ q = t.p[z]
  OBVIOUS
<1>11. HangsOn(t, z, q) /\ q # z /\ q \in T \cup {Null} /\ (q = Null <=> t.root = z)
  BY <1>3, <1>5, <1>10, Hanging
<1>12. CASE w = z /\ (t.l[z] = Nil \/ t.r[z] = Nil)
  <2>1. PICK only, e : /\ only = IF left[z] = Nil THEN right[z] ELSE left[z]
                       /\ e = IF left[z] = Nil THEN "right" ELSE "left"
    OBVIOUS
  <2>2. e \in Sides /\ only = Child(t, z, e) /\ Child(t, z, Far(e)) = Nil
    BY <1>3, <1>12, <2>1 DEF Sides, Child, Far
  <2>3. ChildSound(t, T, s, z, e, only)
    BY <1>3, <1>5, <2>2, ChildFacts
  <2>4. only \in Cells /\ only \in (T \ {z}) \cup {Nil} /\ x' = only
    <3>1. x' = only
      BY <1>1, <1>2, <1>3, <1>12, <2>1
    <3> QED BY <2>3, <3>1 DEF ChildSound
  <2>5. OnlyEdit(t, u, z, only, q)
    BY <1>2, <1>3, <1>9, <1>10, <1>11, <1>12, <2>1, <2>4, OnlyEffect
  <2>6. \E s2 : IsTree(u, T \ {z}, s2)
    BY <1>3, <1>5, <1>10, <2>2, <2>5, OnlyKeeps
  <2>7. u.c = t.c /\ u.root = IF q = Null THEN only ELSE t.root
    BY <2>5 DEF OnlyEdit
  <2>8. u.c[u.root] = 0 \/ (u.root = x' /\ color[y] = 0)
    BY <1>2, <1>3, <1>6, <1>11, <1>12, <2>4, <2>7
  <2> QED BY <1>6, <1>8, <1>10, <2>4, <2>6, <2>7, <2>8
<1>13. CASE t.l[z] # Nil /\ t.r[z] # Nil /\ Leads(t, s, z, w) /\ t.l[w] = Nil
  <2>1. PICK g, h, l1, r1 : g = t.p[w] /\ h = t.r[w] /\ l1 = t.l[z] /\ r1 = t.r[z]
    OBVIOUS
  <2>2. Succeeds(t, T, s, z, w, q, g, h, l1, r1)
    BY <1>3, <1>5, <1>10, <1>13, <2>1, SuccessorStands
  <2>3. /\ w \in T /\ w # z /\ q # w /\ q # g
        /\ g \in T /\ g # w /\ HangsOn(t, w, g) /\ (g = z => r1 = w) /\ (g # z => r1 # w)
        /\ h \in T \cup {Nil} /\ h # z /\ h # w /\ h # r1 /\ (h # Nil => h # l1)
        /\ l1 \in T /\ l1 # w /\ l1 # z /\ l1 # r1 /\ r1 \in T /\ r1 # z
    BY <2>2 DEF Succeeds
  <2>4. SuccessorEdit(t, u, z, w, q, g, h, l1, r1)
    <3>1. /\ z \in Nodes /\ w \in Nodes /\ q \in Links /\ g \in Nodes /\ h \in Cells
          /\ l1 \in Cells /\ r1 \in Nodes /\ t \in Trees
      BY <1>3, <1>9, <1>11, <2>3
    <3> QED BY <1>2, <1>10, <1>11, <2>1, <2>3, <3>1, SuccessorEffect
  <2>5. \E s2 : IsTree(u, T \ {z}, s2)
    BY <1>3, <1>5, <1>10, <1>13, <2>1, <2>2, <2>4, SuccessorKeeps
  <2>6. u.c = [t.c EXCEPT ![w] = t.c[z]] /\ u.root = IF q = Null THEN w ELSE t.root
    BY <2>4 DEF SuccessorEdit
  <2>7. x' = h
    BY <1>1, <1>2, <1>3, <2>1, <2>3
  <2>8. t.root # w
    <3>1. t.p[t.root] = Null
      BY <1>5, <1>9 DEF IsTree
    <3> QED BY <1>9, <2>1, <2>3, <3>1
  <2>9. u.c[Nil] = 0 /\ u.c[u.root] = 0
    BY <1>6, <1>9, <1>11, <2>3, <2>6, <2>8, TreeFields
  <2> QED BY <1>8, <1>10, <2>3, <2>5, <2>7, <2>9
<1> QED BY <1>7, <1>12, <1>13 DEF Seeking

LEMMA InsertKeeps ==
    ASSUME LevelsInv, TreeInv, NEW n \in Nodes, Insert(n)
    PROVE  TreeInv'
<1> SUFFICES ASSUME ~lame' PROVE TreeInv'
  BY DEF TreeInv
<1>1. /\ pc = "idle" /\ ~lame /\ n \notin order_map_ /\ pc' = "descend" /\ node' = n /\ x' = root_
      /\ y' = Null /\ order_map_' = order_map_
      /\ Becomes([Tree EXCEPT !.l[n] = Nil, !.r[n] = Nil, !.p[n] = Null, !.c[n] = 1])
  BY DEF Insert
<1>2. PICK t, T, u : /\ t = Tree /\ T = order_map_
                     /\ u = [t EXCEPT !.l[n] = Nil, !.r[n] = Nil, !.p[n] = Null, !.c[n] = 1]
  OBVIOUS
<1>3. InTree = T /\ InTree' = T /\ n \in Nodes \ T
  BY <1>1, <1>2 DEF InTree
<1>4. {node, x, y} \subseteq Links /\ Painted(t, pc, x)
  BY <1>1, <1>2, Seen
<1>5. PICK s : IsTree(t, T, s)
  BY <1>1, <1>2, <1>3, Seen
<1>6. /\ t \in Trees /\ n \in Cells /\ Nil \in Cells /\ Nil \in Links /\ Null \in Links /\ n # Nil
      /\ 1 \in {0, 1} /\ T \subseteq Cells /\ t.root \in T \cup {Nil} /\ t.root \in Cells
      /\ n \in Links /\ Nil # Null
  <2>1. t.root \in T \cup {Nil}
    BY <1>5 DEF IsTree
  <2> QED BY <1>5, <2>1, TreeTypes, NodeTypes, TreeFields DEF Cells, Links
<1>7. PICK ta, tb, tc : ta = LeftSet(t, n, Nil) /\ tb = RightSet(ta, n, Nil) /\ tc = ParentSet(tb, n, Null)
  OBVIOUS
<1>8. ta \in Trees /\ ta.l = [t.l EXCEPT ![n] = Nil] /\ ta.root = t.root /\ ta.r = t.r /\ ta.p = t.p /\ ta.c = t.c
  BY <1>6, <1>7, SetLeft
<1>9. tb \in Trees /\ tb.r = [ta.r EXCEPT ![n] = Nil] /\ tb.root = ta.root /\ tb.l = ta.l /\ tb.p = ta.p /\ tb.c = ta.c
  BY <1>6, <1>7, <1>8, SetRight
<1>10. tc \in Trees /\ tc.p = [tb.p EXCEPT ![n] = Null] /\ tc.root = tb.root /\ tc.l = tb.l /\ tc.r = tb.r /\ tc.c = tb.c
  BY <1>6, <1>7, <1>9, SetParent
<1>11. u = Paint(tc, n, 1)
  BY <1>2, <1>7 DEF LeftSet, RightSet, ParentSet, Paint
<1>12. /\ u \in Trees /\ u.c = [tc.c EXCEPT ![n] = 1]
       /\ u.root = tc.root /\ u.l = tc.l /\ u.r = tc.r /\ u.p = tc.p
  <2>1. PaintEdit(tc, u, n, 1)
    BY <1>6, <1>10, <1>11, SetColor
  <2> QED BY <2>1 DEF PaintEdit
<1>13. /\ u.root = t.root /\ u.l[n] = Nil /\ u.r[n] = Nil
       /\ \A m \in Cells : m # n => u.l[m] = t.l[m] /\ u.r[m] = t.r[m] /\ u.p[m] = t.p[m] /\ u.c[m] = t.c[m]
  BY <1>6, <1>8, <1>9, <1>10, <1>12, TreeFields
<1>14. IsTree(u, T, s)
  <2>1. \A m \in T : u.l[m] = t.l[m] /\ u.r[m] = t.r[m] /\ u.p[m] = t.p[m]
    BY <1>3, <1>6, <1>13
  <2> QED BY <1>5, <1>12, <1>13, <2>1, Elsewhere
<1>15. x' = u.root
  BY <1>1, <1>2, <1>13 DEF Tree
<1>16. Place(u, T, s, pc', node', x', y')
  BY <1>1, <1>6, <1>13, <1>15 DEF Place, Descending
<1>17. Painted(u, pc', x')
  BY <1>1, <1>3, <1>4, <1>6, <1>13 DEF Painted
<1>18. Tree' = u
  BY <1>1, <1>2, <1>12, TreeBecomes
<1>19. {node', x', y'} \subseteq Links
  BY <1>1, <1>5, <1>6, <1>13, <1>15, TreeTypes
<1>20. Holds(u, T, pc', node', x', y')
  BY <1>14, <1>16, <1>17 DEF Holds
<1> QED BY <1>3, <1>18, <1>19, <1>20 DEF TreeInv

LEMMA RemoveKeeps ==
    ASSUME LevelsInv, TreeInv, NEW n \in Nodes, Remove(n)
    PROVE  TreeInv'
<1> SUFFICES ASSUME ~lame' PROVE TreeInv'
  BY DEF TreeInv
<1>1. /\ pc = "idle" /\ ~lame /\ n \in order_map_ /\ node' = n /\ x' = x /\ order_map_' = order_map_
      /\ IF left[n] = Nil \/ right[n] = Nil
         THEN pc' = "splice" /\ y' = n ELSE pc' = "find_min" /\ y' = right[n]
  BY DEF Remove
<1>2. Tree' = Tree
  BY DEF Remove, treeVars, Tree
<1>3. PICK t, T : t = Tree /\ T = order_map_
  OBVIOUS
<1>4. InTree = T /\ InTree' = T /\ n \in T /\ t.l = left /\ t.r = right
  BY <1>1, <1>3 DEF InTree, Tree
<1>5. {node, x, y} \subseteq Links /\ Painted(t, pc, x)
  BY <1>1, <1>3, Seen
<1>6. PICK s : IsTree(t, T, s)
  BY <1>1, <1>3, <1>4, Seen
<1>7. Seeking(t, s, pc', n, y') /\ pc' \in {"splice", "find_min"}
  <2>1. t.r[n] # Nil => Leads(t, s, n, t.r[n])
    BY <1>4, <1>6, LeadsRight
  <2> QED BY <1>1, <1>4, <2>1 DEF Seeking
<1>8. y' \in T \cup {Nil}
  <2>1. "right" \in Sides /\ t.r[n] = Child(t, n, "right")
    BY DEF Sides, Child
  <2>2. t.r[n] \in T \cup {Nil}
    BY <1>4, <1>6, <2>1 DEF IsTree
  <2> QED BY <1>1, <1>4, <2>2
<1>9. Place(t, T, s, pc', node', x', y') /\ Painted(t, pc', x')
  BY <1>1, <1>5, <1>7 DEF Place, Painted
<1>10. {node', x', y'} \subseteq Links
  <2>1. Nil \in Links
    BY DEF Links
  <2> QED BY <1>1, <1>4, <1>5, <1>6, <1>8, <2>1, TreeTypes
<1>11. Holds(t, T, pc', node', x', y')
  BY <1>6, <1>9 DEF Holds
<1> QED BY <1>2, <1>3, <1>4, <1>10, <1>11 DEF TreeInv

LEMMA UpdateKeeps ==
    ASSUME LevelsInv, TreeInv, NEW n \in Nodes, NEW q \in Quantities, UpdateQuantity(n, q)
    PROVE  TreeInv'
<1>1. /\ Tree' = Tree /\ InTree' = InTree /\ pc' = pc /\ node' = node /\ x' = x /\ y' = y
      /\ lame' = lame
  BY DEF UpdateQuantity, Tree, InTree, treeVars
<1> QED BY <1>1 DEF TreeInv

LEMMA RemoveDoneKeeps == LevelsInv /\ TreeInv /\ RemoveDone => TreeInv'
<1> SUFFICES ASSUME LevelsInv, TreeInv, RemoveDone, ~lame' PROVE TreeInv'
  BY DEF TreeInv
<1>1. /\ pc \in {"removed", "fix_delete"} /\ ~lame /\ pc' = "idle" /\ node' = Null /\ x' = Null
      /\ y' = Null /\ order_map_' = order_map_ \ {node} /\ root_' = root_
      /\ left' = [left EXCEPT ![node] = Nil] /\ right' = [right EXCEPT ![node] = Nil]
      /\ parent' = [parent EXCEPT ![node] = Nil]
      /\ color' = [color EXCEPT ![x] = IF pc = "removed" THEN @ ELSE 0, ![node] = 0]
  BY DEF RemoveDone
<1>2. PICK t, T : t = Tree /\ T = order_map_ \ {node}
  OBVIOUS
<1>3. InTree = T /\ InTree' = T /\ node \in Nodes \ T
  BY <1>1, <1>2 DEF InTree, LevelsInv, Removing
<1>4. {node, x, y} \subseteq Links /\ Painted(t, pc, x)
  BY <1>1, <1>2, Seen
<1>5. PICK s : IsTree(t, T, s) /\ Place(t, T, s, pc, node, x, y)
  BY <1>1, <1>2, <1>3, Seen
<1>6. /\ t \in Trees /\ node \in Cells /\ T \subseteq Cells /\ Nil \in Cells /\ Nil \in Links
      /\ node # Nil /\ t.root \in T \cup {Nil} /\ t.root \in Cells
  <2>1. t.root \in T \cup {Nil}
    BY <1>5 DEF IsTree
  <2> QED BY <1>3, <1>5, <2>1, TreeTypes, NodeTypes DEF Cells, Links
<1>7. /\ t.root = root_ /\ t.l = left /\ t.r = right /\ t.p = parent /\ t.c = color
      /\ left \in [Cells -> Links] /\ right \in [Cells -> Links] /\ parent \in [Cells -> Links]
      /\ color \in [Cells -> {0, 1}]
  BY <1>2, <1>6, TreeFields DEF Tree
<1>8. PICK k : k = color'
  OBVIOUS
<1>9. /\ k \in [Cells -> {0, 1}]
      /\ \A m \in Cells : k[m] = IF m = node THEN 0 ELSE IF m = x /\ pc # "removed" THEN 0 ELSE color[m]
  <2>1. CASE pc = "removed"
    <3>1. k = [color EXCEPT ![node] = 0]
      <4>1. [color EXCEPT ![x] = color[x]] = color
        BY <1>7
      <4>2. k = [[color EXCEPT ![x] = color[x]] EXCEPT ![node] = 0]
        BY <1>1, <1>8, <2>1
      <4> QED BY <4>1, <4>2
    <3> QED BY <1>6, <1>7, <2>1, <3>1
  <2>2. CASE pc = "fix_delete"
    <3>1. k = [color EXCEPT ![x] = 0, ![node] = 0]
      BY <1>1, <1>8, <2>2
    <3> QED BY <1>6, <1>7, <2>2, <3>1
  <2> QED BY <1>1, <2>1, <2>2
<1>10. PICK u : u = [root |-> root_, l |-> left', r |-> right', p |-> parent', c |-> k]
  OBVIOUS
<1>11. u \in Trees /\ Tree' = u
  <2>1. left' \in [Cells -> Links] /\ right' \in [Cells -> Links] /\ parent' \in [Cells -> Links]
    BY <1>1, <1>6, <1>7
  <2>2. root_ \in Cells
    BY <1>6, <1>7
  <2>3. u \in Trees
    BY <1>9, <1>10, <2>1, <2>2 DEF Trees
  <2> QED BY <1>1, <1>8, <1>10, <2>3 DEF Tree
<1>12. IsTree(u, T, s)
  <2>1. \A m \in T : u.l[m] = t.l[m] /\ u.r[m] = t.r[m] /\ u.p[m] = t.p[m]
    BY <1>1, <1>3, <1>6, <1>7, <1>10
  <2> QED BY <1>5, <1>7, <1>10, <1>11, <2>1, Elsewhere
<1>13. Painted(u, pc', x')
  <2>1. u.c = k /\ u.root = t.root
    BY <1>7, <1>10
  <2>2. t.root = x => x \in Cells
    BY <1>6
  <2> QED BY <1>1, <1>3, <1>4, <1>6, <1>7, <1>9, <2>1, <2>2 DEF Painted
<1>14. Place(u, T, s, pc', node', x', y')
  BY <1>1 DEF Place
<1>15. {node', x', y'} \subseteq Links
  BY <1>1 DEF Links
<1>16. Holds(u, T, pc', node', x', y')
  BY <1>12, <1>13, <1>14 DEF Holds
<1> QED BY <1>3, <1>11, <1>15, <1>16 DEF TreeInv

LEMMA TreeInit == Init => TreeInv
<1> SUFFICES ASSUME Init PROVE TreeInv
  OBVIOUS
<1>1. /\ root_ = Nil /\ left = [n \in Cells |-> Nil] /\ right = left /\ parent = left
      /\ color = [n \in Cells |-> 0] /\ order_map_ = {} /\ pc = "idle" /\ node = Null /\ x = Null /\ y = Null
  BY DEF Init, Cells
<1>2. Nil \in Cells /\ Nil \in Links /\ Null \in Links
  BY DEF Cells, Links
<1>3. PICK t, s : t = Tree /\ s = [n \in Cells |-> {}]
  OBVIOUS
<1>4. t \in Trees /\ t.root = Nil /\ t.c[Nil] = 0
  BY <1>1, <1>2, <1>3 DEF Trees, Tree
<1>5. IsTree(t, {}, s)
  BY <1>2, <1>3, <1>4 DEF IsTree
<1>6. InTree = {} /\ Painted(t, pc, x) /\ Place(t, {}, s, pc, node, x, y)
  BY <1>1, <1>4 DEF InTree, Painted, Place
<1>7. Holds(t, {}, pc, node, x, y)
  BY <1>5, <1>6 DEF Holds
<1> QED BY <1>1, <1>2, <1>3, <1>6, <1>7 DEF TreeInv

LEMMA TreeStep == LevelsInv /\ TreeInv /\ [Next]_vars => TreeInv'
<1>1. ASSUME LevelsInv, TreeInv, UNCHANGED vars PROVE TreeInv'
  <2>1. /\ Tree' = Tree /\ InTree' = InTree /\ pc' = pc /\ node' = node /\ x' = x /\ y' = y
        /\ lame' = lame
    BY <1>1 DEF vars, Tree, InTree, treeVars
  <2> QED BY <1>1, <2>1 DEF TreeInv
<1> QED BY <1>1, DescendKeeps, LinkKept, FixInsertKeeps, InsertDoneKeeps, FindMinKeeps, SpliceKeeps,
           FixDeleteKeeps, RemoveDoneKeeps, InsertKeeps, RemoveKeeps, UpdateKeeps DEF Next
-----------------------------------------------------------------------------
(* What is reached from a node is what lies below it. *)

LEMMA FromIsBelow ==
    ASSUME NEW T, NEW s, IsTree(Tree, T, s), NEW n \in T \cup {Nil}
    PROVE  From(n) = s[n]
<1>1. PICK t : t = Tree /\ t.l = left /\ t.r = right
  BY DEF Tree
<1>2. /\ T \subseteq Nodes /\ T \subseteq Cells /\ Nil \in Cells /\ Nil \notin T
      /\ s \in [Cells -> SUBSET T] /\ s[Nil] = {} /\ \A e \in T : e \in s[e]
  BY TreeTypes DEF IsTree, Cells
<1>3. ASSUME NEW b \in T, NEW d \in Sides PROVE ChildSound(t, T, s, b, d, Child(t, b, d))
  BY <1>1, ChildFacts
<1>4. ASSUME NEW b \in T
      PROVE  /\ {left[b], right[b]} \subseteq T \cup {Nil}
             /\ s[left[b]] \subseteq s[b] /\ s[right[b]] \subseteq s[b]
             /\ b \notin s[left[b]] /\ b \notin s[right[b]]
             /\ s[b] = {b} \cup s[left[b]] \cup s[right[b]]
  <2>1. Child(t, b, "left") = left[b] /\ Child(t, b, "right") = right[b]
    BY <1>1 DEF Child
  <2>2. ChildSound(t, T, s, b, "left", left[b]) /\ ChildSound(t, T, s, b, "right", right[b])
    BY <1>3, <2>1 DEF Sides
  <2>3. s[b] = {b} \cup s[left[b]] \cup s[right[b]]
    BY <1>1 DEF IsTree
  <2> QED BY <2>2, <2>3 DEF ChildSound
<1>5. From(n) \subseteq s[n]
  <2>1. s[n] \in SUBSET Nodes /\ n \in s[n] \cup {Nil}
    BY <1>2
  <2>2. ASSUME NEW m \in s[n] PROVE {left[m], right[m]} \subseteq s[n] \cup {Nil}
    <3>1. m \in T /\ n \in T
      BY <1>2
    <3>2. s[m] \subseteq s[n]
      BY <1>1, <3>1, Subtree
    <3> QED BY <1>2, <1>4, <3>1, <3>2
  <2>3. Closed(s[n])
    BY <2>2 DEF Closed
  <2> QED BY <2>1, <2>3 DEF From
<1>6. ASSUME NEW S \in SUBSET Nodes, n \in S \cup {Nil}, Closed(S) PROVE s[n] \subseteq S
  <2> DEFINE Bad == {v \in SUBSET T : \E b \in T \cap S : v = s[b] /\ ~(s[b] \subseteq S)}
  <2>1. CASE Bad = {}
    BY <1>2, <1>6, <2>1
  <2>2. CASE Bad # {}
    <3>1. PICK v \in Bad : \A w \in Bad : w \subseteq v => w = v
      <4>1. Bad \in SUBSET (SUBSET T) /\ IsFiniteSet(T)
        BY <1>2, NodeTypes, FS_Subset
      <4> HIDE DEF Bad
      <4> QED BY <2>2, <4>1, MinimalSubset
    <3>2. PICK b \in T \cap S : v = s[b] /\ ~(s[b] \subseteq S)
      BY <3>1
    <3>3. ASSUME NEW k \in {left[b], right[b]} PROVE s[k] \subseteq S
      <4>1. k \in S \cup {Nil} /\ k \in T \cup {Nil} /\ s[k] \subseteq s[b] /\ b \notin s[k] /\ b \in s[b]
        BY <1>2, <1>4, <1>6, <3>2 DEF Closed
      <4>2. s[k] \notin Bad
        <5> HIDE DEF Bad
        <5> QED BY <3>1, <3>2, <4>1
      <4>3. k \in T => s[k] \in SUBSET T
        BY <1>2
      <4> QED BY <1>2, <4>1, <4>2, <4>3
    <3>4. s[b] \subseteq S
      BY <1>4, <3>2, <3>3
    <3> QED BY <3>2, <3>4
  <2> QED BY <2>1, <2>2
<1>7. s[n] \subseteq From(n)
  BY <1>2, <1>6 DEF From
<1> QED BY <1>5, <1>7

LEMMA TreeHere ==
    /\ Tree.root = root_ /\ Tree.l = left /\ Tree.r = right /\ Tree.p = parent
    /\ Tree.c = color
BY DEF Tree

\* What the invariant says of the side's own variables.
LEMMA TreeTyped ==
    ASSUME LevelsInv, TreeInv, ~lame, remaining \in [Nodes -> Quantities \cup {0}]
    PROVE  TypeOK
<1>1. PICK s : IsTree(Tree, InTree, s)
  BY Seen
<1>2. PICK t : t = Tree /\ t.root = root_ /\ t.l = left /\ t.r = right /\ t.p = parent /\ t.c = color
  BY TreeHere
<1>3. /\ t.root \in Cells /\ t.l \in [Cells -> Links] /\ t.r \in [Cells -> Links]
      /\ t.p \in [Cells -> Links] /\ t.c \in [Cells -> {0, 1}]
  <2>1. t \in Trees
    BY <1>1, <1>2, TreeTypes
  <2> QED BY <2>1, TreeFields
<1>4. /\ DOMAIN queue = PriceLevels /\ total \in [PriceLevels -> Nat]
      /\ \A p \in PriceLevels : queue[p] \in Seq(Nodes)
  BY DEF LevelsInv, Shows, Lists
<1>5. order_map_ \subseteq Nodes /\ pc \in {"idle", "descend", "fix_insert", "find_min", "splice",
                                         "fix_delete", "removed"}
  BY DEF LevelsInv, Inserting, Removing
<1>6. {node, x, y} \subseteq Links
  BY Seen
<1> QED BY <1>2, <1>3, <1>4, <1>5, <1>6 DEF TypeOK, Cells

LEMMA TreeLinked ==
    ASSUME LevelsInv, TreeInv, ~lame
    PROVE  NoOrderLost /\ WellLinked
<1> SUFFICES ASSUME pc = "idle" PROVE NoOrderLost /\ WellLinked
  BY DEF NoOrderLost, WellLinked
<1>1. InTree = order_map_
  BY DEF InTree
<1>2. PICK T : T = order_map_
  OBVIOUS
<1>3. PICK s : IsTree(Tree, T, s)
  BY <1>1, <1>2, Seen
<1>4. PICK t : t = Tree /\ t.root = root_ /\ t.l = left /\ t.r = right /\ t.p = parent
  BY TreeHere
<1>5. /\ root_ \in T \cup {Nil} /\ s[root_] = T /\ (root_ # Nil => parent[root_] = Null)
      /\ T \subseteq Nodes
  BY <1>3, <1>4 DEF IsTree
<1>6. From(root_) = T
  BY <1>3, <1>5, FromIsBelow
<1>7. ASSUME NEW n \in T
      PROVE  /\ \A m \in From(left[n]) : LeftOf(m, n)
             /\ \A m \in From(right[n]) : LeftOf(n, m)
             /\ \A m \in {left[n], right[n]} \ {Nil} : parent[m] = n
  <2>1. Child(t, n, "left") = left[n] /\ Child(t, n, "right") = right[n]
    BY <1>4 DEF Child
  <2>2. /\ left[n] \in T \cup {Nil} /\ right[n] \in T \cup {Nil}
        /\ \A m \in {left[n], right[n]} \ {Nil} : parent[m] = n
        /\ \A m \in s[left[n]] : On("left", m, n)
        /\ \A m \in s[right[n]] : On("right", m, n)
    <3>1. IsTree(t, T, s)
      BY <1>3, <1>4
    <3>2. /\ Child(t, n, "left") \in T \cup {Nil} /\ Child(t, n, "right") \in T \cup {Nil}
          /\ (Child(t, n, "left") # Nil => t.p[Child(t, n, "left")] = n)
          /\ (Child(t, n, "right") # Nil => t.p[Child(t, n, "right")] = n)
          /\ (\A m \in s[Child(t, n, "left")] : On("left", m, n))
          /\ (\A m \in s[Child(t, n, "right")] : On("right", m, n))
      BY <3>1 DEF IsTree, Sides
    <3> QED BY <1>4, <2>1, <3>2
  <2>3. From(left[n]) = s[left[n]] /\ From(right[n]) = s[right[n]]
    BY <1>3, <2>2, FromIsBelow
  <2> QED BY <2>2, <2>3 DEF On
<1> QED BY <1>2, <1>5, <1>6, <1>7 DEF NoOrderLost, WellLinked

Remains == remaining \in [Nodes -> Quantities \cup {0}]

LEMMA RemainsStep == Remains /\ LevelsInv /\ [Next]_vars => Remains'
<1> SUFFICES ASSUME Remains, LevelsInv, [Next]_vars PROVE Remains'
  OBVIOUS
<1>1. ASSUME NEW n \in Nodes, Insert(n) PROVE Remains'
  BY <1>1 DEF Remains, Insert
<1>2. ASSUME NEW n \in Nodes, Remove(n) PROVE Remains'
  BY <1>2 DEF Remains, Remove
<1>3. ASSUME NEW n \in Nodes, NEW q \in Quantities, UpdateQuantity(n, q) PROVE Remains'
  BY <1>3 DEF Remains, UpdateQuantity
<1>4. CASE RemoveDone
  BY <1>4 DEF Remains, RemoveDone
<1>5. CASE Descend \/ Link \/ FixInsert \/ InsertDone \/ FindMin \/ Splice \/ FixDelete \/ UNCHANGED vars
  <2>1. remaining' = remaining
    BY <1>5 DEF Descend, Link, FixInsert, InsertDone, FindMin, Splice, FixDelete, vars, levelVars
  <2> QED BY <2>1 DEF Remains
<1> QED BY <1>1, <1>2, <1>3, <1>4, <1>5 DEF Next

\* insert, rotate_left, rotate_right, fix_insert, remove, fix_delete: until fix_delete
\* takes the sentinel for a sibling, the tree is typed between and during calls; between
\* calls it leads to exactly the orders of order_map_, sorted, each parent link the
\* inverse of the child link.
THEOREM TreeKept == Spec => [](~lame => TreeSound)
<1> DEFINE Inv == LevelsInv /\ TreeInv /\ Remains
<1>1. Init => Remains
  BY DEF Init, Remains
<1>2. Init => Inv
  BY <1>1, LevelsInit, TreeInit
<1>3. Inv /\ [Next]_vars => Inv'
  BY LevelsStep, TreeStep, RemainsStep
<1>4. Inv => (~lame => TreeSound)
  BY TreeTyped, TreeLinked DEF Remains, TreeSound
<1> QED BY <1>2, <1>3, <1>4, PTL DEF Spec
-----------------------------------------------------------------------------
(* best_order goes left from the root as far as the tree goes. *)

\* The first k steps to the left, from a root r by child links l.
Leftward(g, r, l, k) ==
    g = [d \in 0 .. k |-> IF d = 0 THEN r
                          ELSE IF l[g[d - 1]] = Nil THEN g[d - 1] ELSE l[g[d - 1]]]

LEMMA LeftwardExists ==
    ASSUME NEW r, NEW l, NEW k \in Nat
    PROVE  \E g : Leftward(g, r, l, k)
<1> DEFINE Bad == {i \in Nat : ~\E g : Leftward(g, r, l, i)}
<1> SUFFICES ASSUME Bad # {} PROVE FALSE
  OBVIOUS
<1>1. PICK i \in Bad : \A j \in Bad : i <= j
  <2>1. Bad \subseteq Nat
    OBVIOUS
  <2> HIDE DEF Bad
  <2> QED BY <2>1, LeastNumber
<1>2. i \in Nat /\ ~\E g : Leftward(g, r, l, i)
  OBVIOUS
<1>3. i # 0
  <2> SUFFICES ASSUME i = 0 PROVE FALSE
    OBVIOUS
  <2>1. PICK g : g = [d \in 0 .. 0 |-> r]
    OBVIOUS
  <2>2. \A d \in 0 .. 0 : d = 0
    OBVIOUS
  <2>3. Leftward(g, r, l, 0)
    BY <2>1, <2>2 DEF Leftward
  <2> QED BY <1>2, <2>3
<1>4. i - 1 \in Nat /\ i - 1 \notin Bad
  <2>1. i - 1 \in Nat /\ ~(i <= i - 1)
    BY <1>2, <1>3
  <2> QED BY <1>1, <2>1
<1>5. PICK g : Leftward(g, r, l, i - 1)
  BY <1>4
<1>6. PICK f : f = [d \in 0 .. i |-> IF d = i THEN IF l[g[i - 1]] = Nil THEN g[i - 1] ELSE l[g[i - 1]]
                                     ELSE g[d]]
  OBVIOUS
<1>7. ASSUME NEW d \in 0 .. i
      PROVE  f[d] = IF d = 0 THEN r ELSE IF l[f[d - 1]] = Nil THEN f[d - 1] ELSE l[f[d - 1]]
  <2>1. CASE d = 0
    <3>1. f[d] = g[d] /\ d \in 0 .. i - 1
      BY <1>2, <1>3, <1>6, <2>1
    <3>2. g[d] = r
      BY <1>5, <2>1, <3>1 DEF Leftward
    <3> QED BY <2>1, <3>1, <3>2
  <2>2. CASE d # 0
    <3>1. d - 1 \in 0 .. i - 1 /\ d - 1 \in 0 .. i /\ d - 1 # i
      BY <1>2, <1>3, <2>2
    <3>2. f[d - 1] = g[d - 1]
      BY <1>6, <3>1
    <3>3. CASE d = i
      BY <1>6, <2>2, <3>2, <3>3
    <3>4. CASE d # i
      <4>1. d \in 0 .. i - 1 /\ f[d] = g[d]
        BY <1>2, <1>6, <3>4
      <4>2. g[d] = IF l[g[d - 1]] = Nil THEN g[d - 1] ELSE l[g[d - 1]]
        BY <1>5, <2>2, <4>1 DEF Leftward
      <4> QED BY <2>2, <3>2, <4>1, <4>2
    <3> QED BY <3>3, <3>4
  <2> QED BY <2>1, <2>2
<1>8. f = [d \in 0 .. i |-> IF d = 0 THEN r ELSE IF l[f[d - 1]] = Nil THEN f[d - 1] ELSE l[f[d - 1]]]
  <2>1. f = [d \in 0 .. i |-> f[d]]
    BY <1>6
  <2> QED BY <1>7, <2>1
<1> QED BY <1>2, <1>8 DEF Leftward

\* The best order is the last of as many steps as there are orders.
LEMMA BestIsLeftmost ==
    root_ # Nil => \E g : Leftward(g, root_, left, Len(PriceOf)) /\ BestOrder = g[Len(PriceOf)]
<1> SUFFICES ASSUME root_ # Nil
             PROVE  \E g : Leftward(g, root_, left, Len(PriceOf)) /\ BestOrder = g[Len(PriceOf)]
  OBVIOUS
<1> DEFINE g == CHOOSE g : Leftward(g, root_, left, Len(PriceOf))
<1>1. Leftward(g, root_, left, Len(PriceOf))
  BY LeftwardExists, NodeTypes
<1>2. BestOrder = g[Len(PriceOf)]
  BY DEF BestOrder, Leftward
<1> QED BY <1>1, <1>2

\* What is below the d-th node on the way left is ahead of all the rest of the tree,
\* and gets smaller until there is no way left.
LeftSound(T, s, a, d) ==
    /\ a \in T
    /\ \A m \in T \ s[a], e \in s[a] : LeftOf(e, m)
    /\ left[a] = Nil \/ Cardinality(s[a]) + d <= Len(PriceOf)

LEMMA LeftStep ==
    ASSUME NEW T, NEW s, IsTree(Tree, T, s), NEW d \in Nat, NEW a, LeftSound(T, s, a, d)
    PROVE  LeftSound(T, s, IF left[a] = Nil THEN a ELSE left[a], d + 1)
<1>1. CASE left[a] = Nil
  BY <1>1 DEF LeftSound
<1>2. CASE left[a] # Nil
  <2>1. PICK t : t = Tree /\ t.l = left /\ t.r = right
    BY TreeHere
  <2>2. a \in T /\ Child(t, a, "left") = left[a] /\ Child(t, a, "right") = right[a]
    BY <2>1 DEF LeftSound, Child
  <2>3. ChildSound(t, T, s, a, "left", left[a]) /\ ChildSound(t, T, s, a, "right", right[a])
    BY <2>1, <2>2, ChildFacts DEF Sides
  <2>4. PICK k : k = left[a]
    OBVIOUS
  <2>5. /\ k \in T /\ k \in s[k] /\ s[k] \subseteq s[a] /\ a \notin s[k] /\ a \in s[a]
        /\ T \subseteq Nodes /\ s[k] \subseteq T /\ s[a] \subseteq T
        /\ (\A m \in s[k] : LeftOf(m, a)) /\ (\A m \in s[right[a]] : LeftOf(a, m))
        /\ s[a] = {a} \cup s[k] \cup s[right[a]]
    <3>1. s[a] \subseteq T
      BY <2>2, TreeTypes
    <3>2. Far("left") = "right"
      BY DEF Far
    <3> QED BY <1>2, <2>2, <2>3, <2>4, <3>1, <3>2 DEF ChildSound, On
  <2>6. ASSUME NEW m \in T \ s[k], NEW e \in s[k] PROVE LeftOf(e, m)
    <3>1. CASE m \notin s[a]
      BY <2>5, <2>6, <3>1 DEF LeftSound
    <3>2. CASE m = a
      BY <2>5, <2>6, <3>2
    <3>3. CASE m \in s[right[a]]
      <4>1. e \in Nodes /\ a \in Nodes /\ m \in Nodes /\ LeftOf(e, a) /\ LeftOf(a, m)
        BY <2>2, <2>5, <2>6, <3>3
      <4> QED BY <4>1, KeysOrdered
    <3> QED BY <2>5, <2>6, <3>1, <3>2, <3>3
  <2>7. Cardinality(s[k]) < Cardinality(s[a]) /\ Cardinality(s[k]) \in Nat /\ Cardinality(s[a]) \in Nat
    <3>1. IsFiniteSet(s[a])
      BY <2>5, NodeTypes, FS_Subset
    <3>2. s[k] # s[a]
      BY <2>5
    <3> QED BY <2>5, <3>1, <3>2, FS_Subset, FS_CardinalityType
  <2>8. Cardinality(s[a]) + d <= Len(PriceOf)
    BY <1>2 DEF LeftSound
  <2>9. Cardinality(s[k]) + (d + 1) <= Len(PriceOf)
    BY <2>7, <2>8, NodeTypes
  <2> QED BY <1>2, <2>4, <2>5, <2>6, <2>9 DEF LeftSound
<1> QED BY <1>1, <1>2

LEMMA BestIsLeast ==
    ASSUME NEW T, NEW s, IsTree(Tree, T, s), root_ # Nil
    PROVE  BestOrder \in T /\ \A m \in T \ {BestOrder} : LeftOf(BestOrder, m)
<1>1. PICK g : Leftward(g, root_, left, Len(PriceOf)) /\ BestOrder = g[Len(PriceOf)]
  BY BestIsLeftmost
<1>2. PICK N : N = Len(PriceOf) /\ N \in Nat
  BY NodeTypes
<1>3. T \subseteq Nodes /\ root_ \in T /\ s[root_] = T
  <2>1. Tree.root \in T \cup {Nil} /\ s[Tree.root] = T /\ T \subseteq Nodes
    BY DEF IsTree
  <2> QED BY <2>1, TreeHere
<1>4. LeftSound(T, s, root_, 0)
  <2>1. Cardinality(T) \in Nat /\ Cardinality(T) <= N
    <3>1. Cardinality(Nodes) = N
      <4>1. Cardinality(1 .. N) = IF 1 > N THEN 0 ELSE N - 1 + 1
        <5>1. 1 \in Int /\ N \in Int
          BY <1>2
        <5> QED BY <5>1, FS_Interval, Zenon
      <4> QED BY <1>2, <4>1 DEF Nodes
    <3> QED BY <1>3, <3>1, NodeTypes, FS_Subset, FS_CardinalityType
  <2> QED BY <1>2, <1>3, <2>1 DEF LeftSound
<1> DEFINE Bad == {d \in 0 .. N : ~LeftSound(T, s, g[d], d)}
<1>5. CASE Bad # {}
  <2>1. PICK d \in Bad : \A k \in Bad : d <= k
    <3>1. Bad \subseteq Nat
      BY <1>2
    <3> HIDE DEF Bad
    <3> QED BY <1>5, <3>1, LeastNumber
  <2>2. d \in 0 .. N /\ ~LeftSound(T, s, g[d], d)
    OBVIOUS
  <2>3. g[d] = IF d = 0 THEN root_ ELSE IF left[g[d - 1]] = Nil THEN g[d - 1] ELSE left[g[d - 1]]
    BY <1>1, <1>2, <2>2 DEF Leftward
  <2>4. d # 0
    BY <1>4, <2>2, <2>3
  <2>5. d - 1 \in 0 .. N /\ d - 1 \in Nat /\ d - 1 \notin Bad /\ d = (d - 1) + 1
    <3>1. d - 1 \in 0 .. N /\ d - 1 \in Nat /\ ~(d <= d - 1) /\ d = (d - 1) + 1
      BY <1>2, <2>2, <2>4
    <3> QED BY <2>1, <3>1
  <2>6. LeftSound(T, s, g[d - 1], d - 1)
    BY <2>5
  <2>7. LeftSound(T, s, g[d], (d - 1) + 1)
    <3> HIDE DEF Bad
    <3> QED BY <2>3, <2>4, <2>5, <2>6, LeftStep
  <2> QED BY <2>2, <2>5, <2>7
<1>6. CASE Bad = {}
  <2>1. PICK a : a = BestOrder
    OBVIOUS
  <2>2. LeftSound(T, s, a, N)
    <3>1. N \in 0 .. N
      BY <1>2
    <3>2. N \notin Bad
      BY <1>6
    <3> QED BY <1>1, <1>2, <2>1, <3>1, <3>2
  <2>3. a \in T /\ a \in s[a] /\ IsFiniteSet(s[a]) /\ s[Nil] = {} /\ T \subseteq Nodes
    <3>1. a \in T /\ s \in [Cells -> SUBSET T] /\ T \subseteq Cells /\ a \in s[a]
      BY <2>2, TreeTypes DEF LeftSound
    <3>2. s[a] \subseteq Nodes
      BY <1>3, <3>1
    <3> QED BY <1>3, <3>1, <3>2, NodeTypes, FS_Subset DEF IsTree
  <2>4. Cardinality(s[a]) \in Nat /\ Cardinality(s[a]) # 0
    BY <2>3, FS_CardinalityType, FS_EmptySet
  <2>5. left[a] = Nil
    BY <1>2, <2>2, <2>4 DEF LeftSound
  <2>6. s[a] = {a} \cup s[right[a]] /\ \A m \in s[right[a]] : LeftOf(a, m)
    <3>1. Child(Tree, a, "right") = right[a] /\ Child(Tree, a, "left") = left[a]
      BY TreeHere DEF Child
    <3>2. ChildSound(Tree, T, s, a, "right", right[a])
      BY <2>3, <3>1, ChildFacts DEF Sides
    <3>3. Far("right") = "left"
      BY DEF Far
    <3> QED BY <2>3, <2>5, <3>1, <3>2, <3>3 DEF ChildSound, On
  <2>7. ASSUME NEW m \in T \ {a} PROVE LeftOf(a, m)
    BY <2>2, <2>3, <2>6 DEF LeftSound
  <2> QED BY <2>1, <2>3, <2>7
<1> QED BY <1>5, <1>6

\* What the side offers a reader, the mapping of OffersBest.
Offered == IF pc = "idle" /\ ~lame THEN BestOrder ELSE First
OffersFirst == Offered = First

LEMMA FirstIsLeast ==
    ASSUME NEW a \in order_map_, order_map_ \subseteq Nodes, \A m \in order_map_ \ {a} : LeftOf(a, m)
    PROVE  First = a
<1>1. First \in order_map_ /\ \A m \in order_map_ \ {First} : LeftOf(First, m)
  BY DEF First
<1>2. First # a => LeftOf(First, a) /\ LeftOf(a, First)
  BY <1>1
<1> QED BY <1>1, <1>2, KeysOrdered

LEMMA FirstOffered == LevelsInv /\ TreeInv => OffersFirst
<1> SUFFICES ASSUME LevelsInv, TreeInv, pc = "idle", ~lame PROVE BestOrder = First
  BY DEF OffersFirst, Offered
<1>1. PICK s : IsTree(Tree, order_map_, s)
  <2>1. InTree = order_map_
    BY DEF InTree
  <2> QED BY <2>1, Seen
<1>2. root_ \in order_map_ \cup {Nil} /\ s[root_] = order_map_ /\ s[Nil] = {} /\ order_map_ \subseteq Nodes
  BY <1>1, TreeHere DEF IsTree
<1>3. CASE root_ = Nil
  BY <1>2, <1>3 DEF BestOrder, First
<1>4. CASE root_ # Nil
  BY <1>1, <1>2, <1>4, BestIsLeast, FirstIsLeast
<1> QED BY <1>3, <1>4

LEMMA SideSteps ==
    ASSUME LevelsInv, OffersFirst, OffersFirst', [Next]_vars
    PROVE  [Side!Next]_<<order_map_, Offered>>
<1>1. CASE InsertDone
  <2>1. order_map_' = order_map_ \cup {node} /\ node \in Nodes /\ node \notin order_map_
    BY <1>1 DEF InsertDone, LevelsInv, Inserting
  <2>2. Offered' = Side!BestOf(order_map_')
    BY DEF OffersFirst, First, Side!BestOf
  <2>3. Side!Insert(node)
    BY <2>1, <2>2 DEF Side!Insert, Offered
  <2> QED BY <2>1, <2>3 DEF Side!Next
<1>2. CASE RemoveDone
  <2>1. order_map_' = order_map_ \ {node} /\ node \in Nodes /\ node \in order_map_
    BY <1>2 DEF RemoveDone, LevelsInv, Removing
  <2>2. Offered' = Side!BestOf(order_map_')
    BY DEF OffersFirst, First, Side!BestOf
  <2>3. Side!Remove(node)
    BY <2>1, <2>2 DEF Side!Remove, Offered
  <2> QED BY <2>1, <2>3 DEF Side!Next
<1>3. CASE \/ Descend \/ Link \/ FixInsert \/ FindMin \/ Splice \/ FixDelete
           \/ (\E n \in Nodes : Insert(n) \/ Remove(n))
           \/ (\E n \in Nodes, q \in Quantities : UpdateQuantity(n, q))
           \/ UNCHANGED vars
  <2>1. order_map_' = order_map_
    BY <1>3 DEF Descend, Link, FixInsert, FindMin, Splice, FixDelete, Insert, Remove, UpdateQuantity, vars
  <2>2. First' = First
    BY <2>1 DEF First
  <2>3. Offered' = Offered
    BY <2>2 DEF OffersFirst
  <2> QED BY <2>1, <2>3
<1> QED BY <1>1, <1>2, <1>3 DEF Next

\* best_order over insert, remove and their repairs: until fix_delete takes the sentinel
\* for a sibling, the leftmost order is between calls the first at rest in price-time
\* order, and what the side offers changes only as an insert or a remove returns.
THEOREM BestOffered == Spec => OffersBest
<1> DEFINE Inv == LevelsInv /\ TreeInv
<1>1. Init => Inv
  BY LevelsInit, TreeInit
<1>2. Inv /\ [Next]_vars => Inv'
  BY LevelsStep, TreeStep
<1>3. Inv => OffersFirst
  BY FirstOffered
<1>4. Init /\ OffersFirst => Side!Init
  BY DEF Init, OffersFirst, Offered, First, Side!Init
<1>5. Inv /\ OffersFirst /\ OffersFirst' /\ [Next]_vars => [Side!Next]_<<order_map_, Offered>>
  BY SideSteps
<1> QED BY <1>1, <1>2, <1>3, <1>4, <1>5, PTL DEF Spec, OffersBest, Side!Spec, Offered
-----------------------------------------------------------------------------
(* The ART books.  A list that holds the orders of S, each once. *)

Once(q, S) ==
    /\ q \in Seq(S) /\ Len(q) = Cardinality(S)
    /\ \A m \in S : \E i \in 1 .. Len(q) : q[i] = m
    /\ \A i, j \in 1 .. Len(q) : q[i] = q[j] => i = j

\* ArrivalOrderKept of one list.
ArrivalKept(old, new) ==
    \A a \in Listed(old) \cap Listed(new), b \in Listed(new) :
      \/ a = b
      \/ StandsBefore(new, a, b)
      \/ b \in Listed(old) /\ (StandsBefore(old, b, a) \/ new[Len(new)] = a)

LEMMA OnceListed ==
    ASSUME NEW q, NEW S, Once(q, S)
    PROVE  /\ Len(q) \in Nat /\ DOMAIN q = 1 .. Len(q) /\ Listed(q) = S
           /\ \A i \in 1 .. Len(q) : q[i] \in S
           /\ \A a, b \in S : a = b \/ StandsBefore(q, a, b) \/ StandsBefore(q, b, a)
<1>1. Len(q) \in Nat /\ DOMAIN q = 1 .. Len(q) /\ \A i \in 1 .. Len(q) : q[i] \in S
  BY LenProperties, ElementOfSeq DEF Once
<1>2. Listed(q) = S
  BY <1>1 DEF Listed, Once
<1>3. ASSUME NEW a \in S, NEW b \in S, a # b
      PROVE  StandsBefore(q, a, b) \/ StandsBefore(q, b, a)
  <2>1. PICK i \in 1 .. Len(q) : q[i] = a
    BY DEF Once
  <2>2. PICK j \in 1 .. Len(q) : q[j] = b
    BY DEF Once
  <2>3. i < j \/ j < i
    BY <1>1, <1>3, <2>1, <2>2
  <2> QED BY <1>1, <2>1, <2>2, <2>3 DEF StandsBefore
<1> QED BY <1>1, <1>2, <1>3

LEMMA OnceJoins ==
    ASSUME NEW q, NEW S, IsFiniteSet(S), Once(q, S), NEW n, n \notin S
    PROVE  /\ Once(Append(q, n), S \cup {n})
           /\ Append(q, n)[Len(Append(q, n))] = n
           /\ \A a, b \in S : StandsBefore(q, a, b) => StandsBefore(Append(q, n), a, b)
           /\ \A a \in S : StandsBefore(Append(q, n), a, n)
<1>1. PICK r : r = Append(q, n)
  OBVIOUS
<1>2. Len(q) \in Nat /\ DOMAIN q = 1 .. Len(q) /\ \A i \in 1 .. Len(q) : q[i] \in S
  BY OnceListed
<1>3. /\ r \in Seq(S \cup {n}) /\ Len(r) = Len(q) + 1 /\ r[Len(q) + 1] = n
      /\ \A i \in 1 .. Len(q) : r[i] = q[i]
  <2>1. q \in Seq(S \cup {n})
    BY <1>2 DEF Once
  <2> QED BY <1>1, <2>1, AppendProperties
<1>4. DOMAIN r = 1 .. Len(q) + 1
  BY <1>3, LenProperties
<1>5. Cardinality(S \cup {n}) = Len(q) + 1
  BY <1>2, FS_AddElement DEF Once
<1>6. ASSUME NEW m \in S \cup {n} PROVE \E i \in 1 .. Len(r) : r[i] = m
  <2>1. CASE m = n
    BY <1>2, <1>3, <2>1
  <2>2. CASE m \in S
    <3>1. PICK i \in 1 .. Len(q) : q[i] = m
      BY <2>2 DEF Once
    <3> QED BY <1>2, <1>3, <3>1
  <2> QED BY <2>1, <2>2
<1>7. ASSUME NEW i \in 1 .. Len(r), NEW j \in 1 .. Len(r), r[i] = r[j] PROVE i = j
  <2>1. \A k \in 1 .. Len(r) : k \in 1 .. Len(q) \/ k = Len(q) + 1
    BY <1>2, <1>3
  <2> QED BY <1>2, <1>3, <1>7, <2>1 DEF Once
<1>8. Once(r, S \cup {n})
  BY <1>3, <1>5, <1>6, <1>7 DEF Once
<1>9. ASSUME NEW a \in S, NEW b \in S, StandsBefore(q, a, b) PROVE StandsBefore(r, a, b)
  <2>1. PICK i \in 1 .. Len(q), j \in 1 .. Len(q) : i < j /\ q[i] = a /\ q[j] = b
    BY <1>2, <1>9 DEF StandsBefore
  <2>2. i \in DOMAIN r /\ j \in DOMAIN r /\ r[i] = a /\ r[j] = b
    BY <1>2, <1>3, <1>4, <2>1
  <2> QED BY <2>1, <2>2 DEF StandsBefore
<1>10. ASSUME NEW a \in S PROVE StandsBefore(r, a, n)
  <2>1. PICK i \in 1 .. Len(q) : q[i] = a
    BY DEF Once
  <2>2. i \in DOMAIN r /\ Len(q) + 1 \in DOMAIN r /\ i < Len(q) + 1 /\ r[i] = a
    BY <1>2, <1>3, <1>4, <2>1
  <2> QED BY <1>3, <2>2 DEF StandsBefore
<1> QED BY <1>1, <1>3, <1>8, <1>9, <1>10

LEMMA OnceLeaves ==
    ASSUME NEW q, NEW S, IsFiniteSet(S), Once(q, S), NEW n \in S
    PROVE  /\ Once(Without(q, n), S \ {n})
           /\ \A a, b \in S \ {n} : StandsBefore(q, a, b) => StandsBefore(Without(q, n), a, b)
<1>1. /\ Len(q) \in Nat /\ Len(q) = Cardinality(S) /\ DOMAIN q = 1 .. Len(q)
      /\ \A i \in 1 .. Len(q) : q[i] \in S
  BY OnceListed DEF Once
<1>2. PICK at : at = CHOOSE i \in DOMAIN q : q[i] = n
  OBVIOUS
<1>3. at \in 1 .. Len(q) /\ q[at] = n
  BY <1>1, <1>2 DEF Once
<1>4. PICK r : r = [i \in 1 .. Len(q) - 1 |-> q[IF i < at THEN i ELSE i + 1]]
  OBVIOUS
<1>5. Without(q, n) = r
  BY <1>2, <1>4 DEF Without
<1>6. Len(q) - 1 \in Nat
  BY <1>1, <1>3
<1>7. \A i \in 1 .. Len(q) - 1 :
         /\ r[i] = q[IF i < at THEN i ELSE i + 1]
         /\ (IF i < at THEN i ELSE i + 1) \in 1 .. Len(q) \ {at}
  BY <1>1, <1>3, <1>4
<1>8. \A i, j \in 1 .. Len(q) : q[i] = q[j] => i = j
  BY DEF Once
<1>9. \A i \in 1 .. Len(q) - 1 : r[i] \in S \ {n}
  BY <1>1, <1>3, <1>7, <1>8
<1>10. r \in Seq(S \ {n}) /\ Len(r) = Len(q) - 1 /\ DOMAIN r = 1 .. Len(q) - 1
  <2>1. r \in [1 .. Len(q) - 1 -> S \ {n}]
    BY <1>4, <1>9
  <2> QED BY <1>6, <2>1
<1>11. Cardinality(S \ {n}) = Len(q) - 1
  BY <1>1, FS_RemoveElement
\* Where the element at k comes to stand.
<1>12. PICK to : to = [k \in 1 .. Len(q) |-> IF k < at THEN k ELSE k - 1]
  OBVIOUS
<1>13. ASSUME NEW k \in 1 .. Len(q), k # at PROVE to[k] \in 1 .. Len(q) - 1 /\ r[to[k]] = q[k]
  <2>1. to[k] = IF k < at THEN k ELSE k - 1
    BY <1>12
  <2>2. CASE k < at
    BY <1>1, <1>3, <1>7, <2>1, <2>2
  <2>3. CASE k > at
    <3>1. k - 1 \in 1 .. Len(q) - 1 /\ ~(k - 1 < at) /\ k - 1 + 1 = k /\ ~(k < at)
      BY <1>1, <1>3, <2>3
    <3> QED BY <1>7, <2>1, <3>1
  <2> QED BY <1>3, <1>13, <2>2, <2>3
<1>14. ASSUME NEW m \in S \ {n} PROVE \E i \in 1 .. Len(r) : r[i] = m
  <2>1. PICK k \in 1 .. Len(q) : q[k] = m
    BY DEF Once
  <2> QED BY <1>3, <1>10, <1>13, <2>1
<1>15. ASSUME NEW i \in 1 .. Len(r), NEW j \in 1 .. Len(r), r[i] = r[j] PROVE i = j
  <2>1. PICK a \in 1 .. Len(q) : a = IF i < at THEN i ELSE i + 1
    BY <1>7, <1>10
  <2>2. PICK b \in 1 .. Len(q) : b = IF j < at THEN j ELSE j + 1
    BY <1>7, <1>10
  <2>3. r[i] = q[a] /\ r[j] = q[b] /\ a # at /\ b # at
    BY <1>7, <1>10, <2>1, <2>2
  <2>4. a = b
    BY <1>8, <1>15, <2>3
  <2> QED BY <1>1, <1>3, <1>10, <2>1, <2>2, <2>4
<1>16. Once(r, S \ {n})
  BY <1>10, <1>11, <1>14, <1>15 DEF Once
<1>17. ASSUME NEW a \in S \ {n}, NEW b \in S \ {n}, StandsBefore(q, a, b) PROVE StandsBefore(r, a, b)
  <2>1. PICK i \in 1 .. Len(q), j \in 1 .. Len(q) : i < j /\ q[i] = a /\ q[j] = b
    BY <1>1, <1>17 DEF StandsBefore
  <2>2. i # at /\ j # at
    BY <1>3, <2>1
  <2>3. to[i] < to[j]
    BY <1>1, <1>3, <1>12, <2>1, <2>2
  <2> QED BY <1>10, <1>13, <2>1, <2>2, <2>3 DEF StandsBefore
<1> QED BY <1>5, <1>16, <1>17

\* What a call may do to a list.
LEMMA ArrivalKeeps ==
    ASSUME NEW q, NEW S, IsFiniteSet(S), Once(q, S), NEW n
    PROVE  /\ ArrivalKept(q, q)
           /\ n \notin S => ArrivalKept(q, Append(q, n))
           /\ n \in S => /\ ArrivalKept(q, Without(q, n))
                         /\ ArrivalKept(q, Append(Without(q, n), n))
<1>1. /\ Listed(q) = S
      /\ \A a, b \in S : a = b \/ StandsBefore(q, a, b) \/ StandsBefore(q, b, a)
  BY OnceListed
<1>2. ArrivalKept(q, q)
  BY <1>1 DEF ArrivalKept
<1>3. ASSUME n \notin S PROVE ArrivalKept(q, Append(q, n))
  <2>1. PICK r : r = Append(q, n)
    OBVIOUS
  <2>2. /\ Once(r, S \cup {n})
        /\ \A a, b \in S : StandsBefore(q, a, b) => StandsBefore(r, a, b)
        /\ \A a \in S : StandsBefore(r, a, n)
    BY <1>3, <2>1, OnceJoins
  <2>3. Listed(r) = S \cup {n}
    BY <2>2, OnceListed
  <2>4. ArrivalKept(q, r)
    BY <1>1, <2>2, <2>3 DEF ArrivalKept
  <2> QED BY <2>1, <2>4
<1>4. ASSUME n \in S
      PROVE ArrivalKept(q, Without(q, n)) /\ ArrivalKept(q, Append(Without(q, n), n))
  <2>1. PICK r : r = Without(q, n)
    OBVIOUS
  <2>2. PICK u : u = Append(r, n)
    OBVIOUS
  <2>3. /\ Once(r, S \ {n})
        /\ \A a, b \in S \ {n} : StandsBefore(q, a, b) => StandsBefore(r, a, b)
    BY <1>4, <2>1, OnceLeaves
  <2>4. Listed(r) = S \ {n}
    BY <2>3, OnceListed
  <2>5. ArrivalKept(q, r)
    BY <1>1, <2>3, <2>4 DEF ArrivalKept
  <2>r. IsFiniteSet(S \ {n}) /\ (S \ {n}) \cup {n} = S
    BY <1>4, FS_Subset
  <2>6. PICK R : R = S \ {n} /\ IsFiniteSet(R) /\ n \notin R /\ R \cup {n} = S
    <3>1. PICK R : R = S \ {n}
      OBVIOUS
    <3> QED BY <2>r, <3>1
  <2>7. /\ Once(u, S) /\ u[Len(u)] = n
        /\ \A a, b \in R : StandsBefore(r, a, b) => StandsBefore(u, a, b)
        /\ \A a \in R : StandsBefore(u, a, n)
    <3>1. Once(r, R)
      BY <2>3, <2>6
    <3>2. /\ Once(Append(r, n), R \cup {n}) /\ Append(r, n)[Len(Append(r, n))] = n
          /\ \A a, b \in R : StandsBefore(r, a, b) => StandsBefore(Append(r, n), a, b)
          /\ \A a \in R : StandsBefore(Append(r, n), a, n)
      BY <2>6, <3>1, OnceJoins
    <3> QED BY <2>2, <2>6, <3>2
  <2>8. Listed(u) = S
    BY <2>7, OnceListed
  <2>9. ArrivalKept(q, u)
    BY <1>1, <2>3, <2>6, <2>7, <2>8 DEF ArrivalKept
  <2> QED BY <2>1, <2>2, <2>5, <2>9
<1> QED BY <1>2, <1>3, <1>4
-----------------------------------------------------------------------------
(* One side of a book: its levels, the leaf of its tree, its orders and what these are. *)

PricedAt(O, M, p) == {id \in M : O[id].price = p}
QuantityIn(O) == [id \in ArtOrders |-> IF O[id] = NoArtOrder THEN 0 ELSE O[id].quantity]
PriceLevel == [at : Addresses, list : Seq(ArtOrders), total_quantity : Int]

LevelHolds(level, A, O) ==
    /\ level \in PriceLevel /\ A # {} /\ Once(level.list, A)
    /\ level.total_quantity = SumFunctionOnSet(QuantityIn(O), A)

SideHolds(levels, leaf, M, O, s) ==
    /\ M \subseteq ArtOrders /\ DOMAIN levels \subseteq ArtPrices \ {0}
    /\ \A id \in M : O[id] \in Incoming /\ O[id].side = s /\ O[id].price \in DOMAIN levels
    /\ \A p \in DOMAIN levels : LevelHolds(levels[p], PricedAt(O, M, p), O)
    /\ leaf = 0 \/ \E p \in DOMAIN levels : levels[p].at = leaf

Orders == [ArtOrders -> Incoming \cup {NoArtOrder}]

LEMMA IncomingFields ==
    ASSUME NEW o \in Incoming
    PROVE  /\ o.side \in OrderSide /\ o.price \in ArtPrices /\ o.price \in Nat
           /\ o.quantity \in ArtQuantities /\ o.quantity \in Nat \ {0}
           /\ o # NoArtOrder /\ o.side # "none"
<1>1. /\ o.side \in OrderSide /\ o.price \in ArtPrices /\ o.quantity \in ArtQuantities
  BY DEF Incoming
<1>2. NoArtOrder.side = "none" /\ "none" \notin OrderSide
  BY DEF NoArtOrder, OrderSide
<1> QED BY <1>1, <1>2, ArtAssumption

LEMMA QuantityTypes ==
    ASSUME NEW O \in Orders
    PROVE  \A id \in ArtOrders : QuantityIn(O)[id] \in Nat
<1> SUFFICES ASSUME NEW id \in ArtOrders PROVE QuantityIn(O)[id] \in Nat
  OBVIOUS
<1>1. O[id] \in Incoming \cup {NoArtOrder}
  BY DEF Orders
<1>2. QuantityIn(O)[id] = IF O[id] = NoArtOrder THEN 0 ELSE O[id].quantity
  BY DEF QuantityIn
<1> QED BY <1>1, <1>2, IncomingFields

LEMMA PricedFinite ==
    ASSUME NEW O, NEW M, M \subseteq ArtOrders, NEW p
    PROVE  /\ PricedAt(O, M, p) \in SUBSET ArtOrders /\ PricedAt(O, M, p) \in SUBSET M
           /\ IsFiniteSet(PricedAt(O, M, p)) /\ IsFiniteSet(M)
<1>1. PricedAt(O, M, p) \in SUBSET ArtOrders /\ PricedAt(O, M, p) \in SUBSET M
  BY DEF PricedAt
<1> QED BY <1>1, ArtAssumption, FS_Subset

\* What another order is does not matter to the level.
LEMMA LevelElsewhere ==
    ASSUME NEW level, NEW A, A \subseteq ArtOrders, NEW O \in Orders, NEW N \in Orders,
           LevelHolds(level, A, O), \A id \in A : N[id] = O[id]
    PROVE  LevelHolds(level, A, N)
<1>1. IsFiniteSet(A)
  BY ArtAssumption, FS_Subset
<1>2. \A id \in A : QuantityIn(O)[id] = QuantityIn(N)[id]
  BY DEF QuantityIn
<1>3. SumFunctionOnSet(QuantityIn(O), A) = SumFunctionOnSet(QuantityIn(N), A)
  BY <1>1, <1>2, SumSame
<1> QED BY <1>3 DEF LevelHolds

LEMMA SideElsewhere ==
    ASSUME NEW levels, NEW leaf, NEW M, NEW O \in Orders, NEW N \in Orders, NEW s,
           SideHolds(levels, leaf, M, O, s), \A id \in M : N[id] = O[id]
    PROVE  SideHolds(levels, leaf, M, N, s)
<1>1. ASSUME NEW p \in DOMAIN levels PROVE LevelHolds(levels[p], PricedAt(N, M, p), N)
  <2>1. PricedAt(N, M, p) = PricedAt(O, M, p)
    BY DEF PricedAt
  <2>2. PricedAt(O, M, p) \subseteq ArtOrders /\ \A id \in PricedAt(O, M, p) : N[id] = O[id]
    BY DEF PricedAt, SideHolds
  <2>3. LevelHolds(levels[p], PricedAt(O, M, p), O)
    BY DEF SideHolds
  <2> QED BY <2>1, <2>2, <2>3, LevelElsewhere
<1>2. \A id \in M : N[id] \in Incoming /\ N[id].side = s /\ N[id].price \in DOMAIN levels
  BY DEF SideHolds
<1> QED BY <1>1, <1>2 DEF SideHolds
-----------------------------------------------------------------------------
\* The list at price p, empty where there is no level.
ListOf(levels, p) == IF p \in DOMAIN levels THEN levels[p].list ELSE <<>>

\* An order joins the list at price p, or leaves it.
ListJoined(levels, levels2, p, id) ==
    \A z : ListOf(levels2, z) = IF z = p THEN Append(ListOf(levels, z), id) ELSE ListOf(levels, z)

ListLeft(levels, levels2, p, id) ==
    \A z : ListOf(levels2, z) = IF z = p THEN Without(ListOf(levels, z), id) ELSE ListOf(levels, z)

LEMMA ListOnce ==
    ASSUME NEW levels, NEW leaf, NEW M, NEW O, NEW s, SideHolds(levels, leaf, M, O, s), NEW p
    PROVE  Once(ListOf(levels, p), PricedAt(O, M, p))
<1>1. CASE p \in DOMAIN levels
  BY <1>1 DEF SideHolds, LevelHolds, ListOf
<1>2. CASE p \notin DOMAIN levels
  <2>1. PricedAt(O, M, p) = {} /\ ListOf(levels, p) = <<>>
    BY <1>2 DEF SideHolds, PricedAt, ListOf
  <2>2. Once(<<>>, {})
    BY FS_EmptySet DEF Once
  <2> QED BY <2>1, <2>2
<1> QED BY <1>1, <1>2

\* An order joins its level, an old one or a new one.
JoinedLevel(l, base, A, N, id) ==
    /\ LevelHolds(l, A \cup {id}, N) /\ l.list = Append(base.list, id) /\ l.at = base.at

LEMMA LevelJoined ==
    ASSUME NEW base \in PriceLevel, NEW A, A \subseteq ArtOrders, NEW O \in Orders, NEW N \in Orders,
           Once(base.list, A), base.total_quantity = SumFunctionOnSet(QuantityIn(O), A),
           NEW id \in ArtOrders, id \notin A, NEW o \in Incoming, N[id] = o,
           \A z \in A : N[z] = O[z]
    PROVE  JoinedLevel(AddOrderToPriceLevel(base, id, o.quantity), base, A, N, id)
<1>1. PICK l : l = AddOrderToPriceLevel(base, id, o.quantity)
  OBVIOUS
<1>2. /\ base.at \in Addresses /\ base.list \in Seq(ArtOrders) /\ base.total_quantity \in Int
      /\ o.quantity \in Nat /\ o # NoArtOrder
  BY IncomingFields DEF PriceLevel
<1>3. l = [base EXCEPT !.list = Append(base.list, id),
                       !.total_quantity = base.total_quantity + o.quantity]
  BY <1>1 DEF AddOrderToPriceLevel
<1>4. /\ l.list = Append(base.list, id) /\ l.at = base.at
      /\ l.total_quantity = base.total_quantity + o.quantity
  BY <1>3 DEF PriceLevel
<1>5. l \in PriceLevel
  <2>1. Append(base.list, id) \in Seq(ArtOrders) /\ base.total_quantity + o.quantity \in Int
    BY <1>2
  <2> QED BY <1>3, <2>1 DEF PriceLevel
<1>6. IsFiniteSet(A)
  BY ArtAssumption, FS_Subset
<1>7. Once(l.list, A \cup {id})
  BY <1>4, <1>6, OnceJoins
<1>8. l.total_quantity = SumFunctionOnSet(QuantityIn(N), A \cup {id})
  <2>1. \A z \in A : QuantityIn(O)[z] = QuantityIn(N)[z]
    BY DEF QuantityIn
  <2>2. SumFunctionOnSet(QuantityIn(O), A) = SumFunctionOnSet(QuantityIn(N), A)
    BY <1>6, <2>1, SumSame
  <2>3. QuantityIn(N)[id] = o.quantity
    BY <1>2 DEF QuantityIn
  <2>4. \A z \in A \cup {id} : QuantityIn(N)[z] \in Int
    BY QuantityTypes
  <2>5. SumFunctionOnSet(QuantityIn(N), A \cup {id})
          = QuantityIn(N)[id] + SumFunctionOnSet(QuantityIn(N), A)
    BY <1>6, <2>4, SumAdd
  <2> QED BY <1>2, <1>4, <2>2, <2>3, <2>5
<1>9. LevelHolds(l, A \cup {id}, N)
  BY <1>5, <1>7, <1>8 DEF LevelHolds
<1> QED BY <1>1, <1>4, <1>9 DEF JoinedLevel

\* An order leaves its level, which may be left empty.
LEMMA LevelLeft ==
    ASSUME NEW base, NEW A, A \subseteq ArtOrders, NEW O \in Orders, LevelHolds(base, A, O),
           NEW id \in A, O[id] # NoArtOrder
    PROVE  LET l == RemoveOrderFromPriceLevel(base, id, O[id].quantity)
           IN  /\ l.list = Without(base.list, id)
               /\ l.list = <<>> <=> A = {id}
               /\ l.list # <<>> => LevelHolds(l, A \ {id}, O)
               /\ l.at = base.at
<1>1. PICK l : l = RemoveOrderFromPriceLevel(base, id, O[id].quantity)
  OBVIOUS
<1>2. /\ base \in PriceLevel /\ base.at \in Addresses /\ base.list \in Seq(ArtOrders)
      /\ base.total_quantity \in Int
      /\ base.total_quantity = SumFunctionOnSet(QuantityIn(O), A) /\ Once(base.list, A)
  BY DEF LevelHolds, PriceLevel
<1>3. O[id].quantity \in Nat
  <2>1. O[id] \in Incoming
    BY DEF Orders
  <2> QED BY <2>1, IncomingFields
<1>4. l = [base EXCEPT !.list = Without(base.list, id),
                       !.total_quantity = base.total_quantity - O[id].quantity]
  BY <1>1 DEF RemoveOrderFromPriceLevel
<1>5. /\ l.list = Without(base.list, id) /\ l.at = base.at
      /\ l.total_quantity = base.total_quantity - O[id].quantity
  BY <1>2, <1>4 DEF PriceLevel
<1>6. IsFiniteSet(A) /\ IsFiniteSet(A \ {id})
  BY ArtAssumption, FS_Subset
<1>7. Once(l.list, A \ {id})
  BY <1>2, <1>5, <1>6, OnceLeaves
<1>8. l \in PriceLevel
  <2>1. Without(base.list, id) \in Seq(ArtOrders)
    <3>1. Without(base.list, id) \in Seq(A \ {id}) /\ A \ {id} \subseteq ArtOrders
      BY <1>5, <1>7 DEF Once
    <3> QED BY <3>1
  <2>2. base.total_quantity - O[id].quantity \in Int
    BY <1>2, <1>3
  <2> QED BY <1>2, <1>4, <2>1, <2>2 DEF PriceLevel
<1>9. l.list = <<>> <=> A = {id}
  <2>1. Len(l.list) = Cardinality(A \ {id}) /\ l.list \in Seq(A \ {id})
    BY <1>7 DEF Once
  <2>2. Cardinality(A \ {id}) = 0 <=> A \ {id} = {}
    BY <1>6, FS_EmptySet
  <2>3. l.list = <<>> <=> Len(l.list) = 0
    BY <2>1, EmptySeq
  <2> QED BY <2>1, <2>2, <2>3
<1>10. l.total_quantity = SumFunctionOnSet(QuantityIn(O), A \ {id})
  <2>1. \A z \in A : QuantityIn(O)[z] \in Int
    BY QuantityTypes
  <2>2. SumFunctionOnSet(QuantityIn(O), A)
          = QuantityIn(O)[id] + SumFunctionOnSet(QuantityIn(O), A \ {id})
    BY <1>6, <2>1, SumRemove
  <2>3. QuantityIn(O)[id] = O[id].quantity
    BY DEF QuantityIn
  <2>4. SumFunctionOnSet(QuantityIn(O), A \ {id}) \in Int
    BY <1>6, <2>1, SumType
  <2> QED BY <1>2, <1>3, <1>5, <2>2, <2>3, <2>4
<1>11. l.list # <<>> => LevelHolds(l, A \ {id}, O)
  BY <1>7, <1>8, <1>9, <1>10 DEF LevelHolds
<1> QED BY <1>1, <1>5, <1>9, <1>11

\* GetOrCreatePriceLevel with the levels of the side.
LevelFor(levels, p, at) ==
    IF p \in DOMAIN levels THEN levels[p]
    ELSE [at |-> at, list |-> <<>>, total_quantity |-> 0]

LEMMA LevelForHolds ==
    ASSUME NEW levels, NEW leaf, NEW M, NEW O \in Orders, NEW s, SideHolds(levels, leaf, M, O, s),
           NEW p, NEW at \in Addresses
    PROVE  /\ LevelFor(levels, p, at) \in PriceLevel
           /\ LevelFor(levels, p, at).list = ListOf(levels, p)
           /\ Once(LevelFor(levels, p, at).list, PricedAt(O, M, p))
           /\ LevelFor(levels, p, at).total_quantity
                = SumFunctionOnSet(QuantityIn(O), PricedAt(O, M, p))
           /\ p \in DOMAIN levels => LevelFor(levels, p, at).at = levels[p].at
<1>1. Once(ListOf(levels, p), PricedAt(O, M, p))
  BY ListOnce
<1>2. CASE p \in DOMAIN levels
  <2>1. LevelFor(levels, p, at) = levels[p] /\ ListOf(levels, p) = levels[p].list
    BY <1>2 DEF LevelFor, ListOf
  <2>2. LevelHolds(levels[p], PricedAt(O, M, p), O)
    BY <1>2 DEF SideHolds
  <2> QED BY <1>1, <2>1, <2>2 DEF LevelHolds
<1>3. CASE p \notin DOMAIN levels
  <2>1. /\ LevelFor(levels, p, at) = [at |-> at, list |-> <<>>, total_quantity |-> 0]
        /\ ListOf(levels, p) = <<>>
    BY <1>3 DEF LevelFor, ListOf
  <2>2. LevelFor(levels, p, at) \in PriceLevel
    BY <2>1 DEF PriceLevel
  <2>3. PricedAt(O, M, p) = {}
    BY <1>3 DEF SideHolds, PricedAt
  <2>4. SumFunctionOnSet(QuantityIn(O), PricedAt(O, M, p)) = 0
    BY <2>3, SumEmpty
  <2>5. LevelFor(levels, p, at).list = <<>> /\ LevelFor(levels, p, at).total_quantity = 0
    BY <2>1
  <2> QED BY <1>1, <1>3, <2>1, <2>2, <2>4, <2>5
<1> QED BY <1>2, <1>3

\* Order o comes to a side, and what becomes of its levels and of its leaf.
Comes(O, N, M, id, o, s) ==
    /\ id \notin M /\ o.side = s /\ ~Refused(o) /\ N[id] = o /\ \A z \in M : N[z] = O[z]

JoinedLevels(levels, levels2, leaf, leaf2, id, o, at) ==
    /\ levels2 = [z \in DOMAIN levels \cup {o.price} |->
                    IF z = o.price
                    THEN AddOrderToPriceLevel(LevelFor(levels, o.price, at), id, o.quantity)
                    ELSE levels[z]]
    /\ leaf2 = IF leaf = 0 THEN LevelFor(levels, o.price, at).at ELSE leaf

LEMMA JoinSide ==
    ASSUME NEW levels, NEW leaf, NEW M, NEW O \in Orders, NEW s, SideHolds(levels, leaf, M, O, s),
           NEW id \in ArtOrders, NEW o \in Incoming, NEW N \in Orders, Comes(O, N, M, id, o, s),
           NEW at \in Addresses, NEW levels2, NEW leaf2,
           JoinedLevels(levels, levels2, leaf, leaf2, id, o, at)
    PROVE  SideHolds(levels2, leaf2, M \cup {id}, N, s) /\ ListJoined(levels, levels2, o.price, id)
<1>a. id \notin M /\ o.side = s /\ ~Refused(o) /\ N[id] = o /\ \A z \in M : N[z] = O[z]
  BY DEF Comes
<1>b. PICK level : level = AddOrderToPriceLevel(LevelFor(levels, o.price, at), id, o.quantity)
  OBVIOUS
<1>c. /\ levels2 = [z \in DOMAIN levels \cup {o.price} |-> IF z = o.price THEN level ELSE levels[z]]
      /\ leaf2 = IF leaf = 0 THEN LevelFor(levels, o.price, at).at ELSE leaf
  BY <1>b DEF JoinedLevels
<1>1. PICK base : base = LevelFor(levels, o.price, at)
  OBVIOUS
<1>2. PICK A : A = PricedAt(O, M, o.price)
  OBVIOUS
<1>3. /\ base \in PriceLevel /\ base.list = ListOf(levels, o.price) /\ Once(base.list, A)
      /\ base.total_quantity = SumFunctionOnSet(QuantityIn(O), A)
      /\ o.price \in DOMAIN levels => base.at = levels[o.price].at
  BY <1>1, <1>2, LevelForHolds
<1>4. A \subseteq M /\ M \subseteq ArtOrders /\ id \notin A
  BY <1>2, <1>a DEF PricedAt, SideHolds
<1>5. LevelHolds(level, A \cup {id}, N) /\ level.list = Append(base.list, id) /\ level.at = base.at
  <2>1. \A z \in A : N[z] = O[z]
    BY <1>4, <1>a
  <2>2. A \subseteq ArtOrders /\ id \notin A
    BY <1>4
  <2>3. JoinedLevel(AddOrderToPriceLevel(base, id, o.quantity), base, A, N, id)
    <3>1. /\ base \in PriceLevel /\ Once(base.list, A) /\ N[id] = o
          /\ base.total_quantity = SumFunctionOnSet(QuantityIn(O), A)
      BY <1>3, <1>a
    <3> QED BY <2>1, <2>2, <3>1, LevelJoined, Zenon
  <2>4. level = AddOrderToPriceLevel(base, id, o.quantity)
    BY <1>1, <1>b
  <2> QED BY <2>3, <2>4 DEF JoinedLevel
<1>6. /\ DOMAIN levels2 = DOMAIN levels \cup {o.price} /\ levels2[o.price] = level
      /\ \A p \in DOMAIN levels : p # o.price => levels2[p] = levels[p]
  BY <1>c
<1>7. ASSUME NEW p \in DOMAIN levels2 PROVE LevelHolds(levels2[p], PricedAt(N, M \cup {id}, p), N)
  <2>1. CASE p = o.price
    <3>1. PricedAt(N, M \cup {id}, p) = A \cup {id}
      BY <1>2, <2>1, <1>a DEF PricedAt
    <3> QED BY <1>5, <1>6, <2>1, <3>1
  <2>2. CASE p # o.price
    <3>1. PricedAt(N, M \cup {id}, p) = PricedAt(O, M, p)
      BY <2>2, <1>a DEF PricedAt
    <3>2. p \in DOMAIN levels /\ levels2[p] = levels[p]
      BY <1>6, <2>2
    <3>3. LevelHolds(levels[p], PricedAt(O, M, p), O)
      BY <3>2 DEF SideHolds
    <3>4. PricedAt(O, M, p) \subseteq ArtOrders /\ \A z \in PricedAt(O, M, p) : N[z] = O[z]
      BY <1>4, <1>a DEF PricedAt
    <3>5. LevelHolds(levels[p], PricedAt(O, M, p), N)
      BY <3>3, <3>4, LevelElsewhere
    <3> QED BY <3>1, <3>2, <3>5
  <2> QED BY <2>1, <2>2
<1>8. DOMAIN levels2 \subseteq ArtPrices \ {0}
  <2>1. o.price \in ArtPrices /\ o.price # 0
    BY IncomingFields, <1>a DEF Refused
  <2> QED BY <1>6, <2>1 DEF SideHolds
<1>9. \A z \in M \cup {id} : N[z] \in Incoming /\ N[z].side = s /\ N[z].price \in DOMAIN levels2
  BY <1>6, <1>a DEF SideHolds
<1>10. leaf2 = 0 \/ \E p \in DOMAIN levels2 : levels2[p].at = leaf2
  <2>1. CASE leaf = 0
    <3>1. leaf2 = base.at
      BY <1>1, <1>c, <2>1
    <3> QED BY <1>5, <1>6, <3>1
  <2>2. CASE leaf # 0
    <3>1. PICK p \in DOMAIN levels : levels[p].at = leaf
      BY <2>2 DEF SideHolds
    <3>2. levels2[p].at = levels[p].at
      BY <1>3, <1>5, <1>6
    <3> QED BY <1>6, <1>c, <2>2, <3>1, <3>2
  <2> QED BY <2>1, <2>2
<1>11. SideHolds(levels2, leaf2, M \cup {id}, N, s)
  BY <1>4, <1>7, <1>8, <1>9, <1>10 DEF SideHolds
<1>12. ListJoined(levels, levels2, o.price, id)
  <2>1. ASSUME NEW p
        PROVE  ListOf(levels2, p) = IF p = o.price THEN Append(ListOf(levels, p), id)
                                    ELSE ListOf(levels, p)
    BY <1>3, <1>5, <1>6 DEF ListOf
  <2> QED BY <2>1 DEF ListJoined
<1> QED BY <1>11, <1>12

\* What is left of the levels and of the leaf of a side.
LeftLevels(levels, p, level) ==
    IF level.list = <<>> THEN [z \in DOMAIN levels \ {p} |-> levels[z]]
    ELSE [z \in DOMAIN levels \cup {p} |-> IF z = p THEN level ELSE levels[z]]

LEMMA LeaveSide ==
    ASSUME NEW levels, NEW leaf, NEW M, NEW O \in Orders, NEW s, SideHolds(levels, leaf, M, O, s),
           NEW id \in M, NEW p, p = O[id].price,
           NEW level, level = RemoveOrderFromPriceLevel(levels[p], id, O[id].quantity),
           NEW levels2, levels2 = LeftLevels(levels, p, level),
           NEW leaf2, leaf2 = IF level.list = <<>> THEN 0 ELSE leaf
    PROVE  /\ SideHolds(levels2, leaf2, M \ {id}, O, s)
           /\ ListLeft(levels, levels2, p, id)
<1>1. PICK A : A = PricedAt(O, M, p)
  OBVIOUS
<1>2. p \in DOMAIN levels /\ O[id] \in Incoming /\ O[id] # NoArtOrder /\ M \subseteq ArtOrders
  <2>1. p \in DOMAIN levels /\ O[id] \in Incoming /\ M \subseteq ArtOrders
    BY DEF SideHolds
  <2> QED BY <2>1, IncomingFields
<1>3. LevelHolds(levels[p], A, O) /\ A \subseteq ArtOrders /\ id \in A /\ A \subseteq M
  <2>1. LevelHolds(levels[p], A, O)
    BY <1>1, <1>2 DEF SideHolds
  <2>2. A \subseteq M /\ id \in A
    BY <1>1 DEF PricedAt
  <2> QED BY <1>2, <2>1, <2>2
<1>4. /\ level.list = Without(levels[p].list, id) /\ (level.list = <<>> <=> A = {id})
      /\ (level.list # <<>> => LevelHolds(level, A \ {id}, O)) /\ level.at = levels[p].at
  <2>1. PICK base : base = levels[p]
    OBVIOUS
  <2>2. LevelHolds(base, A, O) /\ A \subseteq ArtOrders /\ id \in A /\ O[id] # NoArtOrder
    BY <1>2, <1>3, <2>1
  <2>3. LET l == RemoveOrderFromPriceLevel(base, id, O[id].quantity)
        IN  /\ l.list = Without(base.list, id)
            /\ l.list = <<>> <=> A = {id}
            /\ l.list # <<>> => LevelHolds(l, A \ {id}, O)
            /\ l.at = base.at
    BY <2>2, LevelLeft
  <2>4. level = RemoveOrderFromPriceLevel(base, id, O[id].quantity)
    BY <2>1
  <2> QED BY <2>1, <2>3, <2>4
<1>5. ASSUME NEW z PROVE PricedAt(O, M \ {id}, z) = IF z = p THEN A \ {id} ELSE PricedAt(O, M, z)
  BY <1>1 DEF PricedAt
<1>6. CASE level.list = <<>>
  <2>1. DOMAIN levels2 = DOMAIN levels \ {p} /\ \A z \in DOMAIN levels2 : levels2[z] = levels[z]
    BY <1>6 DEF LeftLevels
  <2>2. A = {id} /\ leaf2 = 0
    BY <1>4, <1>6
  <2>3. ASSUME NEW z \in DOMAIN levels2 PROVE LevelHolds(levels2[z], PricedAt(O, M \ {id}, z), O)
    <3>1. z \in DOMAIN levels /\ z # p /\ levels2[z] = levels[z]
      BY <2>1
    <3> QED BY <1>5, <3>1 DEF SideHolds
  <2>4. ASSUME NEW w \in M \ {id}
        PROVE  O[w] \in Incoming /\ O[w].side = s /\ O[w].price \in DOMAIN levels2
    <3>1. w \notin A
      BY <2>2
    <3>2. O[w].price # p
      BY <1>1, <3>1 DEF PricedAt
    <3> QED BY <2>1, <3>2 DEF SideHolds
  <2>5. SideHolds(levels2, leaf2, M \ {id}, O, s)
    BY <1>2, <2>1, <2>2, <2>3, <2>4 DEF SideHolds
  <2>6. ListLeft(levels, levels2, p, id)
    BY <1>2, <1>4, <1>6, <2>1 DEF ListOf, ListLeft
  <2> QED BY <2>5, <2>6
<1>7. CASE level.list # <<>>
  <2>1. /\ DOMAIN levels2 = DOMAIN levels /\ levels2[p] = level
        /\ \A z \in DOMAIN levels : z # p => levels2[z] = levels[z]
    BY <1>2, <1>7 DEF LeftLevels
  <2>2. LevelHolds(level, A \ {id}, O) /\ leaf2 = leaf
    BY <1>4, <1>7
  <2>3. ASSUME NEW z \in DOMAIN levels2 PROVE LevelHolds(levels2[z], PricedAt(O, M \ {id}, z), O)
    <3>1. CASE z = p
      BY <1>5, <2>1, <2>2, <3>1
    <3>2. CASE z # p
      <4>1. z \in DOMAIN levels /\ levels2[z] = levels[z]
        BY <2>1, <3>2
      <4> QED BY <1>5, <3>2, <4>1 DEF SideHolds
    <3> QED BY <3>1, <3>2
  <2>4. \A w \in M \ {id} : O[w] \in Incoming /\ O[w].side = s /\ O[w].price \in DOMAIN levels2
    BY <2>1 DEF SideHolds
  <2>5. leaf2 = 0 \/ \E z \in DOMAIN levels2 : levels2[z].at = leaf2
    <3>1. \A z \in DOMAIN levels : levels2[z].at = levels[z].at
      BY <1>4, <2>1
    <3> QED BY <2>1, <2>2, <3>1 DEF SideHolds
  <2>6. SideHolds(levels2, leaf2, M \ {id}, O, s)
    <3>1. M \ {id} \subseteq ArtOrders /\ DOMAIN levels2 \subseteq ArtPrices \ {0}
      BY <1>2, <2>1 DEF SideHolds
    <3> QED BY <2>3, <2>4, <2>5, <3>1 DEF SideHolds
  <2>7. ListLeft(levels, levels2, p, id)
    BY <1>2, <1>4, <2>1 DEF ListOf, ListLeft
  <2> QED BY <2>6, <2>7
<1> QED BY <1>6, <1>7

\* Order id of a side gets quantity q, and its level the difference.
Changes(O, N, M, id, q) ==
    N[id] = [O[id] EXCEPT !.quantity = q] /\ \A z \in M \ {id} : N[z] = O[z]

ChangedLevels(levels, levels2, o, q) ==
    levels2 = [levels EXCEPT ![o.price].total_quantity = @ - o.quantity + q]

SameLists(levels, levels2) == \A z : ListOf(levels2, z) = ListOf(levels, z)

LEMMA QuantitySide ==
    ASSUME NEW levels, NEW leaf, NEW M, NEW O \in Orders, NEW s, SideHolds(levels, leaf, M, O, s),
           NEW id \in M, NEW q \in ArtQuantities, NEW N \in Orders, Changes(O, N, M, id, q),
           NEW levels2, ChangedLevels(levels, levels2, O[id], q)
    PROVE  SideHolds(levels2, leaf, M, N, s) /\ SameLists(levels, levels2)
<1>a. N[id] = [O[id] EXCEPT !.quantity = q] /\ \A z \in M \ {id} : N[z] = O[z]
  BY DEF Changes
<1>b. PICK p : p = O[id].price
  OBVIOUS
<1>c. levels2 = [levels EXCEPT ![p].total_quantity = @ - O[id].quantity + q]
  BY <1>b DEF ChangedLevels
<1>1. /\ p \in DOMAIN levels /\ O[id] \in Incoming /\ M \subseteq ArtOrders /\ O[id].side = s
      /\ DOMAIN levels \subseteq ArtPrices \ {0}
  BY <1>b DEF SideHolds
<1>2. /\ O[id].quantity \in Nat /\ O[id] # NoArtOrder /\ q \in Nat
      /\ N[id].price = p /\ N[id].side = s /\ N[id].quantity = q /\ N[id] \in Incoming
  <2>1. O[id].quantity \in Nat /\ O[id] # NoArtOrder
    BY <1>1, IncomingFields
  <2>2. q \in Nat
    BY ArtAssumption
  <2>3. N[id] \in Incoming /\ N[id].price = p /\ N[id].side = s /\ N[id].quantity = q
    BY <1>1, <1>a, <1>b DEF Incoming
  <2> QED BY <2>1, <2>2, <2>3
<1>3. PICK level : level = [levels[p] EXCEPT !.total_quantity = @ - O[id].quantity + q]
  OBVIOUS
<1>4. /\ DOMAIN levels2 = DOMAIN levels /\ levels2[p] = level
      /\ \A z \in DOMAIN levels : z # p => levels2[z] = levels[z]
  BY <1>1, <1>3, <1>c
<1>5. ASSUME NEW z PROVE PricedAt(N, M, z) = PricedAt(O, M, z)
  <2>1. \A m \in M : N[m].price = O[m].price
    <3>1. N[id].price = O[id].price
      BY <1>2, <1>b
    <3> QED BY <1>a, <3>1
  <2> QED BY <2>1, Zenon DEF PricedAt
<1>6. PICK A : A = PricedAt(O, M, p)
  OBVIOUS
<1>7. LevelHolds(levels[p], A, O) /\ A \subseteq M /\ A \subseteq ArtOrders /\ id \in A /\ IsFiniteSet(A)
  <2>1. LevelHolds(levels[p], A, O)
    BY <1>1, <1>6 DEF SideHolds
  <2>2. A \subseteq M /\ id \in A
    BY <1>6, <1>b DEF PricedAt
  <2>3. A \subseteq ArtOrders
    BY <1>1, <2>2
  <2> QED BY <2>1, <2>2, <2>3, ArtAssumption, FS_Subset
<1>8. /\ levels[p] \in PriceLevel /\ Once(levels[p].list, A) /\ levels[p].total_quantity \in Int
      /\ levels[p].total_quantity = SumFunctionOnSet(QuantityIn(O), A) /\ A # {}
  BY <1>7 DEF LevelHolds, PriceLevel
<1>9. /\ level.list = levels[p].list /\ level.at = levels[p].at
      /\ level.total_quantity = levels[p].total_quantity - O[id].quantity + q
      /\ level \in PriceLevel
  <2>1. levels[p].total_quantity - O[id].quantity + q \in Int
    BY <1>2, <1>8
  <2> QED BY <1>3, <1>8, <2>1 DEF PriceLevel
<1>10. level.total_quantity = SumFunctionOnSet(QuantityIn(N), A)
  <2>1. \A z \in A : QuantityIn(O)[z] \in Int /\ QuantityIn(N)[z] \in Int
    BY <1>7, QuantityTypes
  <2>2. \A z \in A \ {id} : QuantityIn(O)[z] = QuantityIn(N)[z]
    BY <1>7, <1>a DEF QuantityIn
  <2>3. SumFunctionOnSet(QuantityIn(N), A)
          = SumFunctionOnSet(QuantityIn(O), A) - QuantityIn(O)[id] + QuantityIn(N)[id]
    <3>1. SumFunctionOnSet(QuantityIn(O), A)
            = QuantityIn(O)[id] + SumFunctionOnSet(QuantityIn(O), A \ {id})
      BY <1>7, <2>1, SumRemove
    <3>2. SumFunctionOnSet(QuantityIn(N), A)
            = QuantityIn(N)[id] + SumFunctionOnSet(QuantityIn(N), A \ {id})
      BY <1>7, <2>1, SumRemove
    <3>3. IsFiniteSet(A \ {id})
      BY <1>7, FS_Subset
    <3>4. SumFunctionOnSet(QuantityIn(O), A \ {id}) = SumFunctionOnSet(QuantityIn(N), A \ {id})
      BY <2>2, <3>3, SumSame
    <3>5. SumFunctionOnSet(QuantityIn(O), A \ {id}) \in Int
      BY <2>1, <3>3, SumType
    <3> QED BY <1>7, <2>1, <3>1, <3>2, <3>4, <3>5
  <2>4. N[id] # NoArtOrder
    BY <1>2, IncomingFields
  <2>5. QuantityIn(O)[id] = O[id].quantity /\ QuantityIn(N)[id] = q
    BY <1>1, <1>2, <2>4 DEF QuantityIn
  <2> QED BY <1>8, <1>9, <2>3, <2>5
<1>11. LevelHolds(level, A, N)
  BY <1>8, <1>9, <1>10 DEF LevelHolds
<1>12. ASSUME NEW z \in DOMAIN levels2 PROVE LevelHolds(levels2[z], PricedAt(N, M, z), N)
  <2>1. CASE z = p
    BY <1>4, <1>5, <1>6, <1>11, <2>1
  <2>2. CASE z # p
    <3>1. z \in DOMAIN levels /\ levels2[z] = levels[z]
      BY <1>4, <2>2
    <3>2. LevelHolds(levels[z], PricedAt(O, M, z), O)
      BY <3>1 DEF SideHolds
    <3>3. PricedAt(O, M, z) \subseteq ArtOrders
      BY <1>1 DEF PricedAt
    <3>4. \A w \in PricedAt(O, M, z) : N[w] = O[w]
      BY <2>2, <1>a, <1>b DEF PricedAt
    <3> QED BY <1>5, <3>1, <3>2, <3>3, <3>4, LevelElsewhere
  <2> QED BY <2>1, <2>2
<1>13. ASSUME NEW w \in M
       PROVE  N[w] \in Incoming /\ N[w].side = s /\ N[w].price \in DOMAIN levels2
  <2>1. CASE w = id
    BY <1>1, <1>2, <1>4, <2>1
  <2>2. CASE w # id
    BY <1>4, <1>a, <2>2 DEF SideHolds
  <2> QED BY <2>1, <2>2
<1>14. leaf = 0 \/ \E z \in DOMAIN levels2 : levels2[z].at = leaf
  <2>1. \A z \in DOMAIN levels : levels2[z].at = levels[z].at
    BY <1>4, <1>9
  <2> QED BY <1>4, <2>1 DEF SideHolds
<1>15. SideHolds(levels2, leaf, M, N, s)
  BY <1>1, <1>4, <1>12, <1>13, <1>14 DEF SideHolds
<1>16. SameLists(levels, levels2)
  BY <1>4, <1>9 DEF ListOf, SameLists
<1> QED BY <1>15, <1>16
-----------------------------------------------------------------------------
(* The two sides, and what a call makes of them. *)

BookHolds(levels, leaves, ids, O) ==
    /\ levels = [s \in OrderSide |-> levels[s]] /\ leaves = [s \in OrderSide |-> leaves[s]]
    /\ ids = [s \in OrderSide |-> ids[s]]
    /\ \A s \in OrderSide : SideHolds(levels[s], leaves[s], ids[s], O, s)

ListsJoined(levels, levels2, side, price, id) ==
    /\ ListJoined(levels[side], levels2[side], price, id)
    /\ \A s \in OrderSide \ {side} : levels2[s] = levels[s]

ListsLeft(levels, levels2, side, price, id) ==
    /\ ListLeft(levels[side], levels2[side], price, id)
    /\ \A s \in OrderSide \ {side} : levels2[s] = levels[s]

LEMMA EnterKeeps ==
    ASSUME NEW levels, NEW leaves, NEW ids, NEW O \in Orders, BookHolds(levels, leaves, ids, O),
           NEW id \in ArtOrders, \A s \in OrderSide : id \notin ids[s],
           NEW o \in Incoming, ~Refused(o), Enter(id, o, levels, leaves),
           [art_order_map_ EXCEPT ![o.side] = @ \cup {id}] = [ids EXCEPT ![o.side] = @ \cup {id}],
           NEW N \in Orders, N[id] = o, \A z \in ArtOrders \ {id} : N[z] = O[z]
    PROVE  /\ BookHolds(price_levels_', art_root_', art_order_map_', N)
           /\ ListsJoined(levels, price_levels_', o.side, o.price, id)
<1>1. PICK at \in FreeAddresses(levels) :
        LET level == GetOrCreatePriceLevel(levels, o.side, o.price, at)
        IN /\ price_levels_' = WithLevel(levels, o.side, o.price,
                                 AddOrderToPriceLevel(level, id, o.quantity))
           /\ art_root_' = IF Find(leaves, o.side, o.price) = 0
                       THEN InsertLeaf(leaves, o.side, level.at) ELSE leaves
           /\ art_order_map_' = [art_order_map_ EXCEPT ![o.side] = @ \cup {id}]
  BY DEF Enter
<1>2. PICK side : side = o.side
  OBVIOUS
<1>3. PICK p : p = o.price
  OBVIOUS
<1>4. PICK levels2 : levels2 = price_levels_'
  OBVIOUS
<1>5. PICK leaves2 : leaves2 = art_root_'
  OBVIOUS
<1>6. PICK ids2 : ids2 = art_order_map_'
  OBVIOUS
<1>7. at \in Addresses /\ side \in OrderSide
  BY <1>2, IncomingFields DEF FreeAddresses
<1>8. PICK base : base = LevelFor(levels[side], p, at)
  OBVIOUS
<1>9. PICK level : level = AddOrderToPriceLevel(base, id, o.quantity)
  OBVIOUS
<1>10. GetOrCreatePriceLevel(levels, o.side, o.price, at) = base
  BY <1>2, <1>3, <1>8 DEF GetOrCreatePriceLevel, LevelFor
<1>11. /\ levels2 = WithLevel(levels, side, p, level)
       /\ leaves2 = IF leaves[side] = 0 THEN [leaves EXCEPT ![side] = base.at] ELSE leaves
       /\ ids2 = [ids EXCEPT ![side] = @ \cup {id}]
  BY <1>1, <1>2, <1>3, <1>4, <1>5, <1>6, <1>9, <1>10 DEF Find, InsertLeaf
<1>12. /\ levels = [s \in OrderSide |-> levels[s]] /\ leaves = [s \in OrderSide |-> leaves[s]]
       /\ ids = [s \in OrderSide |-> ids[s]]
  BY DEF BookHolds
<1>13. /\ levels2 = [s \in OrderSide |-> levels2[s]]
       /\ levels2[side] = [z \in DOMAIN levels[side] \cup {p} |->
                             IF z = p THEN level ELSE levels[side][z]]
       /\ \A s \in OrderSide \ {side} : levels2[s] = levels[s]
  BY <1>7, <1>11, <1>12 DEF WithLevel
<1>14. /\ leaves2 = [s \in OrderSide |-> leaves2[s]]
       /\ leaves2[side] = IF leaves[side] = 0 THEN base.at ELSE leaves[side]
       /\ \A s \in OrderSide \ {side} : leaves2[s] = leaves[s]
  BY <1>7, <1>11, <1>12
<1>15. /\ ids2 = [s \in OrderSide |-> ids2[s]]
       /\ ids2[side] = ids[side] \cup {id}
       /\ \A s \in OrderSide \ {side} : ids2[s] = ids[s]
  BY <1>7, <1>11, <1>12
<1>16. ASSUME NEW s \in OrderSide, s = side
       PROVE  /\ SideHolds(levels2[s], leaves2[s], ids2[s], N, s)
              /\ ListJoined(levels[s], levels2[s], p, id)
  <2>1. PICK lv : lv = levels[s]
    OBVIOUS
  <2>2. PICK lv2 : lv2 = levels2[s]
    OBVIOUS
  <2>3. PICK M : M = ids[s]
    OBVIOUS
  <2>4. SideHolds(lv, leaves[s], M, O, s) /\ M \subseteq ArtOrders
    BY <2>1, <2>3 DEF BookHolds, SideHolds
  <2>5. id \notin M /\ o.side = s /\ o.price = p /\ \A z \in M : N[z] = O[z]
    BY <1>2, <1>3, <1>16, <2>3, <2>4
  <2>6. PICK leaf : leaf = leaves[s]
    OBVIOUS
  <2>7. PICK leaf2 : leaf2 = leaves2[s]
    OBVIOUS
  <2>8. JoinedLevels(lv, lv2, leaf, leaf2, id, o, at)
    BY <1>8, <1>9, <1>13, <1>14, <1>16, <2>1, <2>2, <2>5, <2>6, <2>7 DEF JoinedLevels
  <2>9. Comes(O, N, M, id, o, s)
    BY <2>5 DEF Comes
  <2>10. SideHolds(lv, leaf, M, O, s)
    BY <2>4, <2>6
  <2>11. SideHolds(lv2, leaf2, M \cup {id}, N, s) /\ ListJoined(lv, lv2, o.price, id)
    BY <1>7, <2>8, <2>9, <2>10, JoinSide
  <2> QED BY <1>15, <1>16, <2>1, <2>2, <2>3, <2>5, <2>7, <2>11
<1>17. ASSUME NEW s \in OrderSide, s # side
       PROVE  SideHolds(levels2[s], leaves2[s], ids2[s], N, s) /\ levels2[s] = levels[s]
  <2>1. SideHolds(levels[s], leaves[s], ids[s], O, s)
    BY DEF BookHolds
  <2>2. \A z \in ids[s] : N[z] = O[z]
    BY <2>1 DEF SideHolds
  <2>3. SideHolds(levels[s], leaves[s], ids[s], N, s)
    BY <2>1, <2>2, SideElsewhere
  <2> QED BY <1>13, <1>14, <1>15, <1>17, <2>3
<1>18. BookHolds(levels2, leaves2, ids2, N)
  BY <1>13, <1>14, <1>15, <1>16, <1>17 DEF BookHolds
<1>19. ListsJoined(levels, levels2, side, p, id)
  <2>1. ListJoined(levels[side], levels2[side], p, id)
    BY <1>7, <1>16
  <2>2. \A s \in OrderSide \ {side} : levels2[s] = levels[s]
    BY <1>17
  <2> QED BY <2>1, <2>2 DEF ListsJoined
<1> QED BY <1>2, <1>3, <1>4, <1>5, <1>6, <1>18, <1>19

LEMMA LeaveKeeps ==
    ASSUME NEW O \in Orders, BookHolds(price_levels_, art_root_, art_order_map_, O),
           NEW side \in OrderSide, NEW id \in art_order_map_[side], NEW p, p = O[id].price,
           NEW level,
           level = RemoveOrderFromPriceLevel(price_levels_[side][p], id, O[id].quantity)
    PROVE  /\ BookHolds(LevelsLeft(side, p, level), LeavesLeft(side, p, level),
                        [art_order_map_ EXCEPT ![side] = @ \ {id}], O)
           /\ ListsLeft(price_levels_, LevelsLeft(side, p, level), side, p, id)
<1>1. PICK levels : levels = price_levels_
  OBVIOUS
<1>2. PICK leaves : leaves = art_root_
  OBVIOUS
<1>3. PICK ids : ids = art_order_map_
  OBVIOUS
<1>4. PICK levels2 : levels2 = LevelsLeft(side, p, level)
  OBVIOUS
<1>5. PICK leaves2 : leaves2 = LeavesLeft(side, p, level)
  OBVIOUS
<1>6. PICK ids2 : ids2 = [ids EXCEPT ![side] = @ \ {id}]
  OBVIOUS
<1>7. BookHolds(levels, leaves, ids, O) /\ id \in ids[side]
  BY <1>1, <1>2, <1>3
<1>8. /\ levels = [s \in OrderSide |-> levels[s]] /\ leaves = [s \in OrderSide |-> leaves[s]]
      /\ ids = [s \in OrderSide |-> ids[s]]
  BY <1>7 DEF BookHolds
<1>9. /\ levels2 = [s \in OrderSide |-> levels2[s]]
      /\ levels2[side] = LeftLevels(levels[side], p, level)
      /\ \A s \in OrderSide \ {side} : levels2[s] = levels[s]
  <2>1. CASE level.list = <<>>
    <3>1. levels2 = [levels EXCEPT ![side] = [z \in DOMAIN @ \ {p} |-> @[z]]]
      BY <1>1, <1>4, <2>1 DEF LevelsLeft, WithoutLevel
    <3> QED BY <1>8, <2>1, <3>1 DEF LeftLevels
  <2>2. CASE level.list # <<>>
    <3>1. levels2 = [levels EXCEPT ![side] =
                       [z \in DOMAIN @ \cup {p} |-> IF z = p THEN level ELSE @[z]]]
      BY <1>1, <1>4, <2>2 DEF LevelsLeft, WithLevel
    <3> QED BY <1>8, <2>2, <3>1 DEF LeftLevels
  <2> QED BY <2>1, <2>2
<1>10. /\ leaves2 = [s \in OrderSide |-> leaves2[s]]
       /\ leaves2[side] = IF level.list = <<>> THEN 0 ELSE leaves[side]
       /\ \A s \in OrderSide \ {side} : leaves2[s] = leaves[s]
  BY <1>2, <1>5, <1>8 DEF LeavesLeft, RemoveKey
<1>11. /\ ids2 = [s \in OrderSide |-> ids2[s]]
       /\ ids2[side] = ids[side] \ {id}
       /\ \A s \in OrderSide \ {side} : ids2[s] = ids[s]
  BY <1>6, <1>8
<1>12. /\ SideHolds(levels2[side], leaves2[side], ids2[side], O, side)
       /\ ListLeft(levels[side], levels2[side], p, id)
  <2>1. PICK lv : lv = levels[side]
    OBVIOUS
  <2>2. PICK lv2 : lv2 = levels2[side]
    OBVIOUS
  <2>3. PICK leaf : leaf = leaves[side]
    OBVIOUS
  <2>4. PICK leaf2 : leaf2 = leaves2[side]
    OBVIOUS
  <2>5. PICK M : M = ids[side]
    OBVIOUS
  <2>6. SideHolds(lv, leaf, M, O, side)
    BY <1>7, <2>1, <2>3, <2>5 DEF BookHolds
  <2>7. id \in M
    BY <1>7, <2>5
  <2>8. level = RemoveOrderFromPriceLevel(lv[p], id, O[id].quantity)
    BY <1>1, <2>1
  <2>9. lv2 = LeftLevels(lv, p, level)
    BY <1>9, <2>1, <2>2
  <2>10. leaf2 = IF level.list = <<>> THEN 0 ELSE leaf
    BY <1>10, <2>3, <2>4
  <2>11. SideHolds(lv2, leaf2, M \ {id}, O, side) /\ ListLeft(lv, lv2, p, id)
    BY <2>6, <2>7, <2>8, <2>9, <2>10, LeaveSide
  <2> QED BY <1>11, <2>1, <2>2, <2>4, <2>5, <2>11
<1>13. ASSUME NEW s \in OrderSide PROVE SideHolds(levels2[s], leaves2[s], ids2[s], O, s)
  <2>1. CASE s = side
    BY <1>12, <2>1
  <2>2. CASE s # side
    BY <1>7, <1>9, <1>10, <1>11, <2>2 DEF BookHolds
  <2> QED BY <2>1, <2>2
<1>14. BookHolds(levels2, leaves2, ids2, O)
  BY <1>9, <1>10, <1>11, <1>13 DEF BookHolds
<1>15. ListsLeft(levels, levels2, side, p, id)
  BY <1>9, <1>12 DEF ListsLeft
<1> QED BY <1>1, <1>3, <1>4, <1>5, <1>6, <1>14, <1>15

LEMMA QuantityKeeps ==
    ASSUME NEW levels, NEW leaves, NEW ids, NEW O \in Orders, BookHolds(levels, leaves, ids, O),
           NEW side \in OrderSide, NEW id \in ids[side], NEW q \in ArtQuantities,
           NEW p, p = O[id].price, NEW N \in Orders, N = [O EXCEPT ![id].quantity = q],
           NEW levels2,
           levels2 = [levels EXCEPT ![side][p].total_quantity = @ - O[id].quantity + q]
    PROVE  /\ BookHolds(levels2, leaves, ids, N)
           /\ \A s \in OrderSide : SameLists(levels[s], levels2[s])
<1>1. /\ levels = [s \in OrderSide |-> levels[s]] /\ leaves = [s \in OrderSide |-> leaves[s]]
      /\ ids = [s \in OrderSide |-> ids[s]]
  BY DEF BookHolds
<1>2. /\ levels2 = [s \in OrderSide |-> levels2[s]]
      /\ \A s \in OrderSide \ {side} : levels2[s] = levels[s]
  BY <1>1
<1>3. levels2[side] = [levels[side] EXCEPT ![p].total_quantity = @ - O[id].quantity + q]
  BY <1>1
<1>4. \A s \in OrderSide : ids[s] \subseteq ArtOrders
  BY DEF BookHolds, SideHolds
<1>5. N[id] = [O[id] EXCEPT !.quantity = q] /\ \A z \in ArtOrders \ {id} : N[z] = O[z]
  BY <1>4 DEF Orders
<1>6. SideHolds(levels2[side], leaves[side], ids[side], N, side)
      /\ SameLists(levels[side], levels2[side])
  <2>1. PICK lv : lv = levels[side]
    OBVIOUS
  <2>2. PICK lv2 : lv2 = levels2[side]
    OBVIOUS
  <2>3. PICK leaf : leaf = leaves[side]
    OBVIOUS
  <2>4. PICK M : M = ids[side]
    OBVIOUS
  <2>5. SideHolds(lv, leaf, M, O, side)
    BY <2>1, <2>3, <2>4 DEF BookHolds
  <2>6. id \in M
    BY <2>4
  <2>7. \A z \in M \ {id} : N[z] = O[z]
    BY <1>4, <1>5, <2>4
  <2>8. lv2 = [lv EXCEPT ![p].total_quantity = @ - O[id].quantity + q]
    BY <1>3, <2>1, <2>2
  <2>9. N[id] = [O[id] EXCEPT !.quantity = q]
    BY <1>5
  <2>10. Changes(O, N, M, id, q) /\ ChangedLevels(lv, lv2, O[id], q)
    BY <2>7, <2>8, <2>9 DEF Changes, ChangedLevels
  <2>11. SideHolds(lv2, leaf, M, N, side) /\ SameLists(lv, lv2)
    BY <2>5, <2>6, <2>10, QuantitySide
  <2> QED BY <2>1, <2>2, <2>3, <2>4, <2>11
<1>7. ASSUME NEW s \in OrderSide, s # side PROVE SideHolds(levels2[s], leaves[s], ids[s], N, s)
  <2>1. SideHolds(levels[s], leaves[s], ids[s], O, s) /\ levels2[s] = levels[s]
    BY <1>2, <1>7 DEF BookHolds
  <2>2. id \notin ids[s]
    <3>1. O[id].side = side
      BY DEF BookHolds, SideHolds
    <3> QED BY <1>7, <2>1, <3>1 DEF SideHolds
  <2>3. \A z \in ids[s] : N[z] = O[z]
    BY <1>4, <1>5, <2>2
  <2> QED BY <2>1, <2>3, SideElsewhere
<1>8. BookHolds(levels2, leaves, ids, N)
  BY <1>1, <1>2, <1>6, <1>7 DEF BookHolds
<1>9. \A s \in OrderSide \ {side} : SameLists(levels[s], levels2[s])
  BY <1>2 DEF SameLists
<1> QED BY <1>6, <1>8, <1>9
-----------------------------------------------------------------------------
(* Time priority, a call at a time. *)

ArrivalHolds(levels, levels2) ==
    \A s \in OrderSide : \A p : ArrivalKept(ListOf(levels[s], p), ListOf(levels2[s], p))

LEMMA BookLists ==
    ASSUME NEW levels, NEW leaves, NEW ids, NEW O, BookHolds(levels, leaves, ids, O),
           NEW s \in OrderSide, NEW p
    PROVE  /\ Once(ListOf(levels[s], p), PricedAt(O, ids[s], p))
           /\ IsFiniteSet(PricedAt(O, ids[s], p))
<1>1. SideHolds(levels[s], leaves[s], ids[s], O, s)
  BY DEF BookHolds
<1>2. ids[s] \subseteq ArtOrders
  BY <1>1 DEF SideHolds
<1> QED BY <1>1, <1>2, ListOnce, PricedFinite

LEMMA SameArrival ==
    ASSUME NEW levels, NEW leaves, NEW ids, NEW O, BookHolds(levels, leaves, ids, O), NEW levels2,
           \A s \in OrderSide : SameLists(levels[s], levels2[s])
    PROVE  ArrivalHolds(levels, levels2)
<1>1. ASSUME NEW s \in OrderSide, NEW p
      PROVE  ArrivalKept(ListOf(levels[s], p), ListOf(levels2[s], p))
  BY BookLists, ArrivalKeeps DEF SameLists
<1> QED BY <1>1 DEF ArrivalHolds

LEMMA JoinArrival ==
    ASSUME NEW levels, NEW leaves, NEW ids, NEW O, BookHolds(levels, leaves, ids, O), NEW levels2,
           NEW side \in OrderSide, NEW price, NEW id, id \notin ids[side],
           ListsJoined(levels, levels2, side, price, id)
    PROVE  ArrivalHolds(levels, levels2)
<1>1. ASSUME NEW s \in OrderSide, NEW p
      PROVE  ArrivalKept(ListOf(levels[s], p), ListOf(levels2[s], p))
  <2>1. PICK q : q = ListOf(levels[s], p)
    OBVIOUS
  <2>2. PICK S : S = PricedAt(O, ids[s], p)
    OBVIOUS
  <2>3. Once(q, S) /\ IsFiniteSet(S)
    BY <2>1, <2>2, BookLists
  <2>4. CASE s = side /\ p = price
    <3>1. ListOf(levels2[s], p) = Append(q, id)
      BY <2>1, <2>4 DEF ListsJoined, ListJoined
    <3>2. id \notin S
      BY <2>2, <2>4 DEF PricedAt
    <3> QED BY <2>1, <2>3, <3>1, <3>2, ArrivalKeeps
  <2>5. CASE ~(s = side /\ p = price)
    <3>1. ListOf(levels2[s], p) = q
      BY <2>1, <2>5 DEF ListsJoined, ListJoined
    <3> QED BY <2>1, <2>3, <3>1, ArrivalKeeps
  <2> QED BY <2>4, <2>5
<1> QED BY <1>1 DEF ArrivalHolds

LEMMA LeaveArrival ==
    ASSUME NEW levels, NEW leaves, NEW ids, NEW O, BookHolds(levels, leaves, ids, O), NEW levels2,
           NEW side \in OrderSide, NEW price, NEW id \in ids[side], price = O[id].price,
           ListsLeft(levels, levels2, side, price, id)
    PROVE  ArrivalHolds(levels, levels2)
<1>1. ASSUME NEW s \in OrderSide, NEW p
      PROVE  ArrivalKept(ListOf(levels[s], p), ListOf(levels2[s], p))
  <2>1. PICK q : q = ListOf(levels[s], p)
    OBVIOUS
  <2>2. PICK S : S = PricedAt(O, ids[s], p)
    OBVIOUS
  <2>3. Once(q, S) /\ IsFiniteSet(S)
    BY <2>1, <2>2, BookLists
  <2>4. CASE s = side /\ p = price
    <3>1. ListOf(levels2[s], p) = Without(q, id)
      BY <2>1, <2>4 DEF ListsLeft, ListLeft
    <3>2. id \in S
      BY <2>2, <2>4 DEF PricedAt
    <3> QED BY <2>1, <2>3, <3>1, <3>2, ArrivalKeeps
  <2>5. CASE ~(s = side /\ p = price)
    <3>1. ListOf(levels2[s], p) = q
      BY <2>1, <2>5 DEF ListsLeft, ListLeft
    <3> QED BY <2>1, <2>3, <3>1, ArrivalKeeps
  <2> QED BY <2>4, <2>5
<1> QED BY <1>1 DEF ArrivalHolds

LEMMA ChangeArrival ==
    ASSUME NEW levels, NEW leaves, NEW ids, NEW O, BookHolds(levels, leaves, ids, O), NEW levels2,
           NEW side \in OrderSide, NEW price, NEW id \in ids[side], price = O[id].price,
           NEW mid, ListsLeft(levels, mid, side, price, id),
           NEW to, ListsJoined(mid, levels2, side, to, id)
    PROVE  ArrivalHolds(levels, levels2)
<1>1. ASSUME NEW s \in OrderSide, NEW p
      PROVE  ArrivalKept(ListOf(levels[s], p), ListOf(levels2[s], p))
  <2>1. PICK q : q = ListOf(levels[s], p)
    OBVIOUS
  <2>2. PICK S : S = PricedAt(O, ids[s], p)
    OBVIOUS
  <2>3. Once(q, S) /\ IsFiniteSet(S)
    BY <2>1, <2>2, BookLists
  <2>4. CASE s # side
    <3>1. ListOf(levels2[s], p) = q
      BY <2>1, <2>4 DEF ListsLeft, ListsJoined
    <3> QED BY <2>1, <2>3, <3>1, ArrivalKeeps
  <2>5. CASE s = side /\ p = price
    <3>1. ListOf(mid[s], p) = Without(q, id)
      BY <2>1, <2>5 DEF ListsLeft, ListLeft
    <3>2. \/ ListOf(levels2[s], p) = Append(Without(q, id), id)
          \/ ListOf(levels2[s], p) = Without(q, id)
      BY <2>5, <3>1 DEF ListsJoined, ListJoined
    <3>3. id \in S
      BY <2>2, <2>5 DEF PricedAt
    <3> QED BY <2>1, <2>3, <3>2, <3>3, ArrivalKeeps
  <2>6. CASE s = side /\ p # price
    <3>1. ListOf(mid[s], p) = q
      BY <2>1, <2>6 DEF ListsLeft, ListLeft
    <3>2. \/ ListOf(levels2[s], p) = Append(q, id)
          \/ ListOf(levels2[s], p) = q
      BY <2>6, <3>1 DEF ListsJoined, ListJoined
    <3>3. id \notin S
      BY <2>2, <2>6 DEF PricedAt
    <3> QED BY <2>1, <2>3, <3>2, <3>3, ArrivalKeeps
  <2> QED BY <2>4, <2>5, <2>6
<1> QED BY <1>1 DEF ArrivalHolds
-----------------------------------------------------------------------------
(* The calls. *)

ArtInv ==
    /\ engine \in {"art", "simd"} /\ orders_ \subseteq ArtOrders /\ (engine = "simd" => orders_ = {})
    /\ order \in Orders
    /\ BookHolds(price_levels_, art_root_, art_order_map_, order)

\* What a call keeps.
Kept ==
    /\ order' \in Orders /\ BookHolds(price_levels_', art_root_', art_order_map_', order')
    /\ ArrivalHolds(price_levels_, price_levels_')

LEMMA ArtStart == ASSUME ArtInit PROVE ArtInv
<1>1. /\ engine \in {"art", "simd"} /\ orders_ = {} /\ order = [id \in ArtOrders |-> NoArtOrder]
      /\ price_levels_ = [s \in OrderSide |-> <<>>] /\ art_root_ = [s \in OrderSide |-> 0]
      /\ art_order_map_ = [s \in OrderSide |-> {}]
  BY DEF ArtInit
<1>2. order \in Orders
  BY <1>1 DEF Orders
<1>3. ASSUME NEW s PROVE SideHolds(<<>>, 0, {}, order, s)
  <2>1. DOMAIN <<>> = {}
    OBVIOUS
  <2> QED BY <2>1 DEF SideHolds
<1>4. BookHolds(price_levels_, art_root_, art_order_map_, order)
  <2>1. \A s \in OrderSide : /\ price_levels_[s] = <<>> /\ art_root_[s] = 0
                            /\ art_order_map_[s] = {}
    BY <1>1
  <2>2. /\ price_levels_ = [s \in OrderSide |-> price_levels_[s]]
        /\ art_root_ = [s \in OrderSide |-> art_root_[s]]
        /\ art_order_map_ = [s \in OrderSide |-> art_order_map_[s]]
    BY <1>1
  <2> QED BY <1>3, <2>1, <2>2 DEF BookHolds
<1> QED BY <1>1, <1>2, <1>4 DEF ArtInv

LEMMA ArtInserts ==
    ASSUME ArtInv, NEW id \in ArtOrders, NEW o \in Incoming, order[id] = NoArtOrder,
           order' = [order EXCEPT ![id] = o],
           IF o.order_type = "LIMIT" THEN InsertArt(id, o) ELSE UNCHANGED sideVars
    PROVE  Kept
<1>1. PICK O : O = order
  OBVIOUS
<1>2. PICK N : N = order'
  OBVIOUS
<1>3. PICK levels : levels = price_levels_
  OBVIOUS
<1>4. PICK leaves : leaves = art_root_
  OBVIOUS
<1>5. PICK ids : ids = art_order_map_
  OBVIOUS
<1>6. O \in Orders /\ BookHolds(levels, leaves, ids, O)
  BY <1>1, <1>3, <1>4, <1>5 DEF ArtInv
<1>7. N \in Orders /\ N[id] = o /\ \A z \in ArtOrders \ {id} : N[z] = O[z]
  <2>1. O \in Orders /\ N = [O EXCEPT ![id] = o]
    BY <1>1, <1>2, <1>6
  <2> QED BY <2>1 DEF Orders
<1>8. \A s \in OrderSide : id \notin ids[s] /\ ids[s] \subseteq ArtOrders
  <2>1. \A s \in OrderSide : SideHolds(levels[s], leaves[s], ids[s], O, s)
    BY <1>6 DEF BookHolds
  <2>2. O[id] \notin Incoming
    BY <1>1, IncomingFields
  <2> QED BY <2>1, <2>2 DEF SideHolds
<1>9. CASE UNCHANGED sideVars
  <2>1. price_levels_' = levels /\ art_root_' = leaves /\ art_order_map_' = ids
    BY <1>3, <1>4, <1>5, <1>9 DEF sideVars
  <2>2. BookHolds(levels, leaves, ids, N)
    <3>1. ASSUME NEW s \in OrderSide PROVE SideHolds(levels[s], leaves[s], ids[s], N, s)
      <4>1. \A z \in ids[s] : N[z] = O[z]
        BY <1>7, <1>8
      <4>2. SideHolds(levels[s], leaves[s], ids[s], O, s)
        BY <1>6 DEF BookHolds
      <4> QED BY <1>6, <1>7, <4>1, <4>2, SideElsewhere
    <3> QED BY <1>6, <3>1 DEF BookHolds
  <2>3. ArrivalHolds(levels, levels)
    <3>1. \A s \in OrderSide : SameLists(levels[s], levels[s])
      BY DEF SameLists
    <3> QED BY <1>6, <3>1, SameArrival
  <2> QED BY <1>2, <1>3, <1>7, <2>1, <2>2, <2>3 DEF Kept
<1>10. CASE ~Refused(o) /\ Enter(id, o, price_levels_, art_root_)
  <2>1. Enter(id, o, levels, leaves)
    BY <1>3, <1>4, <1>10
  <2>2. [art_order_map_ EXCEPT ![o.side] = @ \cup {id}] = [ids EXCEPT ![o.side] = @ \cup {id}]
    BY <1>5
  <2>3. /\ BookHolds(price_levels_', art_root_', art_order_map_', N)
        /\ ListsJoined(levels, price_levels_', o.side, o.price, id)
    BY <1>6, <1>7, <1>8, <1>10, <2>1, <2>2, EnterKeeps
  <2>4. ArrivalHolds(levels, price_levels_')
    <3>1. o.side \in OrderSide
      BY IncomingFields
    <3>2. id \notin ids[o.side]
      BY <1>8, <3>1
    <3> QED BY <1>6, <2>3, <3>1, <3>2, JoinArrival
  <2> QED BY <1>2, <1>3, <1>7, <2>3, <2>4 DEF Kept
<1> QED BY <1>9, <1>10 DEF InsertArt

\* The order a call on the book names.
LEMMA BookOrder ==
    ASSUME ArtInv, NEW id \in ArtOrders, order[id] # NoArtOrder
    PROVE  /\ order[id] \in Incoming /\ order[id].side \in OrderSide
           /\ \A s \in OrderSide \ {order[id].side} : id \notin art_order_map_[s]
<1>1. order[id] \in Incoming
  BY DEF ArtInv, Orders
<1>2. order[id].side \in OrderSide
  BY <1>1, IncomingFields
<1>3. \A s \in OrderSide : id \in art_order_map_[s] => order[id].side = s
  BY DEF ArtInv, BookHolds, SideHolds
<1> QED BY <1>1, <1>2, <1>3

LEMMA ArtRemoves ==
    ASSUME ArtInv, NEW id \in ArtOrders, RemoveOrder(id)
    PROVE  Kept
<1>1. PICK side : side = order[id].side
  OBVIOUS
<1>2. PICK p : p = order[id].price
  OBVIOUS
<1>3. PICK level : level = RemoveOrderFromPriceLevel(price_levels_[side][p], id, order[id].quantity)
  OBVIOUS
<1>4. PICK O : O = order
  OBVIOUS
<1>5. /\ O \in Orders /\ BookHolds(price_levels_, art_root_, art_order_map_, O)
      /\ side \in OrderSide /\ id \in art_order_map_[side] /\ p = O[id].price
      /\ level = RemoveOrderFromPriceLevel(price_levels_[side][p], id, O[id].quantity)
  <2>1. order[id] # NoArtOrder /\ id \in art_order_map_[side]
    BY <1>1 DEF RemoveOrder
  <2> QED BY <1>1, <1>2, <1>3, <1>4, <2>1, BookOrder DEF ArtInv
<1>6. /\ BookHolds(LevelsLeft(side, p, level), LeavesLeft(side, p, level),
                   [art_order_map_ EXCEPT ![side] = @ \ {id}], O)
      /\ ListsLeft(price_levels_, LevelsLeft(side, p, level), side, p, id)
  BY <1>5, LeaveKeeps
<1>7. /\ price_levels_' = LevelsLeft(side, p, level) /\ art_root_' = LeavesLeft(side, p, level)
      /\ art_order_map_' = [art_order_map_ EXCEPT ![side] = @ \ {id}] /\ order' = O
  BY <1>1, <1>2, <1>3, <1>4 DEF RemoveOrder
<1>8. ArrivalHolds(price_levels_, price_levels_')
  <2>1. PICK levels : levels = price_levels_
    OBVIOUS
  <2>2. PICK ids : ids = art_order_map_
    OBVIOUS
  <2>3. PICK levels2 : levels2 = price_levels_'
    OBVIOUS
  <2>4. BookHolds(levels, art_root_, ids, O) /\ id \in ids[side] /\ ListsLeft(levels, levels2, side, p, id)
    BY <1>5, <1>6, <1>7, <2>1, <2>2, <2>3
  <2>5. ArrivalHolds(levels, levels2)
    BY <1>5, <2>4, LeaveArrival
  <2> QED BY <2>1, <2>3, <2>5
<1> QED BY <1>5, <1>6, <1>7, <1>8 DEF Kept

LEMMA ArtUpdates ==
    ASSUME ArtInv, NEW id \in ArtOrders, NEW to \in ArtPrices, NEW q \in ArtQuantities,
           UpdateOrder(id, to, q)
    PROVE  Kept
<1>1. PICK side : side = order[id].side
  OBVIOUS
<1>2. PICK p : p = order[id].price
  OBVIOUS
<1>3. PICK level : level = RemoveOrderFromPriceLevel(price_levels_[side][p], id, order[id].quantity)
  OBVIOUS
<1>4. PICK O : O = order
  OBVIOUS
<1>5. /\ O \in Orders /\ BookHolds(price_levels_, art_root_, art_order_map_, O)
      /\ side \in OrderSide /\ id \in art_order_map_[side] /\ p = O[id].price
      /\ level = RemoveOrderFromPriceLevel(price_levels_[side][p], id, O[id].quantity)
      /\ O[id] \in Incoming /\ O[id].side = side
      /\ \A s \in OrderSide \ {side} : id \notin art_order_map_[s]
  <2>1. order[id] # NoArtOrder /\ id \in art_order_map_[side]
    BY <1>1 DEF UpdateOrder
  <2> QED BY <1>1, <1>2, <1>3, <1>4, <2>1, BookOrder DEF ArtInv
<1>6. PICK new : new = [order[id] EXCEPT !.price = to, !.quantity = q]
  OBVIOUS
<1>7. new \in Incoming /\ new.price = to /\ new.side = side
  BY <1>4, <1>5, <1>6 DEF Incoming
<1>8. PICK N : N = order'
  OBVIOUS
<1>9. N = [O EXCEPT ![id] = new]
  BY <1>4, <1>6, <1>8 DEF UpdateOrder
<1>10. N \in Orders /\ N[id] = new /\ \A z \in ArtOrders \ {id} : N[z] = O[z]
  BY <1>5, <1>7, <1>9 DEF Orders
<1>11. PICK levels : levels = LevelsLeft(side, p, level)
  OBVIOUS
<1>12. PICK leaves : leaves = LeavesLeft(side, p, level)
  OBVIOUS
<1>13. PICK ids : ids = [art_order_map_ EXCEPT ![side] = @ \ {id}]
  OBVIOUS
<1>14. BookHolds(levels, leaves, ids, O) /\ ListsLeft(price_levels_, levels, side, p, id)
  BY <1>5, <1>11, <1>12, <1>13, LeaveKeeps
<1>15. IF Refused(new)
       THEN price_levels_' = levels /\ art_root_' = leaves /\ art_order_map_' = ids
       ELSE Enter(id, new, levels, leaves)
  BY <1>1, <1>2, <1>3, <1>6, <1>11, <1>12, <1>13 DEF UpdateOrder
<1>16. /\ art_order_map_ = [s \in OrderSide |-> art_order_map_[s]]
       /\ \A s \in OrderSide : art_order_map_[s] \subseteq ArtOrders
  BY <1>5 DEF BookHolds, SideHolds
<1>17. \A s \in OrderSide : id \notin ids[s] /\ ids[s] \subseteq ArtOrders
  BY <1>5, <1>13, <1>16
<1>18. PICK old : old = price_levels_
  OBVIOUS
<1>19. PICK maps : maps = art_order_map_
  OBVIOUS
<1>20. PICK levels2 : levels2 = price_levels_'
  OBVIOUS
<1>21. BookHolds(old, art_root_, maps, O) /\ id \in maps[side] /\ ListsLeft(old, levels, side, p, id)
  BY <1>5, <1>14, <1>18, <1>19
<1>22. CASE Refused(new)
  <2>1. price_levels_' = levels /\ art_root_' = leaves /\ art_order_map_' = ids
    BY <1>15, <1>22
  <2>2. BookHolds(levels, leaves, ids, N)
    <3>1. ASSUME NEW s \in OrderSide PROVE SideHolds(levels[s], leaves[s], ids[s], N, s)
      <4>1. \A z \in ids[s] : N[z] = O[z]
        BY <1>10, <1>17
      <4>2. SideHolds(levels[s], leaves[s], ids[s], O, s)
        BY <1>14 DEF BookHolds
      <4> QED BY <1>5, <1>10, <4>1, <4>2, SideElsewhere
    <3> QED BY <1>14, <3>1 DEF BookHolds
  <2>3. ArrivalHolds(old, levels)
    BY <1>5, <1>21, LeaveArrival
  <2> QED BY <1>8, <1>10, <1>18, <2>1, <2>2, <2>3 DEF Kept
<1>23. CASE ~Refused(new)
  <2>1. Enter(id, new, levels, leaves)
    BY <1>15, <1>23
  <2>2. [art_order_map_ EXCEPT ![new.side] = @ \cup {id}] = [ids EXCEPT ![new.side] = @ \cup {id}]
    BY <1>5, <1>7, <1>13, <1>16
  <2>3. /\ BookHolds(price_levels_', art_root_', art_order_map_', N)
        /\ ListsJoined(levels, price_levels_', new.side, new.price, id)
    BY <1>5, <1>7, <1>10, <1>14, <1>17, <1>23, <2>1, <2>2, EnterKeeps
  <2>4. ListsJoined(levels, levels2, side, to, id)
    BY <1>7, <1>20, <2>3
  <2>5. ArrivalHolds(old, levels2)
    BY <1>5, <1>21, <2>4, ChangeArrival
  <2> QED BY <1>8, <1>10, <1>18, <1>20, <2>3, <2>5 DEF Kept
<1> QED BY <1>22, <1>23

LEMMA ArtQuantityUpdates ==
    ASSUME ArtInv, NEW id \in ArtOrders, NEW q \in ArtQuantities, UpdateArtQuantity(id, q)
    PROVE  Kept
<1>1. PICK side : side = order[id].side
  OBVIOUS
<1>2. PICK O : O = order
  OBVIOUS
<1>3. PICK N : N = order'
  OBVIOUS
<1>4. PICK levels : levels = price_levels_
  OBVIOUS
<1>5. PICK levels2 : levels2 = price_levels_'
  OBVIOUS
<1>6. PICK leaves : leaves = art_root_
  OBVIOUS
<1>7. PICK ids : ids = art_order_map_
  OBVIOUS
<1>8. PICK p : p = O[id].price
  OBVIOUS
<1>9. /\ O \in Orders /\ BookHolds(levels, leaves, ids, O) /\ side \in OrderSide /\ id \in ids[side]
      /\ O[id] \in Incoming
  <2>1. order[id] # NoArtOrder /\ id \in art_order_map_[side]
    BY <1>1 DEF UpdateArtQuantity
  <2> QED BY <1>1, <1>2, <1>4, <1>6, <1>7, <2>1, BookOrder DEF ArtInv
<1>10. N = [O EXCEPT ![id].quantity = q] /\ N \in Orders
  <2>1. N = [O EXCEPT ![id].quantity = q]
    BY <1>2, <1>3 DEF UpdateArtQuantity
  <2>2. [O[id] EXCEPT !.quantity = q] \in Incoming
    BY <1>9 DEF Incoming
  <2>3. N = [O EXCEPT ![id] = [O[id] EXCEPT !.quantity = q]]
    BY <2>1
  <2> QED BY <1>9, <2>1, <2>2, <2>3 DEF Orders
<1>11. levels2 = [levels EXCEPT ![side][p].total_quantity = @ - O[id].quantity + q]
  BY <1>1, <1>2, <1>4, <1>5, <1>8 DEF UpdateArtQuantity
<1>12. art_root_' = leaves /\ art_order_map_' = ids
  BY <1>6, <1>7 DEF UpdateArtQuantity
<1>13. BookHolds(levels2, leaves, ids, N) /\ \A s \in OrderSide : SameLists(levels[s], levels2[s])
  BY <1>8, <1>9, <1>10, <1>11, QuantityKeeps
<1>14. ArrivalHolds(levels, levels2)
  BY <1>9, <1>13, SameArrival
<1> QED BY <1>3, <1>4, <1>5, <1>10, <1>12, <1>13, <1>14 DEF Kept

LEMMA ArtStep ==
    ASSUME ArtInv, ArtNext
    PROVE  ArtInv' /\ ArrivalHolds(price_levels_, price_levels_')
<1>1. PICK id \in ArtOrders :
        \/ \E o \in Incoming : ProcessOrderArt(id, o) \/ ProcessOrderArtSimd(id, o)
        \/ RemoveOrder(id)
        \/ \E p \in ArtPrices, q \in ArtQuantities : UpdateOrder(id, p, q)
        \/ \E q \in ArtQuantities : UpdateArtQuantity(id, q)
  BY DEF ArtNext
<1>2. SUFFICES Kept /\ engine' = engine /\ (orders_' = orders_ \/ (engine = "art" /\ orders_' = orders_ \cup {id}))
  BY DEF Kept, ArtInv
<1>3. ASSUME NEW o \in Incoming, ProcessOrderArt(id, o)
      PROVE  Kept /\ engine' = engine /\ engine = "art" /\ orders_' = orders_ \cup {id}
  <2>1. Kept
    BY <1>3, ArtInserts DEF ProcessOrderArt
  <2> QED BY <1>3, <2>1 DEF ProcessOrderArt
<1>4. ASSUME NEW o \in Incoming, ProcessOrderArtSimd(id, o)
      PROVE  Kept /\ engine' = engine /\ orders_' = orders_
  <2>1. Kept
    BY <1>4, ArtInserts DEF ProcessOrderArtSimd
  <2> QED BY <1>4, <2>1 DEF ProcessOrderArtSimd
<1>5. ASSUME RemoveOrder(id) PROVE Kept /\ engine' = engine /\ orders_' = orders_
  <2>1. Kept
    BY <1>5, ArtRemoves
  <2> QED BY <1>5, <2>1 DEF RemoveOrder
<1>6. ASSUME NEW p \in ArtPrices, NEW q \in ArtQuantities, UpdateOrder(id, p, q)
      PROVE  Kept /\ engine' = engine /\ orders_' = orders_
  <2>1. Kept
    BY <1>6, ArtUpdates
  <2> QED BY <1>6, <2>1 DEF UpdateOrder
<1>7. ASSUME NEW q \in ArtQuantities, UpdateArtQuantity(id, q)
      PROVE  Kept /\ engine' = engine /\ orders_' = orders_
  <2>1. Kept
    BY <1>7, ArtQuantityUpdates
  <2> QED BY <1>7, <2>1 DEF UpdateArtQuantity
<1> QED BY <1>1, <1>3, <1>4, <1>5, <1>6, <1>7

\* ArrivalOrderKept of one step.
ArrivalStep ==
    \A s \in OrderSide : \A p \in LevelPrices(s) :
      p \in DOMAIN price_levels_'[s] =>
        ArrivalKept(price_levels_[s][p].list, price_levels_'[s][p].list)

LEMMA ArrivalStays ==
    ASSUME ArtInv, [ArtNext]_artVars
    PROVE  ArtInv' /\ ArrivalStep
<1>1. CASE ArtNext
  <2>1. ArrivalHolds(price_levels_, price_levels_')
    BY <1>1, ArtStep
  <2>2. ArrivalStep
    BY <2>1 DEF ArrivalHolds, ArrivalStep, ListOf, LevelPrices
  <2> QED BY <1>1, <2>2, ArtStep
<1>2. CASE UNCHANGED artVars
  <2>1. /\ price_levels_' = price_levels_ /\ art_root_' = art_root_ /\ order' = order
        /\ art_order_map_' = art_order_map_ /\ engine' = engine /\ orders_' = orders_
    BY <1>2 DEF artVars, sideVars
  <2>2. ArtInv'
    BY <2>1 DEF ArtInv
  <2>3. ArrivalHolds(price_levels_, price_levels_)
    <3>1. PICK levels : levels = price_levels_
      OBVIOUS
    <3>2. BookHolds(levels, art_root_, art_order_map_, order)
      BY <3>1 DEF ArtInv
    <3>3. \A s \in OrderSide : SameLists(levels[s], levels[s])
      BY DEF SameLists
    <3>4. ArrivalHolds(levels, levels)
      BY <3>2, <3>3, SameArrival
    <3> QED BY <3>1, <3>4
  <2>4. ArrivalStep
    BY <2>1, <2>3 DEF ArrivalHolds, ArrivalStep, ListOf, LevelPrices
  <2> QED BY <2>2, <2>4
<1> QED BY <1>1, <1>2
-----------------------------------------------------------------------------
(* What the invariant says of the book. *)

LEMMA ArtSide ==
    ASSUME ArtInv, NEW s \in OrderSide
    PROVE  /\ SideHolds(price_levels_[s], art_root_[s], art_order_map_[s], order, s)
           /\ order \in Orders /\ LevelPrices(s) = DOMAIN price_levels_[s]
           /\ QuantityOf = QuantityIn(order)
BY DEF ArtInv, BookHolds, LevelPrices, QuantityOf, QuantityIn

LEMMA LeafAddress ==
    ASSUME NEW levels, NEW leaf, NEW M, NEW O, NEW s, SideHolds(levels, leaf, M, O, s)
    PROVE  leaf \in Addresses \cup {0}
<1>1. CASE leaf = 0
  BY <1>1
<1>2. CASE leaf # 0
  <2>1. PICK p \in DOMAIN levels : levels[p].at = leaf
    BY <1>2 DEF SideHolds
  <2>2. levels[p] \in PriceLevel
    BY DEF SideHolds, LevelHolds
  <2> QED BY <2>1, <2>2 DEF PriceLevel
<1> QED BY <1>1, <1>2

LEMMA ArtTypes == ASSUME ArtInv PROVE ArtTypeOK
<1>1. \A id \in ArtOrders : order[id] \in Incoming \cup {NoArtOrder}
  BY DEF ArtInv, Orders
<1>2. ASSUME NEW s \in OrderSide
      PROVE  /\ art_root_[s] \in Addresses \cup {0} /\ art_order_map_[s] \subseteq ArtOrders
             /\ LevelPrices(s) \subseteq ArtPrices \ {0}
  <2>1. SideHolds(price_levels_[s], art_root_[s], art_order_map_[s], order, s)
    BY ArtSide
  <2>2. art_root_[s] \in Addresses \cup {0}
    BY <2>1, LeafAddress
  <2> QED BY <2>1, <2>2 DEF SideHolds, LevelPrices
<1> QED BY <1>1, <1>2 DEF ArtTypeOK, ArtInv

LEMMA ArtLevels == ASSUME ArtInv PROVE LevelsHoldOrders /\ LeafNamesLevel
<1>1. ASSUME NEW s \in OrderSide, NEW p \in LevelPrices(s)
      PROVE  LET level == price_levels_[s][p]
                 here == {id \in art_order_map_[s] : order[id].price = p}
             IN /\ here # {} /\ Listed(level.list) = here
                /\ Len(level.list) = Cardinality(here)
                /\ level.total_quantity = SumFunctionOnSet(QuantityOf, here)
  <2>1. PICK level : level = price_levels_[s][p]
    OBVIOUS
  <2>2. PICK here : here = {id \in art_order_map_[s] : order[id].price = p}
    OBVIOUS
  <2>3. LevelHolds(level, here, order)
    <3>1. LevelHolds(price_levels_[s][p], PricedAt(order, art_order_map_[s], p), order)
      BY ArtSide DEF SideHolds
    <3> QED BY <2>1, <2>2, <3>1 DEF PricedAt
  <2>4. Once(level.list, here) /\ here # {}
        /\ level.total_quantity = SumFunctionOnSet(QuantityOf, here)
    BY <2>3, ArtSide DEF LevelHolds
  <2>5. Listed(level.list) = here /\ Len(level.list) = Cardinality(here)
    BY <2>4, OnceListed DEF Once
  <2> QED BY <2>1, <2>2, <2>4, <2>5
<1>2. ASSUME NEW s \in OrderSide
      PROVE  \A id \in art_order_map_[s] : order[id].side = s /\ order[id].price \in LevelPrices(s)
  BY ArtSide DEF SideHolds
<1>3. ASSUME NEW s \in OrderSide
      PROVE  TreeEmpty(s) \/ \E p \in LevelPrices(s) : price_levels_[s][p].at = art_root_[s]
  BY ArtSide DEF SideHolds, TreeEmpty
<1> QED BY <1>1, <1>2, <1>3 DEF LevelsHoldOrders, LeafNamesLevel

LEMMA NoMaker == ASSUME ArtInv PROVE NoMakerFound
<1>1. ASSUME NEW s \in OrderSide PROVE BestPrice(s) = 0 \/ ~BestLevelExists(s)
  <2>1. BestPrice(s) = art_root_[s]
    BY DEF BestPrice, TreeEmpty, MaxKey, MinKey
  <2>2. art_root_[s] \in Addresses \cup {0} /\ LevelPrices(s) \subseteq ArtPrices
    BY ArtTypes DEF ArtTypeOK
  <2> QED BY <2>1, <2>2, ArtAssumption DEF BestLevelExists
<1>2. \A s \in OrderSide : Opposite(s) \in OrderSide
  BY DEF OrderSide, Opposite
<1> QED BY <1>1, <1>2 DEF NoMakerFound, Meets, MeetsSimd
-----------------------------------------------------------------------------
(* get_depth.  A finite set of numbers stands in descending order, and in ascending order. *)

Descends(ps, n) == \A i, j \in 1 .. n : i < j => ps[i] > ps[j]
Ascends(ps, n) == \A i, j \in 1 .. n : i < j => ps[i] < ps[j]

LEMMA InDescendingOrder ==
    ASSUME NEW S, IsFiniteSet(S)
    PROVE  S \subseteq Nat =>
             \E ps \in [1 .. Cardinality(S) -> S] : Descends(ps, Cardinality(S))
<1> DEFINE Bad == {T \in SUBSET S :
                     /\ T \subseteq Nat
                     /\ ~\E ps \in [1 .. Cardinality(T) -> T] : Descends(ps, Cardinality(T))}
<1> SUFFICES ASSUME Bad # {} PROVE FALSE
  OBVIOUS
<1>0. Bad \in SUBSET (SUBSET S)
  OBVIOUS
<1>1. PICK T \in Bad : \A u \in Bad : u \subseteq T => u = T
  <2> HIDE DEF Bad
  <2> QED BY <1>0, MinimalSubset
<1>2. T \in SUBSET S /\ IsFiniteSet(T) /\ Cardinality(T) \in Nat
  BY <1>1, FS_Subset, FS_CardinalityType
<1>3. T # {}
  <2> SUFFICES ASSUME T = {} PROVE FALSE
    OBVIOUS
  <2>1. Cardinality(T) = 0
    BY FS_EmptySet
  <2>2. PICK ps : ps = [i \in 1 .. Cardinality(T) |-> 0]
    OBVIOUS
  <2>3. 1 .. Cardinality(T) = {}
    BY <2>1
  <2>4. ps \in [1 .. Cardinality(T) -> T]
    BY <2>2, <2>3
  <2>5. Descends(ps, Cardinality(T))
    BY <2>3 DEF Descends
  <2> QED BY <1>1, <2>4, <2>5
<1>4. PICK m \in T : \A k \in T : m <= k
  <2>1. T \subseteq Nat
    BY <1>1
  <2> QED BY <1>3, <2>1, LeastNumber
<1>5. PICK U : U = T \ {m}
  OBVIOUS
<1>6. U \in SUBSET S /\ U # T /\ U \subseteq T /\ U \subseteq Nat /\ IsFiniteSet(U)
  BY <1>1, <1>2, <1>4, <1>5, FS_Subset
<1>7. PICK n \in Nat : n = Cardinality(U)
  BY <1>6, FS_CardinalityType
<1>8. Cardinality(T) = n + 1
  <2>1. Cardinality(U) = Cardinality(T) - 1
    BY <1>2, <1>4, <1>5, FS_RemoveElement
  <2> QED BY <1>2, <1>7, <2>1
<1>9. PICK ps \in [1 .. n -> U] : Descends(ps, n)
  <2>1. U \notin Bad
    BY <1>1, <1>6
  <2> QED BY <1>6, <1>7, <2>1
<1>10. PICK ns : ns = [i \in 1 .. n + 1 |-> IF i = n + 1 THEN m ELSE ps[i]]
  OBVIOUS
<1>11. \A i \in 1 .. n + 1 : i = n + 1 \/ i \in 1 .. n
  OBVIOUS
<1>12. ns \in [1 .. n + 1 -> T]
  <2>1. \A i \in 1 .. n : ps[i] \in T
    BY <1>6
  <2> QED BY <1>4, <1>10, <1>11, <2>1
<1>13. ASSUME NEW i \in 1 .. n + 1, NEW j \in 1 .. n + 1, i < j PROVE ns[i] > ns[j]
  <2>1. i \in 1 .. n /\ i # n + 1
    BY <1>13
  <2>2. ns[i] = ps[i] /\ ps[i] \in U
    BY <1>10, <2>1
  <2>3. CASE j = n + 1
    <3>1. ns[j] = m
      BY <1>10, <2>3
    <3>2. ps[i] \in T /\ ps[i] # m
      BY <1>5, <2>2
    <3>3. ps[i] \in Nat /\ m \in Nat /\ m <= ps[i]
      BY <1>1, <1>4, <3>2
    <3> QED BY <2>2, <3>1, <3>2, <3>3
  <2>4. CASE j # n + 1
    <3>1. j \in 1 .. n
      BY <2>4
    <3>2. ns[j] = ps[j]
      BY <1>10, <2>4
    <3>3. ps[i] > ps[j]
      BY <1>9, <1>13, <2>1, <3>1 DEF Descends
    <3> QED BY <2>2, <3>2, <3>3
  <2> QED BY <2>3, <2>4
<1>14. Descends(ns, n + 1)
  BY <1>13 DEF Descends
<1>15. T \notin Bad
  BY <1>8, <1>12, <1>14
<1> QED BY <1>1, <1>15

LEMMA InAscendingOrder ==
    ASSUME NEW S, IsFiniteSet(S), S \subseteq Nat
    PROVE  \E ps \in [1 .. Cardinality(S) -> S] : Ascends(ps, Cardinality(S))
<1>1. PICK n \in Nat : n = Cardinality(S)
  BY FS_CardinalityType
<1>2. PICK ps \in [1 .. n -> S] : Descends(ps, n)
  BY <1>1, InDescendingOrder
<1>3. PICK r : r = [i \in 1 .. n |-> ps[n + 1 - i]]
  OBVIOUS
<1>4. \A i \in 1 .. n : n + 1 - i \in 1 .. n
  OBVIOUS
<1>5. r \in [1 .. n -> S]
  BY <1>2, <1>3, <1>4
<1>6. ASSUME NEW i \in 1 .. n, NEW j \in 1 .. n, i < j PROVE r[i] < r[j]
  <2>1. PICK a \in 1 .. n : a = n + 1 - i
    BY <1>4
  <2>2. PICK b \in 1 .. n : b = n + 1 - j
    BY <1>4
  <2>3. b < a
    BY <1>6, <2>1, <2>2
  <2>4. ps[b] > ps[a]
    BY <1>2, <2>3 DEF Descends
  <2>5. r[i] = ps[a] /\ r[j] = ps[b] /\ ps[a] \in Nat /\ ps[b] \in Nat
    BY <1>2, <1>3, <2>1, <2>2
  <2> QED BY <2>4, <2>5
<1>7. Ascends(r, n)
  BY <1>6 DEF Ascends
<1> QED BY <1>1, <1>5, <1>7

Better(s, a, b) == IF s = "BUY" THEN a > b ELSE a < b

\* PricesInOrder of a side names every price of a level once, the best first.
LEMMA PricesOrdered ==
    ASSUME ArtInv, NEW s \in OrderSide, NEW count, count = Cardinality(LevelPrices(s))
    PROVE  /\ count \in Nat /\ Cardinality(ArtOrders) \in Nat /\ count <= Cardinality(ArtOrders)
           /\ PricesInOrder(s) \in [1 .. count -> LevelPrices(s)]
           /\ \A i, j \in 1 .. count :
                i < j => Better(s, PricesInOrder(s)[i], PricesInOrder(s)[j])
           /\ \A p \in LevelPrices(s) : \E i \in 1 .. count : PricesInOrder(s)[i] = p
<1>1. PICK S : S = LevelPrices(s)
  OBVIOUS
<1>2. PICK M : M = art_order_map_[s]
  OBVIOUS
<1>3. M \in SUBSET ArtOrders /\ IsFiniteSet(M) /\ IsFiniteSet(ArtOrders)
      /\ Cardinality(M) <= Cardinality(ArtOrders)
      /\ Cardinality(ArtOrders) \in Nat /\ Cardinality(M) \in Nat
  <2>1. M \in SUBSET ArtOrders
    BY <1>2, ArtSide DEF SideHolds
  <2> QED BY <2>1, ArtAssumption, FS_Subset, FS_CardinalityType
<1>4. PICK f : f = [id \in M |-> order[id].price]
  OBVIOUS
<1>5. f \in Surjection(M, S)
  <2>1. \A id \in M : order[id].price \in S
    BY <1>1, <1>2, ArtSide DEF SideHolds
  <2>2. ASSUME NEW p \in S PROVE \E id \in M : f[id] = p
    <3>1. PricedAt(order, M, p) # {}
      BY <1>1, <1>2, ArtSide DEF SideHolds, LevelHolds
    <3> QED BY <1>4, <3>1 DEF PricedAt
  <2> QED BY <1>4, <2>1, <2>2 DEF Surjection
<1>6. IsFiniteSet(S) /\ Cardinality(S) <= Cardinality(M)
  BY <1>3, <1>5, FS_Surjection
<1>7. count \in Nat /\ count = Cardinality(S) /\ count <= Cardinality(ArtOrders)
  <2>1. Cardinality(S) \in Nat
    BY <1>6, FS_CardinalityType
  <2> QED BY <1>1, <1>3, <1>6, <2>1
<1>8. S \subseteq Nat
  BY <1>1, ArtTypes, ArtAssumption DEF ArtTypeOK
<1>9. \E ps \in [1 .. count -> S] : \A i, j \in DOMAIN ps : i < j => Better(s, ps[i], ps[j])
  <2>1. CASE s = "BUY"
    <3>1. PICK ps \in [1 .. count -> S] : Descends(ps, count)
      BY <1>6, <1>7, <1>8, InDescendingOrder
    <3> QED BY <2>1, <3>1 DEF Descends, Better
  <2>2. CASE s # "BUY"
    <3>1. PICK ps \in [1 .. count -> S] : Ascends(ps, count)
      BY <1>6, <1>7, <1>8, InAscendingOrder
    <3> QED BY <2>2, <3>1 DEF Ascends, Better
  <2> QED BY <2>1, <2>2
<1>10. PICK ps : ps = PricesInOrder(s)
  OBVIOUS
<1>11. ps = CHOOSE q \in [1 .. count -> S] :
                     \A i, j \in DOMAIN q : i < j => Better(s, q[i], q[j])
  BY <1>1, <1>10 DEF PricesInOrder, Better
<1>12. ps \in [1 .. count -> S] /\ \A i, j \in DOMAIN ps : i < j => Better(s, ps[i], ps[j])
  BY <1>9, <1>11
<1>13. \A i, j \in 1 .. count : i < j => Better(s, ps[i], ps[j])
  BY <1>12
<1>14. ps \in Injection(1 .. count, S)
  <2>1. ASSUME NEW i \in 1 .. count, NEW j \in 1 .. count, ps[i] = ps[j] PROVE i = j
    <3>1. ps[i] \in Nat
      BY <1>8, <1>12
    <3>2. ~(i < j) /\ ~(j < i)
      BY <1>13, <2>1, <3>1 DEF Better
    <3> QED BY <3>2
  <2> QED BY <1>12, <2>1 DEF Injection, IsInjective
<1>15. ps \in Surjection(1 .. count, S)
  <2>1. Cardinality(1 .. count) = count
    <3>1. 1 \in Int /\ count \in Int
      BY <1>7
    <3>2. Cardinality(1 .. count) = IF 1 > count THEN 0 ELSE count - 1 + 1
      BY <3>1, FS_Interval, Zenon
    <3> QED BY <1>7, <3>2
  <2> QED BY <1>6, <1>7, <1>14, <2>1, FS_Injection
<1>16. \A p \in S : \E i \in 1 .. count : ps[i] = p
  BY <1>15 DEF Surjection
<1> QED BY <1>1, <1>3, <1>7, <1>10, <1>12, <1>13, <1>16

LEMMA DepthShape ==
    ASSUME ArtInv, NEW s \in OrderSide, NEW count, count = Cardinality(LevelPrices(s)), NEW n \in Nat
    PROVE  /\ n < count => Depth(s, n) = [i \in 1 .. n |-> price_levels_[s][PricesInOrder(s)[i]]]
           /\ n >= count => Depth(s, n) = [i \in 1 .. count |-> price_levels_[s][PricesInOrder(s)[i]]]
<1>1. count \in Nat
  BY PricesOrdered
<1>2. Depth(s, n) = [i \in 1 .. IF n < count THEN n ELSE count |->
                       price_levels_[s][PricesInOrder(s)[i]]]
  BY DEF Depth
<1>3. ASSUME n < count PROVE (IF n < count THEN n ELSE count) = n
  BY <1>3
<1>4. ASSUME n >= count PROVE (IF n < count THEN n ELSE count) = count
  BY <1>1, <1>4
<1> QED BY <1>2, <1>3, <1>4

LEMMA ArtDepth == ASSUME ArtInv PROVE DepthIsBook
<1> SUFFICES ASSUME NEW s \in OrderSide
    PROVE  LET all == Depth(s, Cardinality(ArtOrders))
               totals == [i \in DOMAIN all |-> all[i].total_quantity]
           IN /\ SumFunctionOnSet(totals, DOMAIN all)
                   = SumFunctionOnSet(QuantityOf, art_order_map_[s])
              /\ \A id \in art_order_map_[s] : \E i \in DOMAIN all : id \in Listed(all[i].list)
              /\ \A i, j \in DOMAIN all : i < j =>
                   \A a \in Listed(all[i].list), b \in Listed(all[j].list) :
                     IF s = "BUY" THEN order[a].price > order[b].price
                     ELSE order[a].price < order[b].price
              /\ \A n \in 0 .. Len(all) : Depth(s, n) = SubSeq(all, 1, n)
  BY DEF DepthIsBook
<1>1. PICK all : all = Depth(s, Cardinality(ArtOrders))
  OBVIOUS
<1>2. PICK totals : totals = [i \in DOMAIN all |-> all[i].total_quantity]
  OBVIOUS
<1>3. PICK count : count = Cardinality(LevelPrices(s))
  OBVIOUS
<1>4. PICK ps : ps = PricesInOrder(s)
  OBVIOUS
<1>5. PICK S : S = LevelPrices(s)
  OBVIOUS
<1>6. PICK levels : levels = price_levels_[s]
  OBVIOUS
<1>7. PICK M : M = art_order_map_[s]
  OBVIOUS
<1>8. /\ count \in Nat /\ Cardinality(ArtOrders) \in Nat /\ count <= Cardinality(ArtOrders)
      /\ ps \in [1 .. count -> S]
      /\ \A i, j \in 1 .. count : i < j => Better(s, ps[i], ps[j])
      /\ \A p \in S : \E i \in 1 .. count : ps[i] = p
  BY <1>3, <1>4, <1>5, PricesOrdered
<1>9. /\ SideHolds(levels, art_root_[s], M, order, s) /\ S = DOMAIN levels
      /\ QuantityOf = QuantityIn(order) /\ order \in Orders
  BY <1>5, <1>6, <1>7, ArtSide
<1>10. all = [i \in 1 .. count |-> levels[ps[i]]]
  <2>1. Cardinality(ArtOrders) >= count
    BY <1>8
  <2>2. Depth(s, Cardinality(ArtOrders))
          = [i \in 1 .. count |-> price_levels_[s][PricesInOrder(s)[i]]]
    BY <1>3, <1>8, <2>1, DepthShape
  <2> QED BY <1>1, <1>4, <1>6, <2>2
<1>11. DOMAIN all = 1 .. count /\ \A i \in 1 .. count : all[i] = levels[ps[i]]
  BY <1>10
<1>12. PICK A : A = [i \in 1 .. count |-> PricedAt(order, M, ps[i])]
  OBVIOUS
<1>13. ASSUME NEW i \in 1 .. count
       PROVE  /\ A[i] = PricedAt(order, M, ps[i]) /\ A[i] \in SUBSET M
              /\ LevelHolds(all[i], A[i], order) /\ Listed(all[i].list) = A[i]
              /\ all[i] \in PriceLevel /\ \A id \in A[i] : order[id].price = ps[i]
  <2>1. A[i] = PricedAt(order, M, ps[i]) /\ ps[i] \in S
    BY <1>8, <1>12
  <2>2. LevelHolds(all[i], A[i], order)
    BY <1>9, <1>11, <2>1 DEF SideHolds
  <2>3. Once(all[i].list, A[i]) /\ all[i] \in PriceLevel
    BY <2>2 DEF LevelHolds
  <2>4. Listed(all[i].list) = A[i]
    BY <2>3, OnceListed
  <2>5. A[i] \in SUBSET M /\ \A id \in A[i] : order[id].price = ps[i]
    BY <2>1 DEF PricedAt
  <2> QED BY <2>1, <2>2, <2>3, <2>4, <2>5
<1>14. SumFunctionOnSet(totals, DOMAIN all) = SumFunctionOnSet(QuantityOf, M)
  <2>1. M \subseteq ArtOrders /\ IsFiniteSet(M)
    BY <1>9, ArtAssumption, FS_Subset DEF SideHolds
  <2>2. \A z \in M : QuantityIn(order)[z] \in Int
    BY <1>9, <2>1, QuantityTypes
  <2>3. PICK D : D = 1 .. count
    OBVIOUS
  <2>4. IsFiniteSet(D)
    <3>1. 1 \in Int /\ count \in Int
      BY <1>8
    <3>2. IsFiniteSet(1 .. count)
      BY <3>1, FS_Interval, Zenon
    <3> QED BY <2>3, <3>2
  <2>5. \A i \in D : A[i] \in SUBSET M
    BY <1>13, <2>3
  <2>6. ASSUME NEW i \in D, NEW j \in D, i # j PROVE A[i] \cap A[j] = {}
    <3>1. ps[i] # ps[j]
      <4>1. i < j \/ j < i
        BY <2>3, <2>6
      <4>2. ps[i] \in Nat /\ ps[j] \in Nat
        BY <1>5, <1>8, <2>3, ArtTypes, ArtAssumption DEF ArtTypeOK
      <4>3. Better(s, ps[i], ps[j]) \/ Better(s, ps[j], ps[i])
        BY <1>8, <2>3, <4>1
      <4> QED BY <4>2, <4>3 DEF Better
    <3> QED BY <1>13, <2>3, <3>1
  <2>7. \A i \in D : totals[i] = SumFunctionOnSet(QuantityIn(order), A[i])
    BY <1>2, <1>11, <1>13, <2>3 DEF LevelHolds
  <2>8. UNION {A[i] : i \in D} = M
    <3>1. ASSUME NEW id \in M PROVE \E i \in D : id \in A[i]
      <4>1. order[id].price \in S
        BY <1>9 DEF SideHolds
      <4>2. PICK i \in D : ps[i] = order[id].price
        BY <1>8, <2>3, <4>1
      <4> QED BY <1>12, <2>3, <4>2 DEF PricedAt
    <3> QED BY <2>5, <3>1
  <2>9. SumFunctionOnSet(totals, D)
          = SumFunctionOnSet(QuantityIn(order), UNION {A[i] : i \in D})
    <3>1. PICK f : f = QuantityIn(order)
      OBVIOUS
    <3>2. (\A z \in M : f[z] \in Int) /\ \A i \in D : totals[i] = SumFunctionOnSet(f, A[i])
      BY <2>2, <2>7, <3>1
    <3>3. \A i, j \in D : i # j => A[i] \cap A[j] = {}
      BY <2>6
    <3>4. SumFunctionOnSet(totals, D) = SumFunctionOnSet(f, UNION {A[i] : i \in D})
      BY <2>1, <2>4, <2>5, <3>2, <3>3, SumParts
    <3> QED BY <3>1, <3>4
  <2> QED BY <1>9, <1>11, <2>3, <2>8, <2>9
<1>15. ASSUME NEW id \in M PROVE \E i \in DOMAIN all : id \in Listed(all[i].list)
  <2>1. order[id].price \in S
    BY <1>9 DEF SideHolds
  <2>2. PICK i \in 1 .. count : ps[i] = order[id].price
    BY <1>8, <2>1
  <2>3. id \in A[i]
    BY <1>12, <2>2 DEF PricedAt
  <2> QED BY <1>11, <1>13, <2>3
<1>16. ASSUME NEW i \in DOMAIN all, NEW j \in DOMAIN all, i < j,
              NEW a \in Listed(all[i].list), NEW b \in Listed(all[j].list)
       PROVE  IF s = "BUY" THEN order[a].price > order[b].price
              ELSE order[a].price < order[b].price
  <2>1. i \in 1 .. count /\ j \in 1 .. count
    BY <1>11
  <2>2. order[a].price = ps[i] /\ order[b].price = ps[j]
    BY <1>13, <2>1
  <2>3. Better(s, ps[i], ps[j])
    BY <1>8, <1>16, <2>1
  <2> QED BY <2>2, <2>3 DEF Better
<1>17. Len(all) = count /\ all \in Seq(PriceLevel)
  <2>1. all \in [1 .. count -> PriceLevel]
    BY <1>10, <1>11, <1>13
  <2> QED BY <1>8, <2>1
<1>18. ASSUME NEW n \in 0 .. Len(all) PROVE Depth(s, n) = SubSeq(all, 1, n)
  <2>1. n \in Nat /\ n <= count /\ n \in Int /\ 1 \in Int
    BY <1>8, <1>17
  <2>2. PICK d : d = Depth(s, n)
    OBVIOUS
  <2>3. d = [i \in 1 .. n |-> levels[ps[i]]]
    <3>1. CASE n < count
      <4>1. Depth(s, n) = [i \in 1 .. n |-> price_levels_[s][PricesInOrder(s)[i]]]
        BY <1>3, <2>1, <3>1, DepthShape
      <4> QED BY <1>4, <1>6, <2>2, <4>1
    <3>2. CASE n = count
      <4>1. n >= count
        BY <2>1, <3>2
      <4>2. Depth(s, n) = [i \in 1 .. count |-> price_levels_[s][PricesInOrder(s)[i]]]
        BY <1>3, <2>1, <4>1, DepthShape
      <4> QED BY <1>4, <1>6, <2>2, <3>2, <4>2
    <3> QED BY <1>8, <2>1, <3>1, <3>2
  <2>4. PICK t : t = SubSeq(all, 1, n)
    OBVIOUS
  <2>5. \A i \in 1 .. n : i \in 1 .. count /\ all[i] \in PriceLevel
    BY <1>8, <1>13, <2>1
  <2>6. /\ SubSeq(all, 1, n) \in Seq(PriceLevel)
        /\ Len(SubSeq(all, 1, n)) = IF 1 <= n THEN n - 1 + 1 ELSE 0
        /\ \A i \in 1 .. n - 1 + 1 : SubSeq(all, 1, n)[i] = all[1 + i - 1]
    BY <2>1, <2>5, SubSeqProperties
  <2>7. t \in Seq(PriceLevel) /\ Len(t) = n /\ \A i \in 1 .. n : t[i] = all[i]
    <3>1. n - 1 + 1 = n /\ (IF 1 <= n THEN n - 1 + 1 ELSE 0) = n
      BY <2>1
    <3>2. \A i \in 1 .. n : 1 + i - 1 = i
      BY <2>1
    <3> QED BY <2>4, <2>6, <3>1, <3>2
  <2>8. t \in [1 .. n -> PriceLevel]
    BY <2>7
  <2>9. \A i \in 1 .. n : t[i] = d[i]
    BY <1>11, <2>3, <2>5, <2>7
  <2>10. d = t
    BY <2>3, <2>8, <2>9
  <2> QED BY <2>2, <2>4, <2>10
<1> QED BY <1>1, <1>2, <1>7, <1>14, <1>15, <1>16, <1>18
-----------------------------------------------------------------------------
\* The invariant of the ART books holds of every reachable state.
LEMMA ArtInvHolds == ArtSpec => []ArtInv
<1>1. ArtInit => ArtInv
  BY ArtStart
<1>2. ArtInv /\ [ArtNext]_artVars => ArtInv'
  BY ArrivalStays
<1> QED BY <1>1, <1>2, PTL DEF ArtSpec

\* ArtSound of the ART books, with either engine, any number of orders and any prices:
\* over any sequence of orders, changes and removals the levels hold the orders of the
\* book in the order of their arrival, the leaf of the tree names a level that exists,
\* get_depth publishes the whole book, best price first, and the engine finds no maker.
THEOREM ArtKept == ArtSpec => ArtSound
<1>1. ArtInv => ArtTypeOK /\ LevelsHoldOrders /\ LeafNamesLevel /\ DepthIsBook /\ NoMakerFound
  BY ArtTypes, ArtLevels, ArtDepth, NoMaker
<1>2. ArtInv /\ [ArtNext]_artVars => [ArrivalStep]_artVars
  BY ArrivalStays
<1>3. ArtSpec => [][ArrivalStep]_artVars
  BY <1>2, ArtInvHolds, PTL DEF ArtSpec
<1>4. ([][ArrivalStep]_artVars) => ArrivalOrderKept
  <2>1. ArrivalStep =>
          (\A s \in OrderSide : \A p \in LevelPrices(s) :
             p \in DOMAIN price_levels_'[s] =>
               LET old == price_levels_[s][p].list
                   new == price_levels_'[s][p].list
               IN \A a \in Listed(old) \cap Listed(new), b \in Listed(new) :
                    \/ a = b
                    \/ StandsBefore(new, a, b)
                    \/ b \in Listed(old) /\ (StandsBefore(old, b, a) \/ new[Len(new)] = a))
    BY DEF ArrivalStep, ArrivalKept
  <2> QED BY <2>1, PTL DEF ArrivalOrderKept
<1>5. ArtSpec => [](ArtTypeOK /\ LevelsHoldOrders /\ LeafNamesLevel /\ DepthIsBook /\ NoMakerFound)
  BY <1>1, ArtInvHolds, PTL
<1> QED BY <1>3, <1>4, <1>5 DEF ArtSound
=============================================================================
