---------------------------- MODULE OrderBookTree ----------------------------
(***************************************************************************)
(* OrderBookSide (src/core/orderbook.cpp): the red-black tree, the map of  *)
(* orders and the price levels behind one side of the book, pointer by     *)
(* pointer.  Each loop of the code (the descent to a leaf, find_min, the   *)
(* two repairs) takes one step per turn, all under the side's mutex.       *)
(*                                                                         *)
(* An order is its node.  Number n stands for any Order object with the    *)
(* n-th price; orders of one price are numbered in the order of their      *)
(* timestamps.                                                             *)
(***************************************************************************)
EXTENDS Orders, FiniteSets, Functions

CONSTANTS
    PriceOf,         \* the price of each order number, a sequence
    IsBuy,           \* is_buy_
    Quantities,      \* the quantities orders come with
    MaxResting       \* bound: orders in the side at once

Nodes == 1 .. Len(PriceOf)
Null == 0                       \* nullptr
Nil == Len(PriceOf) + 1         \* sentinel_
Links == Nodes \cup {Null, Nil}
PriceLevels == {PriceOf[n] : n \in Nodes}

ASSUME TreeAssumption ==
    /\ PriceOf \in Seq(Nat \ {0})
    /\ IsBuy \in BOOLEAN
    /\ Quantities \subseteq Nat \ {0}
    /\ MaxResting \in Nat

VARIABLES
    root_, left, right, parent, color,   \* color: 0 black, 1 red
    order_map_,                          \* the orders find_order finds
    queue,                               \* price -> the level's linked list
    total,                               \* price -> the level's total_quantity
    remaining,                           \* the remaining_quantity of each order
    pc, node, x, y,                      \* the running call and its locals
    lame                                 \* history: fix_delete has taken the
                                         \* sentinel for a sibling

treeVars == <<root_, left, right, parent, color>>
levelVars == <<queue, total, remaining>>
vars == <<treeVars, order_map_, levelVars, pc, node, x, y, lame>>

Init ==
    /\ root_ = Nil
    /\ left = [n \in Nodes \cup {Nil} |-> Nil]
    /\ right = left
    /\ parent = left
    /\ color = [n \in Nodes \cup {Nil} |-> 0]
    /\ order_map_ = {}
    /\ queue = [p \in PriceLevels |-> <<>>]
    /\ total = [p \in PriceLevels |-> 0]
    /\ remaining = [n \in Nodes |-> 0]
    /\ pc = "idle" /\ node = Null /\ x = Null /\ y = Null
    /\ lame = FALSE

\* price_better, then the timestamp.
LeftOf(a, b) ==
    \/ IF IsBuy THEN PriceOf[a] > PriceOf[b] ELSE PriceOf[a] < PriceOf[b]
    \/ PriceOf[a] = PriceOf[b] /\ a < b
-----------------------------------------------------------------------------
(* Price levels: the linked list and the total of one price.               *)
(* A definition named ...Slip is its neighbour with one plausible mistake; *)
(* no specification uses it, mutation runs do.                             *)

LevelAdd(n) ==
    /\ queue' = [queue EXCEPT ![PriceOf[n]] = Append(@, n)]
    /\ total' = [total EXCEPT ![PriceOf[n]] = @ + remaining[n]]

\* The total is clamped at zero.
LevelRemoveSlip(n) ==
    /\ queue' = [queue EXCEPT ![PriceOf[n]] = Tail(@)]
    /\ total' = [total EXCEPT ![PriceOf[n]] =
                   IF @ < remaining[n] THEN 0 ELSE @ - remaining[n]]
LevelRemove(n) ==
    /\ queue' = [queue EXCEPT ![PriceOf[n]] = Without(@, n)]
    /\ total' = [total EXCEPT ![PriceOf[n]] =
                   IF @ < remaining[n] THEN 0 ELSE @ - remaining[n]]
-----------------------------------------------------------------------------
(* Rotations, on the tree as one value.                                    *)

Tree == [root |-> root_, l |-> left, r |-> right, p |-> parent, c |-> color]

Becomes(t) == /\ root_' = t.root /\ left' = t.l /\ right' = t.r
              /\ parent' = t.p /\ color' = t.c

Paint(t, n, c) == [t EXCEPT !.c[n] = c]

\* Whatever pointed at node a from above points at b.
ReplaceSlip(t, a, b) ==
    CASE t.p[a] # Null /\ a = t.r[t.p[a]] -> [t EXCEPT !.r[t.p[a]] = b]
      [] t.p[a] # Null /\ a = t.l[t.p[a]] -> [t EXCEPT !.l[t.p[a]] = b]
      [] OTHER -> t
Replace(t, a, b) ==
    CASE t.p[a] = Null -> [t EXCEPT !.root = b]
      [] t.p[a] # Null /\ a = t.l[t.p[a]] -> [t EXCEPT !.l[t.p[a]] = b]
      [] OTHER -> [t EXCEPT !.r[t.p[a]] = b]

\* A child pointer's back link; the sentinel has none.
AdoptSlip(t, n, p) == t
Adopt(t, n, p) == IF n = Nil THEN t ELSE [t EXCEPT !.p[n] = p]

RotateLeft(t, n) ==
    LET m == t.r[n]
        t1 == Adopt([t EXCEPT !.r[n] = t.l[m]], t.l[m], n)
        t2 == Replace([t1 EXCEPT !.p[m] = t.p[n]], n, m)
    IN  [t2 EXCEPT !.l[m] = n, !.p[n] = m]

RotateRight(t, n) ==
    LET m == t.l[n]
        t1 == Adopt([t EXCEPT !.l[n] = t.r[m]], t.r[m], n)
        t2 == Replace([t1 EXCEPT !.p[m] = t.p[n]], n, m)
    IN  [t2 EXCEPT !.r[m] = n, !.p[n] = m]

\* The two mirror images of each repair: `near` is the side of the child.
Child(t, n, near) == IF near = "left" THEN t.l[n] ELSE t.r[n]
Far(near) == IF near = "left" THEN "right" ELSE "left"
Rotate(t, n, near) == IF near = "left" THEN RotateLeft(t, n) ELSE RotateRight(t, n)
SideOf(t, n) == IF n = t.l[t.p[n]] THEN "left" ELSE "right"
-----------------------------------------------------------------------------
(* insert *)

\* The caller hands over an order; equal prices arrive in time order.
Insert(n) ==
    /\ pc = "idle"
    /\ n \notin order_map_ /\ Cardinality(order_map_) < MaxResting
    /\ \A m \in order_map_ : PriceOf[m] = PriceOf[n] => m < n
    /\ \E q \in Quantities : remaining' = [remaining EXCEPT ![n] = q]
    /\ Becomes([Tree EXCEPT !.l[n] = Nil, !.r[n] = Nil, !.p[n] = Null, !.c[n] = 1])
    /\ pc' = "descend" /\ node' = n /\ x' = root_ /\ y' = Null
    /\ UNCHANGED <<order_map_, queue, total, lame>>

Descend ==
    /\ pc = "descend" /\ x # Nil
    /\ y' = x
    /\ x' = IF LeftOf(node, x) THEN left[x] ELSE right[x]
    /\ UNCHANGED <<treeVars, order_map_, levelVars, pc, node, lame>>

\* The new leaf is linked, and its order joins its price level at the end.
Link ==
    /\ pc = "descend" /\ x = Nil
    /\ LET t == [Tree EXCEPT !.p[node] = y]
       IN  Becomes(CASE y = Null -> [t EXCEPT !.root = node]
                     [] y # Null /\ LeftOf(node, y) -> [t EXCEPT !.l[y] = node]
                     [] OTHER -> [t EXCEPT !.r[y] = node])
    /\ LevelAdd(node)
    /\ pc' = "fix_insert" /\ x' = node
    /\ UNCHANGED <<order_map_, remaining, node, y, lame>>

RedParent(t, z) == t.p[z] # Null /\ t.c[t.p[z]] = 1

\* One turn of fix_insert's loop, x being its z.
FixInsert ==
    /\ pc = "fix_insert" /\ RedParent(Tree, x)
    /\ LET near == SideOf(Tree, parent[x])
           grand == parent[parent[x]]
           uncle == Child(Tree, grand, Far(near))
           z == IF x = Child(Tree, parent[x], Far(near)) THEN parent[x] ELSE x
           t1 == IF z = x THEN Tree ELSE Rotate(Tree, z, near)
           t2 == Paint(Paint(t1, t1.p[z], 0), t1.p[t1.p[z]], 1)
       IN  \/ /\ uncle # Nil /\ color[uncle] = 1
              /\ Becomes(Paint(Paint(Paint(Tree, parent[x], 0), uncle, 0), grand, 1))
              /\ x' = grand
           \/ /\ uncle = Nil \/ color[uncle] = 0
              /\ Becomes(Rotate(t2, t2.p[t2.p[z]], Far(near)))
              /\ x' = z
    /\ UNCHANGED <<order_map_, levelVars, pc, node, y, lame>>

InsertDone ==
    /\ pc = "fix_insert" /\ ~RedParent(Tree, x)
    /\ color' = [color EXCEPT ![root_] = 0]
    /\ order_map_' = order_map_ \cup {node}
    /\ pc' = "idle" /\ node' = Null /\ x' = Null /\ y' = Null
    /\ UNCHANGED <<root_, left, right, parent, levelVars, lame>>
-----------------------------------------------------------------------------
(* remove *)

\* The order leaves its price level; with two children its successor is looked for.
Remove(n) ==
    /\ pc = "idle" /\ n \in order_map_
    /\ LevelRemove(n)
    /\ node' = n
    /\ IF left[n] = Nil \/ right[n] = Nil
       THEN pc' = "splice" /\ y' = n
       ELSE pc' = "find_min" /\ y' = right[n]
    /\ UNCHANGED <<treeVars, order_map_, remaining, x, lame>>

FindMin ==
    /\ pc = "find_min"
    /\ IF left[y] = Nil THEN pc' = "splice" /\ y' = y
                        ELSE pc' = pc /\ y' = left[y]
    /\ UNCHANGED <<treeVars, order_map_, levelVars, node, x, lame>>

\* The tree without z, its successor s standing in for it when it has two children.
Spliced(z, s) ==
    LET only == IF left[z] = Nil THEN right[z] ELSE left[z]
        heir == right[s]
        t1 == IF parent[s] = z
              THEN Adopt(Tree, heir, s)
              ELSE LET u == Adopt(Replace(Tree, s, heir), heir, parent[s])
                   IN  Adopt([u EXCEPT !.r[s] = u.r[z]], u.r[z], s)
        t2 == Replace(t1, z, s)
        t3 == [t2 EXCEPT !.p[s] = t2.p[z], !.l[s] = t2.l[z], !.c[s] = t2.c[z]]
    IN  IF s = z THEN Adopt(Replace(Tree, z, only), only, parent[z])
        ELSE Adopt(t3, t2.l[z], s)

\* The node is cut out; fix_delete runs only for a black cut with a real child.
Splice ==
    /\ pc = "splice"
    /\ LET child == IF y = node /\ right[y] = Nil THEN left[y] ELSE right[y]
       IN  /\ x' = child
           /\ pc' = IF color[y] = 0 /\ child # Nil THEN "fix_delete" ELSE "removed"
    /\ Becomes(Spliced(node, y))
    /\ UNCHANGED <<order_map_, levelVars, node, y, lame>>

\* The other child of n's parent, n being on side `near`, and what is done for it:
\* a red sibling goes up,
Sibling(t, n, near) == Child(t, t.p[n], Far(near))
BlackSibling(t, n, near) ==
    LET w == Sibling(t, n, near)
    IN  IF t.c[w] = 0 THEN t
        ELSE Rotate(Paint(Paint(t, w, 0), t.p[n], 1), t.p[n], near)
\* a red near child of the sibling w takes its place,
FarNephew(t, w, near) ==
    IF t.c[Child(t, w, Far(near))] = 1 THEN t
    ELSE Rotate(Paint(Paint(t, Child(t, w, near), 0), w, 1), w, Far(near))
\* and the sibling w takes the place of the parent.
SiblingUp(t, n, w, near) ==
    LET t1 == Paint(Paint(t, w, t.c[t.p[n]]), t.p[n], 0)
        t2 == Paint(t1, Child(t1, w, Far(near)), 0)
    IN  Rotate(t2, t2.p[n], near)

\* One turn of fix_delete's loop.
FixDelete ==
    /\ pc = "fix_delete" /\ x # root_ /\ color[x] = 0
    /\ LET near == SideOf(Tree, x)
           w == Sibling(Tree, x, near)
           t1 == BlackSibling(Tree, x, near)
           w1 == Sibling(t1, x, near)
           t2 == FarNephew(t1, w1, near)
           w2 == Sibling(t2, x, near)
           t3 == SiblingUp(t2, x, w2, near)
       IN  IF t1.c[t1.l[w1]] = 0 /\ t1.c[t1.r[w1]] = 0
           THEN /\ Becomes(Paint(t1, w1, 1)) /\ x' = t1.p[x]
                /\ lame' = (lame \/ Nil \in {w, w1})
           ELSE /\ Becomes(t3) /\ x' = t3.root
                /\ lame' = (lame \/ Nil \in {w, w1, w2})
    /\ UNCHANGED <<order_map_, levelVars, pc, node, y>>

\* The caller destroys the removed order: its fields are blank from here on.
RemoveDone ==
    /\ \/ pc = "removed"
       \/ pc = "fix_delete" /\ (x = root_ \/ color[x] = 1)
    /\ color' = [color EXCEPT ![x] = IF pc = "removed" THEN @ ELSE 0, ![node] = 0]
    /\ left' = [left EXCEPT ![node] = Nil]
    /\ right' = [right EXCEPT ![node] = Nil]
    /\ parent' = [parent EXCEPT ![node] = Nil]
    /\ remaining' = [remaining EXCEPT ![node] = 0]
    /\ order_map_' = order_map_ \ {node}
    /\ pc' = "idle" /\ node' = Null /\ x' = Null /\ y' = Null
    /\ UNCHANGED <<root_, queue, total, lame>>

\* update_quantity
UpdateQuantity(n, q) ==
    /\ pc = "idle" /\ n \in order_map_
    /\ remaining' = [remaining EXCEPT ![n] = q]
    /\ total' = [total EXCEPT ![PriceOf[n]] =
                   IF @ - remaining[n] + q < 0 THEN 0 ELSE @ - remaining[n] + q]
    /\ UNCHANGED <<treeVars, order_map_, queue, pc, node, x, y, lame>>

Next == \/ Descend \/ Link \/ FixInsert \/ InsertDone
        \/ FindMin \/ Splice \/ FixDelete \/ RemoveDone
        \/ \E n \in Nodes : Insert(n) \/ Remove(n)
        \/ \E n \in Nodes, q \in Quantities : UpdateQuantity(n, q)

Spec == Init /\ [][Next]_vars
-----------------------------------------------------------------------------
(* What a reader of the side sees. *)

\* The nodes that n leads to, n included.
Closed(S) == \A m \in S : {left[m], right[m]} \subseteq S \cup {Nil}
From(n) ==
    {m \in Nodes : \A S \in SUBSET Nodes : n \in S \cup {Nil} /\ Closed(S) => m \in S}

\* best_order: the leftmost node, or nullptr in an empty tree.
BestOrder ==
    LET down[d \in 0 .. Len(PriceOf)] ==
          IF d = 0 THEN root_
          ELSE IF left[down[d - 1]] = Nil THEN down[d - 1] ELSE left[down[d - 1]]
    IN  IF root_ = Nil THEN Null ELSE down[Len(PriceOf)]

\* empty(): the tree or the map has nothing.
Empty == root_ = Nil \/ order_map_ = {}

First == IF order_map_ = {} THEN Null
         ELSE CHOOSE n \in order_map_ : \A m \in order_map_ \ {n} : LeftOf(n, m)

Side == INSTANCE OrderBookSide WITH
    OrderSet <- Nodes, Ahead <- LeftOf, NoOrder <- Null,
    resting <- order_map_, best <- IF pc = "idle" /\ ~lame THEN BestOrder ELSE First

\* Type correctness of the tree, the levels and the running call.
TypeOK ==
    /\ root_ \in Nodes \cup {Nil}
    /\ left \in [Nodes \cup {Nil} -> Links] /\ right \in [Nodes \cup {Nil} -> Links]
    /\ parent \in [Nodes \cup {Nil} -> Links] /\ color \in [Nodes \cup {Nil} -> {0, 1}]
    /\ order_map_ \subseteq Nodes
    /\ DOMAIN queue = PriceLevels /\ total \in [PriceLevels -> Nat]
    /\ \A p \in PriceLevels : queue[p] \in Seq(Nodes)
    /\ remaining \in [Nodes -> Quantities \cup {0}]
    /\ pc \in {"idle", "descend", "fix_insert", "find_min", "splice",
               "fix_delete", "removed"}
    /\ {node, x, y} \subseteq Links

\* orderbook.h "Get best order": between calls the side offers the first resting
\* order in price-time order, and nothing only when nothing rests.
OffersBest == Side!Spec

\* insert/remove: no rotation and no removal cuts an order off the tree that
\* order_map_ still holds, or leaves a removed one in it.
NoOrderLost == pc = "idle" /\ ~lame => From(root_) = order_map_

\* rotate_left/rotate_right/remove: the whole tree stays sorted and its parent
\* links stay the inverse of its child links.
WellLinked ==
    pc = "idle" /\ ~lame /\ root_ # Nil =>
        /\ parent[root_] = Null
        /\ \A n \in From(root_) :
             /\ \A m \in From(left[n]) : LeftOf(m, n)
             /\ \A m \in From(right[n]) : LeftOf(n, m)
             /\ \A m \in {left[n], right[n]} \ {Nil} : parent[m] = n

\* What the tree is after any calls: typed, linked and holding the orders at rest.
TreeSound == TypeOK /\ NoOrderLost /\ WellLinked

\* add_order_to_price_level and its inverse, update_quantity: a level lists the
\* orders of its price in time order and totals what they have remaining: the
\* depth shows every order exactly once.
LevelsMatchOrders ==
    pc = "idle" => \A p \in PriceLevels :
        LET here == {n \in order_map_ : PriceOf[n] = p}
        IN  /\ Len(queue[p]) = Cardinality(here)
            /\ \A n \in here : \E i \in DOMAIN queue[p] : queue[p][i] = n
            /\ \A i, j \in DOMAIN queue[p] : i < j => queue[p][i] < queue[p][j]
            /\ total[p] = SumFunctionOnSet(remaining, here)
-----------------------------------------------------------------------------
(* What the documentation says, and the code does not do.                  *)

\* orderbook.h "Get best order": while orders rest, best_order finds the first.
BestOrderRight == pc = "idle" => BestOrder = First
=============================================================================
