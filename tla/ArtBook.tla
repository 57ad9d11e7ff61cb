------------------------------ MODULE ArtBook ------------------------------
(***************************************************************************)
(* The order book over an adaptive radix tree and the two engines built on *)
(* it: MatchingEngineART (OrderBookART, ARTTree) and MatchingEngineARTSIMD *)
(* (OrderBookARTSIMD, ARTTreeSIMDEnhanced).  The price levels are in a     *)
(* hash map; the tree is to give the best of them.                         *)
(*                                                                         *)
(* A leaf of the tree keeps the value, the address of the level, and not   *)
(* its key.  So a tree that is one leaf answers find of any key with that  *)
(* level, and the book, which inserts only what find does not return,      *)
(* never inserts a second one: the tree is empty or a single leaf, and the *)
(* inner nodes are never built.  remove of any key deletes that leaf, and  *)
(* min_key and max_key return the address of the level as a price.         *)
(*                                                                         *)
(* The address of a level is any number the allocator returns that is no   *)
(* price of a level (Addresses): a heap address of this build may be less  *)
(* than a scaled price or greater.  Callers give every order an id of its  *)
(* own and enter it once.                                                  *)
(***************************************************************************)
EXTENDS Orders, FiniteSets, Functions

CONSTANTS
  ArtOrders,      \* the ids of the orders
  ArtPrices,      \* the prices orders carry, 0 among them for market orders
  ArtQuantities,  \* the quantities orders carry
  Addresses       \* the addresses of price levels

ASSUME ArtAssumption ==
  /\ ArtPrices \subseteq Nat /\ ArtQuantities \subseteq Nat \ {0}
  /\ Addresses \subseteq Nat \ (ArtPrices \cup {0})
  /\ IsFiniteSet(ArtOrders)

VARIABLES
  engine,         \* the engine the program built: "art" or "simd"
  orders_,        \* ids of the orders the ART engine owns (none with SIMD)
  order,          \* the fields of each order a caller has made
  price_levels_,  \* for each side, the levels by price
  art_root_,      \* for each side, the value of the tree's only leaf, or 0
  art_order_map_  \* for each side, the ids of the orders in the book

sideVars == <<price_levels_, art_root_, art_order_map_>>
artVars == <<engine, orders_, order, sideVars>>

NoArtOrder == [side |-> "none"]
Incoming == [side : OrderSide, price : ArtPrices, quantity : ArtQuantities,
             order_type : {"LIMIT", "MARKET"}]

(***************************************************************************)
(* The tree                                                                *)
(***************************************************************************)
Find(leaves, s, p) == leaves[s]                           \* whatever the key
InsertLeaf(leaves, s, at) == [leaves EXCEPT ![s] = at]    \* into an empty tree
RemoveKey(s, p) == [art_root_ EXCEPT ![s] = 0]                \* whatever the key
TreeEmpty(s) == art_root_[s] = 0
MinKey(s) == art_root_[s]                         \* the value, read as a price
MaxKey(s) == art_root_[s]

(***************************************************************************)
(* One side of the book                                                    *)
(***************************************************************************)
LevelPrices(s) == DOMAIN price_levels_[s]

BestPrice(s) ==
  IF TreeEmpty(s) THEN 0 ELSE IF s = "BUY" THEN MaxKey(s) ELSE MinKey(s)

BestLevelExists(s) == BestPrice(s) # 0 /\ BestPrice(s) \in LevelPrices(s)

\* the addresses the allocator may return while these levels exist
FreeAddresses(levels) ==
  Addresses \ UNION {{levels[s][p].at : p \in DOMAIN levels[s]} : s \in OrderSide}

GetOrCreatePriceLevel(levels, s, p, at) ==
  IF p \in DOMAIN levels[s] THEN levels[s][p]
  ELSE [at |-> at, list |-> <<>>, total_quantity |-> 0]

AddOrderToPriceLevel(level, id, q) ==
  [level EXCEPT !.list = Append(@, id), !.total_quantity = @ + q]

RemoveOrderFromPriceLevel(level, id, q) ==
  [level EXCEPT !.list = Without(@, id), !.total_quantity = @ - q]

\* the levels with `level` at price p, or without p
WithLevel(levels, s, p, level) ==
  [levels EXCEPT ![s] = [x \in DOMAIN @ \cup {p} |-> IF x = p THEN level ELSE @[x]]]
WithoutLevel(levels, s, p) ==
  [levels EXCEPT ![s] = [x \in DOMAIN @ \ {p} |-> @[x]]]

\* the levels and the leaves after remove_price_level_if_empty
LevelsLeft(s, p, level) ==
  IF level.list = <<>> THEN WithoutLevel(price_levels_, s, p)
  ELSE WithLevel(price_levels_, s, p, level)

LeavesLeftSlip(s, p, level) == art_root_

LeavesLeft(s, p, level) == IF level.list = <<>> THEN RemoveKey(s, p) ELSE art_root_

\* get_depth: the first n levels, the best price first
PricesInOrder(s) ==
  CHOOSE ps \in [1 .. Cardinality(LevelPrices(s)) -> LevelPrices(s)] :
    \A i, j \in DOMAIN ps : i < j => IF s = "BUY" THEN ps[i] > ps[j] ELSE ps[i] < ps[j]
Depth(s, n) ==
  LET count == Cardinality(LevelPrices(s))
  IN [i \in 1 .. IF n < count THEN n ELSE count |-> price_levels_[s][PricesInOrder(s)[i]]]

Refused(o) == o.price <= 0 \/ o.quantity <= 0

\* the level joins the tree when find returned nothing
Enter(id, o, levels, leaves) ==
  \E at \in FreeAddresses(levels) :
    LET level == GetOrCreatePriceLevel(levels, o.side, o.price, at)
    IN /\ price_levels_' = WithLevel(levels, o.side, o.price,
                             AddOrderToPriceLevel(level, id, o.quantity))
       /\ art_root_' = IF Find(leaves, o.side, o.price) = 0
                   THEN InsertLeaf(leaves, o.side, level.at) ELSE leaves
       /\ art_order_map_' = [art_order_map_ EXCEPT ![o.side] = @ \cup {id}]

InsertArt(id, o) ==
  IF Refused(o) THEN UNCHANGED sideVars ELSE Enter(id, o, price_levels_, art_root_)

(***************************************************************************)
(* The engines.  The loop runs while the other side's tree is not empty,   *)
(* leaves when the incoming price does not reach best_price and when there *)
(* is no level at best_price: it finds a maker exactly when Meets holds.   *)
(* It never does (NoMakerFound), so the trade in the body of the loop is   *)
(* not modelled.                                                           *)
(***************************************************************************)
Meets(s, p) ==
  LET best == BestPrice(Opposite(s))
  IN /\ ~TreeEmpty(Opposite(s))
     /\ best # 0
     /\ IF s = "BUY" THEN p >= best ELSE p <= best
     /\ BestLevelExists(Opposite(s))

CanMatchArtPrice(p, best, isBuy) == IF isBuy THEN p >= best ELSE p <= best

MeetsSimd(s, p) ==
  LET best == BestPrice(Opposite(s))
  IN /\ ~TreeEmpty(Opposite(s))
     /\ best # 0
     /\ CanMatchArtPrice(p, best, s = "BUY")
     /\ BestLevelExists(Opposite(s))

\* process_order_art: the engine owns the order, and what is left of a limit
\* order enters the book
ProcessOrderArt(id, o) ==
  /\ engine = "art"
  /\ order[id] = NoArtOrder
  /\ order' = [order EXCEPT ![id] = o]
  /\ orders_' = orders_ \cup {id}
  /\ IF o.order_type = "LIMIT" THEN InsertArt(id, o) ELSE UNCHANGED sideVars
  /\ UNCHANGED engine

\* process_order_art_simd: the order stays the caller's
ProcessOrderArtSimd(id, o) ==
  /\ engine = "simd"
  /\ order[id] = NoArtOrder
  /\ order' = [order EXCEPT ![id] = o]
  /\ IF o.order_type = "LIMIT" THEN InsertArt(id, o) ELSE UNCHANGED sideVars
  /\ UNCHANGED <<engine, orders_>>

\* OrderBookART::remove_order, reached through get_orderbook_art()
RemoveOrder(id) ==
  LET o == order[id]
  IN /\ o # NoArtOrder
     /\ id \in art_order_map_[o.side]
     /\ LET level == RemoveOrderFromPriceLevel(price_levels_[o.side][o.price],
                                               id, o.quantity)
        IN /\ price_levels_' = LevelsLeft(o.side, o.price, level)
           /\ art_root_' = LeavesLeft(o.side, o.price, level)
     /\ art_order_map_' = [art_order_map_ EXCEPT ![o.side] = @ \ {id}]
     /\ UNCHANGED <<engine, orders_, order>>

\* update_order of an order that is in the book: taken out, changed, entered
\* again.  When the new price is refused, the order is in the book no more.
UpdateOrder(id, p, q) ==
  LET o == order[id]
      new == [o EXCEPT !.price = p, !.quantity = q]
  IN /\ o # NoArtOrder
     /\ id \in art_order_map_[o.side]
     /\ order' = [order EXCEPT ![id] = new]
     /\ LET level == RemoveOrderFromPriceLevel(price_levels_[o.side][o.price],
                                               id, o.quantity)
            levels == LevelsLeft(o.side, o.price, level)
            leaves == LeavesLeft(o.side, o.price, level)
        IN IF Refused(new)
           THEN /\ price_levels_' = levels
                /\ art_root_' = leaves
                /\ art_order_map_' = [art_order_map_ EXCEPT ![o.side] = @ \ {id}]
           ELSE Enter(id, new, levels, leaves)
     /\ UNCHANGED <<engine, orders_>>

\* OrderBookSideART::update_quantity
UpdateArtQuantity(id, q) ==
  LET o == order[id]
  IN /\ o # NoArtOrder
     /\ id \in art_order_map_[o.side]
     /\ price_levels_' = [price_levels_ EXCEPT ![o.side][o.price].total_quantity =
                            @ - o.quantity + q]
     /\ order' = [order EXCEPT ![id].quantity = q]
     /\ UNCHANGED <<engine, orders_, art_root_, art_order_map_>>

ArtInit ==
  /\ engine \in {"art", "simd"}
  /\ orders_ = {}
  /\ order = [id \in ArtOrders |-> NoArtOrder]
  /\ price_levels_ = [s \in OrderSide |-> <<>>]
  /\ art_root_ = [s \in OrderSide |-> 0]
  /\ art_order_map_ = [s \in OrderSide |-> {}]

ArtNext ==
  \E id \in ArtOrders :
    \/ \E o \in Incoming : ProcessOrderArt(id, o) \/ ProcessOrderArtSimd(id, o)
    \/ RemoveOrder(id)
    \/ \E p \in ArtPrices, q \in ArtQuantities : UpdateOrder(id, p, q)
    \/ \E q \in ArtQuantities : UpdateArtQuantity(id, q)

ArtSpec == ArtInit /\ [][ArtNext]_artVars
-----------------------------------------------------------------------------
ArtTypeOK ==
  /\ orders_ \subseteq ArtOrders
  /\ \A id \in ArtOrders : order[id] \in Incoming \cup {NoArtOrder}
  /\ \A s \in OrderSide : /\ art_root_[s] \in Addresses \cup {0}
                      /\ art_order_map_[s] \subseteq ArtOrders
                      /\ LevelPrices(s) \subseteq ArtPrices \ {0}
  /\ engine = "simd" => orders_ = {}

\* What each order has left, none if there is no such order.
QuantityOf == [id \in ArtOrders |-> IF order[id] = NoArtOrder THEN 0 ELSE order[id].quantity]

\* The levels list exactly the orders of art_order_map_, each once and at its own
\* price, no level is empty, and total_quantity is the sum of the quantities.
LevelsHoldOrders ==
  \A s \in OrderSide :
    /\ \A p \in LevelPrices(s) :
         LET level == price_levels_[s][p]
             here == {id \in art_order_map_[s] : order[id].price = p}
         IN /\ here # {} /\ Listed(level.list) = here
            /\ Len(level.list) = Cardinality(here)
            /\ level.total_quantity = SumFunctionOnSet(QuantityOf, here)
    /\ \A id \in art_order_map_[s] : order[id].side = s /\ order[id].price \in LevelPrices(s)

\* The leaf never dangles: the tree forgets its level when any level empties,
\* its own among them, so the level it points to still exists.
LeafNamesLevel ==
  \A s \in OrderSide :
    TreeEmpty(s) \/ \E p \in LevelPrices(s) : price_levels_[s][p].at = art_root_[s]

\* get_depth publishes the book: every order is in one level of it, better prices come
\* first, and the quantities of all levels add up to those of the orders.
DepthIsBook ==
  \A s \in OrderSide :
    LET all == Depth(s, Cardinality(ArtOrders))
        total == [i \in DOMAIN all |-> all[i].total_quantity]
    IN /\ SumFunctionOnSet(total, DOMAIN all) = SumFunctionOnSet(QuantityOf, art_order_map_[s])
       /\ \A id \in art_order_map_[s] : \E i \in DOMAIN all : id \in Listed(all[i].list)
       /\ \A i, j \in DOMAIN all : i < j =>
            \A a \in Listed(all[i].list), b \in Listed(all[j].list) :
              IF s = "BUY" THEN order[a].price > order[b].price ELSE order[a].price < order[b].price
       /\ \A n \in 0 .. Len(all) : Depth(s, n) = SubSeq(all, 1, n)

\* No price makes either engine's loop find a maker: best_price is an address
\* and no level has it for a price.
NoMakerFound ==
  \A s \in OrderSide, p \in ArtPrices : ~Meets(s, p) /\ ~MeetsSimd(s, p)

\* Time priority within a level: the orders that stay in a level keep their order, but
\* for one that a change puts at the end, and one that arrives goes behind them.
ArrivalOrderKept ==
  [][\A s \in OrderSide : \A p \in LevelPrices(s) :
       p \in DOMAIN price_levels_'[s] =>
         LET old == price_levels_[s][p].list
             new == price_levels_'[s][p].list
         IN \A a \in Listed(old) \cap Listed(new), b \in Listed(new) :
              \/ a = b
              \/ StandsBefore(new, a, b)
              \/ b \in Listed(old) /\ (StandsBefore(old, b, a) \/ new[Len(new)] = a)]_artVars

\* The ART book of either engine over any sequence of orders, changes and removals:
\* its levels hold its orders in the order of their arrival, its leaf names a level
\* that exists, and the engine finds no maker at any price.
ArtSound ==
  /\ [](ArtTypeOK /\ LevelsHoldOrders /\ LeafNamesLevel /\ DepthIsBook
       /\ NoMakerFound)
  /\ ArrivalOrderKept
=============================================================================
