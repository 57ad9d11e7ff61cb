------------------------------- MODULE Positions -------------------------------
(***************************************************************************)
(* Position (src/core/position.cpp): the position of a user in one         *)
(* instrument, changed by the trades that open and close it and valued at  *)
(* a mark price.  The scales are 1; the width of an int64_t is MaxInt: at  *)
(* the real scales the cost of 0.2 contracts at a price of 50000 is beyond *)
(* it.  A position is followed up to its first overflow.                   *)
(***************************************************************************)
EXTENDS Integers

CONSTANTS
    Prices, Sizes,      \* of trades, positive
    MaxSize,            \* bound: neither side grows beyond
    MaxInt,             \* the largest int64_t
    Leverage            \* of the position, 10 for 10x

ASSUME PositionAssumption ==
    /\ Prices \subseteq Nat \ {0} /\ Sizes \subseteq Nat \ {0}
    /\ MaxSize \in Nat /\ MaxInt \in Nat /\ Leverage \in 1 .. 10000

VARIABLES
    size, long_size, short_size, avg_open_price,
    pnl, mark_price,    \* the unrealized profit, and the mark it was taken at (0: none)
    opened_at,          \* history: the prices of the trades that opened
    overflowed          \* history: a cost did not fit

positionVars == <<size, long_size, short_size, avg_open_price, pnl, mark_price, opened_at,
                  overflowed>>

PositionInit ==
    /\ size = 0 /\ long_size = 0 /\ short_size = 0 /\ avg_open_price = 0
    /\ pnl = 0 /\ mark_price = 0 /\ opened_at = {} /\ overflowed = FALSE

Abs(n) == IF n < 0 THEN -n ELSE n
Above(n, floor) == IF n < floor THEN floor ELSE n
-----------------------------------------------------------------------------
(* update_position *)

Wrapped(n) == ((n + MaxInt + 1) % (2 * (MaxInt + 1))) - (MaxInt + 1)

\* Division drops the fraction, towards zero.
Quotient(a, b) == IF a >= 0 THEN a \div b ELSE -((-a) \div b)

Cost(old, n, price, quantity) == old * n + price * quantity

AverageSlip(old, n, price, quantity) == Quotient(Wrapped(Cost(old, n, price, quantity)), Above(n, 1))
Average(old, n, price, quantity) == Quotient(Wrapped(Cost(old, n, price, quantity)), n + quantity)

\* net is the position as the trade sees it: positive on the trade's side.  A trade
\* against the position leaves the average price, or sets it when it turns it.
OpenPrice(net, price, quantity) ==
    IF net >= 0 THEN Average(avg_open_price, net, price, quantity)
    ELSE IF -net >= quantity THEN avg_open_price ELSE price

Open(side, price, quantity) ==
    LET net == IF side = "BUY" THEN size ELSE -size IN
    /\ IF side = "BUY"
       THEN long_size' = long_size + quantity /\ UNCHANGED short_size
       ELSE short_size' = short_size + quantity /\ UNCHANGED long_size
    /\ avg_open_price' = OpenPrice(net, price, quantity)
    /\ opened_at' = opened_at \cup {price}
    /\ overflowed' = (net >= 0 /\ Cost(avg_open_price, net, price, quantity) > MaxInt)

Left(n, quantity) == Above(n - quantity, 0)

\* A buy closes the short side.  Closing more than there is closes what there is.
Close(side, quantity) ==
    /\ IF side = "BUY"
       THEN short_size' = Left(short_size, quantity) /\ UNCHANGED long_size
       ELSE long_size' = Left(long_size, quantity) /\ UNCHANGED short_size
    /\ UNCHANGED <<avg_open_price, opened_at, overflowed>>

UpdatePosition(side, price, quantity, offset_flag) ==
    /\ IF offset_flag = "OPEN" THEN Open(side, price, quantity) ELSE Close(side, quantity)
    /\ size' = long_size' - short_size'
    /\ UNCHANGED <<pnl, mark_price>>
-----------------------------------------------------------------------------
(* Valuation, for linear contracts *)

Profit(mark) ==
    IF size = 0 THEN 0
    ELSE IF size > 0 THEN size * (mark - avg_open_price)
    ELSE size * (avg_open_price - mark)

UpdateUnrealized(mark) ==
    /\ pnl' = Profit(mark) /\ mark_price' = mark
    /\ UNCHANGED <<size, long_size, short_size, avg_open_price, opened_at, overflowed>>

\* The rate is divided by 100 here and by 10000 in Account.
ShouldLiquidate(mark, funds, used_margin, rate) ==
    size # 0 /\ funds + Profit(mark) < (used_margin * rate) \div 100

MarginOf(mark) == (Abs(size) * mark) \div Leverage

\* In ten-thousandths.
LiquidationFactor(rate) ==
    IF size > 0 THEN 10000 - 10000 \div Leverage + rate ELSE 10000 + 10000 \div Leverage - rate

LiquidationPrice(rate) ==
    IF size = 0 THEN 0 ELSE (avg_open_price * LiquidationFactor(rate)) \div 10000
-----------------------------------------------------------------------------
Trade ==
    \E side \in {"BUY", "SELL"}, price \in Prices, quantity \in Sizes, flag \in {"OPEN", "CLOSE"} :
        /\ UpdatePosition(side, price, quantity, flag)
        /\ long_size' <= MaxSize /\ short_size' <= MaxSize

PositionNext == ~overflowed /\ (Trade \/ \E mark \in Prices : UpdateUnrealized(mark))

PositionSpec == PositionInit /\ [][PositionNext]_positionVars
-----------------------------------------------------------------------------
\* Type correctness: neither side of a position is negative.
PositionTypeOK ==
    /\ size \in Int /\ long_size \in Nat /\ short_size \in Nat
    /\ avg_open_price \in Int /\ pnl \in Int /\ mark_price \in Nat
    /\ opened_at \subseteq Prices /\ overflowed \in BOOLEAN

\* update_position over any sequence of opens, reductions, reversals and closes, with
\* integer division: while the costs fit in 64 bits, the average price lies between
\* the prices opened at, and a position that is open has one.
AverageWithinPrices ==
    \/ overflowed
    \/ opened_at = {} /\ avg_open_price = 0 /\ size = 0
    \/ /\ \E p \in opened_at : p <= avg_open_price
       /\ \E p \in opened_at : avg_open_price <= p

\* calculate_liquidation_price: with a maintenance rate below the initial margin, a
\* long position is liquidated at or below the price it was opened at, a short one at
\* or above it, less what the division drops.
LiquidationOnLosingSide ==
    ~overflowed => \A rate \in {0, 10000 \div Leverage} :
        /\ size > 0 => LiquidationPrice(rate) <= avg_open_price
        /\ size < 0 => LiquidationPrice(rate) >= avg_open_price

\* Position over any sequence of trades and valuations: no side is negative, the
\* average price is one the position could have been opened at, and liquidation is
\* on the losing side of it.
PositionSound == PositionTypeOK /\ AverageWithinPrices /\ LiquidationOnLosingSide
================================================================================
