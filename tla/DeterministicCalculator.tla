----------------------- MODULE DeterministicCalculator -----------------------
(***************************************************************************)
(* DeterministicCalculator (src/core/deterministic_calculator.cpp): the    *)
(* pure functions matching and clearing use so that a replay computes what *)
(* the first run did.  The variables are the arguments of one comparison   *)
(* of two orders; a step takes any others.                                  *)
(*                                                                         *)
(* An int64_t has Width bits, QtyScale stands for QTY_SCALE, and a product *)
(* is exact, as it is in the 128 bits of the code.                         *)
(***************************************************************************)
EXTENDS Integers

CONSTANTS
    Width,      \* bits of a price and of a sequence number
    QtyScale,
    Rates       \* in basis points

\* What is said of the powers of two is arithmetic, for the proofs.
ASSUME WidthAssumption ==
    /\ Width \in Nat \ {0, 1} /\ QtyScale \in Nat \ {0} /\ Rates \subseteq Nat
    /\ 2 ^ (Width - 1) \in Nat \ {0, 1} /\ 2 ^ Width = 2 * 2 ^ (Width - 1)

MaxPrice == 2 ^ (Width - 1) - 1
MinPrice == -(2 ^ (Width - 1))
SequenceIds == 0 .. 2 ^ Width - 1

VARIABLES price, sequence_id    \* each a pair: of the first and of the second order

inputs == <<price, sequence_id>>

\* The prices validate_price accepts.
Valid == 1 .. MaxPrice

InputInit == price = <<1, 1>> /\ sequence_id = <<0, 0>>
InputNext == InputInit /\ price' \in Valid \X Valid /\ sequence_id' \in SequenceIds \X SequenceIds

InputSpec == InputInit /\ [][InputNext]_inputs
-----------------------------------------------------------------------------
Truncate(n, d) == IF n >= 0 THEN n \div d ELSE -((-n) \div d)

Clamp(n) == IF n > MaxPrice THEN MaxPrice ELSE IF n < MinPrice THEN MinPrice ELSE n

CanMatch(taker_price, maker_price, is_buy_order) ==
    IF is_buy_order THEN taker_price >= maker_price ELSE taker_price <= maker_price

MatchPrice(taker_price, maker_price) == maker_price

TradeQuantity(taker_remaining, maker_remaining) ==
    IF taker_remaining < maker_remaining THEN taker_remaining ELSE maker_remaining

\* fixed_multiply narrows the quotient to 64 bits.
FixedMultiply(a, b, scale) == ((Truncate(a * b, scale) - MinPrice) % (2 ^ Width)) + MinPrice

CalculatePnl(entry_price, current_price, position_size, is_long) ==
    FixedMultiply(IF is_long THEN current_price - entry_price ELSE entry_price - current_price,
                  position_size, QtyScale)

CalculateMargin(p, quantity, rate) == Clamp(Truncate(Truncate(p * quantity * rate, 10000), QtyScale))

FundingPayment(position_size, p, rate) ==
    Clamp(Truncate(Truncate(position_size * p * rate, 10000), QtyScale))

CalculateLiquidationPrice(entry_price, is_long, rate) ==
    Truncate(entry_price * (IF is_long THEN 10000 - rate ELSE 10000 + rate), 10000)

BaseTime == 5       \* 2021-01-01
SequenceToTimestamp(n) == BaseTime + n
TimestampToSequence(t) == IF t < BaseTime THEN 0 ELSE t - BaseTime

SortPriceSlip(p, is_buy_side) == p
SortPrice(p, is_buy_side) == IF is_buy_side THEN MaxPrice - p ELSE p

\* The price above, the sequence number in the lower 64 bits.
MakeSortKey(p, n, is_buy_side) == SortPrice(p, is_buy_side) * 2 ^ Width + n

ValidateCalculation(p, quantity) ==
    p \in Valid /\ quantity \in Valid /\ p * quantity <= MaxPrice
-----------------------------------------------------------------------------
\* A better price first, then the earlier order.
HasPriority(i, j, is_buy_side) ==
    \/ IF is_buy_side THEN price[i] > price[j] ELSE price[i] < price[j]
    \/ price[i] = price[j] /\ sequence_id[i] < sequence_id[j]

\* make_sort_key: the keys of two orders compare as price-time priority does, for the
\* whole range of prices and sequence numbers, on both sides.
SortKeyIsPriority ==
    \A side \in BOOLEAN :
        MakeSortKey(price[1], sequence_id[1], side) < MakeSortKey(price[2], sequence_id[2], side)
            <=> HasPriority(1, 2, side)

\* calculate_margin and calculate_funding_payment at the limits of 64 bits: a larger
\* quantity never needs less margin or pays less, because results that do not fit
\* are clamped and not wrapped.
ChargesGrow ==
    \A rate \in Rates, q \in Valid :
        /\ q < MaxPrice => CalculateMargin(price[1], q, rate) <= CalculateMargin(price[1], q + 1, rate)
        /\ FundingPayment(q, price[1], rate) = -FundingPayment(-q, price[1], rate)
             \/ FundingPayment(q, price[1], rate) = MaxPrice

\* calculate_pnl: what one side of a trade gains the other loses, for every product
\* validate_calculation accepts.
PnlIsZeroSum ==
    \A q \in Valid :
        ValidateCalculation(price[1], q) /\ ValidateCalculation(price[2], q) =>
            /\ CalculatePnl(price[1], price[2], q, TRUE) = -CalculatePnl(price[1], price[2], q, FALSE)
            /\ price[1] < price[2] => CalculatePnl(price[1], price[2], q, TRUE) >= 0

\* The calculator over its whole range: the order of sort keys is price-time priority,
\* charges are monotonous and symmetric up to the clamp, and a profit is a loss.
CalculatorSound == SortKeyIsPriority /\ ChargesGrow /\ PnlIsZeroSum
=============================================================================
