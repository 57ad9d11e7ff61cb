------------------------------- MODULE FundingRates -------------------------------
(***************************************************************************)
(* FundingRateManager (src/core/funding_rate_manager.cpp) as the main loop *)
(* of the production service (src/production_service_main.cpp) and request *)
(* threads use it, for one instrument, and FundingRateCalculator           *)
(* (funding_rate.cpp).  Rates are in hundredths of a percent.              *)
(*                                                                         *)
(* settleFunding pays nobody: the position manager lists no positions.  It *)
(* only moves the time of the next settlement.                             *)
(***************************************************************************)
EXTENDS Integers, Sequences, SequencesExt, FiniteSetsExt

CONSTANTS
    Quotes,                 \* best bid, best ask and mark price, <<b, a, m>>
    MaxRate, interest_rate_,
    settlement_interval_, CheckEvery,   \* seconds, laps of the main loop
    MaxLag,                 \* how late the loop may wake up, seconds
    MaxHistory, MaxNow, MaxUpdates,     \* the cap of the code; bounds
    Indexed                 \* whether a thread calls updatePremiumIndex

ASSUME FundingAssumption ==
    /\ Quotes \subseteq Nat \X Nat \X Nat /\ {MaxRate, interest_rate_} \subseteq Nat
    /\ {settlement_interval_, CheckEvery, MaxHistory} \subseteq Nat \ {0}
    /\ {MaxLag, MaxNow, MaxUpdates} \subseteq Nat /\ Indexed \in BOOLEAN

VARIABLES
    holder,                 \* mutex_: "nobody", or "recalculate": updatePremiumIndex has it
    now,
    premium_index,          \* <<>>, or one index
    funding_rate,           \* <<>>, or the current rate
    funding_rate_history_,
    updates,                \* rates computed so far, for the bound
    computed,               \* history: the last MaxHistory rates computed
    next_settlement,        \* 0 when there is none
    loop,                   \* "sleep", "read", "decide", "rate", "set"
    counter, slept_at,
    next_read,              \* what shouldSettle has read
    settled_at, gap         \* history: the last settlement, and the shortest time between two

rateVars == <<premium_index, funding_rate, funding_rate_history_, updates, computed>>
loopVars == <<loop, counter, slept_at, next_read>>
settleVars == <<next_settlement, settled_at, gap>>
fundingVars == <<holder, now, rateVars, loopVars, settleVars>>

FundingInit ==
    /\ holder = "nobody" /\ now = 1 /\ slept_at = 1
    /\ premium_index = <<>> /\ funding_rate = <<>> /\ funding_rate_history_ = <<>>
    /\ updates = 0 /\ computed = <<>>
    /\ next_settlement = 0 /\ loop = "sleep" /\ counter = 0 /\ next_read = 0
    /\ settled_at = 0 /\ gap = settlement_interval_
-----------------------------------------------------------------------------
(* The rate *)

Cap(rate, bound) == Max({-bound, Min({bound, rate})})

PremiumIndex(q) ==
    IF 0 \in {q[1], q[2], q[3]} THEN 0 ELSE ((q[1] + q[2] - 2 * q[3]) * 5000) \div q[3]

Kept(s) == IF Len(s) > MaxHistory THEN Tail(s) ELSE s

Record(rate, premium) == [rate |-> rate, premium |-> premium, timestamp |-> now]

ComputeRate(premium) ==
    LET record == Record(Cap(premium + interest_rate_, MaxRate), premium) IN
    /\ updates < MaxUpdates /\ updates' = updates + 1
    /\ funding_rate' = <<record.rate>>
    /\ funding_rate_history_' = Kept(Append(funding_rate_history_, record))
    /\ computed' = SubSeq(computed \o <<record>>, Max({1, Len(computed) + 2 - MaxHistory}), Len(computed) + 1)

Free == holder = "nobody"

\* calculateFundingRate, called from any thread, has the mutex for all of this.
CalculateFundingRate ==
    /\ Free
    /\ \E q \in Quotes : ComputeRate(PremiumIndex(q))
    /\ UNCHANGED <<holder, now, premium_index, loopVars, settleVars>>

\* updatePremiumIndex calls calculateFundingRate with the mutex held.
UpdatePremiumIndex ==
    /\ Indexed /\ Free
    /\ holder' = "recalculate"
    /\ \E q \in Quotes : premium_index' = <<PremiumIndex(q)>>
    /\ UNCHANGED <<now, funding_rate, funding_rate_history_, updates, computed, loopVars, settleVars>>

\* The lock_guard of the inner call, which is not recursive.
RecalculateRate ==
    /\ holder = "recalculate" /\ Free
    /\ ComputeRate(premium_index[1])
    /\ holder' = "nobody"
    /\ UNCHANGED <<now, premium_index, loopVars, settleVars>>

CurrentFundingRate == IF funding_rate = <<>> THEN interest_rate_ ELSE funding_rate[1]

\* The records of a period: the loop of getFundingRateHistory, after n of them.
FundingRateHistory(start, end) ==
    LET In(r) == start <= r.timestamp /\ r.timestamp <= end
        result[n \in 0 .. Len(funding_rate_history_)] ==
            IF n = 0 THEN <<>>
            ELSE IF In(funding_rate_history_[n]) THEN Append(result[n - 1], funding_rate_history_[n])
            ELSE result[n - 1]
    IN  result[Len(funding_rate_history_)]
-----------------------------------------------------------------------------
(* The main loop *)

\* It sleeps a second and looks at the settlement in every CheckEvery-th lap.
Wake ==
    /\ loop = "sleep" /\ now > slept_at
    /\ counter' = (counter + 1) % CheckEvery
    /\ IF counter' = 0 THEN loop' = "read" ELSE loop' = "sleep"
    /\ slept_at' = now
    /\ UNCHANGED <<holder, now, rateVars, settleVars, next_read>>

\* shouldSettle: the time of the next settlement under the mutex, the clock after it.
ReadNext ==
    /\ loop = "read" /\ Free
    /\ next_read' = next_settlement /\ loop' = "decide"
    /\ UNCHANGED <<holder, now, counter, slept_at, rateVars, settleVars>>

DueSlip(next) == next = 0 \/ now >= next - 1
Due(next) == next = 0 \/ now >= next

Decide ==
    /\ loop = "decide"
    /\ IF Due(next_read) THEN loop' = "rate" /\ UNCHANGED slept_at ELSE loop' = "sleep" /\ slept_at' = now
    /\ UNCHANGED <<holder, now, counter, next_read, rateVars, settleVars>>

\* settleFunding reads the current rate, and uses it for nothing.
ReadRate ==
    /\ loop = "rate" /\ Free /\ loop' = "set"
    /\ UNCHANGED <<holder, now, counter, slept_at, next_read, rateVars, settleVars>>

SetNext ==
    /\ loop = "set" /\ Free
    /\ next_settlement' = now + settlement_interval_
    /\ settled_at' = now
    /\ gap' = IF settled_at = 0 THEN gap ELSE Min({gap, now - settled_at})
    /\ loop' = "sleep" /\ slept_at' = now
    /\ UNCHANGED <<holder, now, counter, next_read, rateVars>>

\* Only sleeping, and waiting for a mutex that is held, take time that matters.
Second ==
    /\ now < MaxNow
    /\ Free => loop = "sleep" /\ now <= slept_at + MaxLag
    /\ now' = now + 1
    /\ UNCHANGED <<holder, rateVars, loopVars, settleVars>>

FundingNext ==
    Wake \/ ReadNext \/ Decide \/ ReadRate \/ SetNext \/ Second \/ CalculateFundingRate

\* The same with a thread that updates the premium index.
IndexedSpec ==
    /\ FundingInit
    /\ [][FundingNext \/ UpdatePremiumIndex \/ RecalculateRate]_fundingVars
    /\ WF_fundingVars(RecalculateRate) /\ WF_fundingVars(Wake)
-----------------------------------------------------------------------------
(* FundingRateCalculator *)

\* Division drops the fraction, towards zero.
Truncated(a, b) == IF a >= 0 THEN a \div b ELSE -((-a) \div b)

\* scale stands for PRICE_SCALE; before the division the premium is a product that
\* leaves 64 bits when mark and index are 9.3 apart.
CalculatedRate(mark, index, factor, scale) ==
    IF index = 0 THEN 0
    ELSE Cap(Truncated(Truncated((mark - index) * scale, index) * factor, 10000), scale \div 100)

Fee(position_size, mark, rate, quantity_scale, scale) ==
    LET magnitude == IF position_size < 0 THEN -position_size ELSE position_size
        fee == Truncated(((magnitude * mark) \div quantity_scale) * rate, scale)
    IN  IF position_size < 0 THEN -fee ELSE fee
-----------------------------------------------------------------------------
\* Type correctness.
FundingTypeOK ==
    /\ now \in Nat /\ slept_at \in 0 .. now /\ counter \in 0 .. CheckEvery - 1
    /\ \A i \in DOMAIN funding_rate_history_ :
          funding_rate_history_[i].rate \in -MaxRate .. MaxRate
    /\ Len(funding_rate_history_) <= MaxHistory
    /\ loop \in {"sleep", "read", "decide", "rate", "set"}
    /\ {next_settlement, next_read, settled_at, gap} \subseteq Nat

\* calculateFundingRate from several threads: the history is the last rates computed,
\* oldest first, and ends with the current one.
HistoryIsLast ==
    /\ funding_rate_history_ = computed
    /\ computed # <<>> => CurrentFundingRate = Last(computed).rate
    /\ FundingRateHistory(1, now) = funding_rate_history_

\* The main loop's check and settlement, in laps that drift: two settlements are at
\* least the interval apart, and one is late by at most the laps between two checks,
\* as long as nobody is stuck with the mutex.
SettledOnTime ==
    /\ gap >= settlement_interval_
    /\ Free /\ settled_at # 0 =>
           now <= settled_at + settlement_interval_ + CheckEvery * (1 + MaxLag)

\* calculate_funding_fee: what a position pays the opposite one receives, for either
\* sign of the rate, with every division rounding.
FeesBalance ==
    \A q \in Quotes, factor \in {1, 25, 10000}, n \in 1 .. 3 :
        LET rate == CalculatedRate(q[3], q[1], factor, 100) IN
        Fee(n, q[3], rate, 2, 100) = -Fee(-n, q[3], rate, 2, 100)

\* Funding with the main loop and the callers of calculateFundingRate: the history is
\* what was computed, settlements are neither early nor late, and fees cancel out.
FundingSound == FundingTypeOK /\ HistoryIsLast /\ SettledOnTime /\ FeesBalance

\* updatePremiumIndex returns, and the rate is the one of the new index:
\* test_funding_rate_manager.cpp:44 calls it and reads the index next.
IndexUpdateReturns == holder = "recalculate" ~> Free
=============================================================================
