---------------------------- MODULE ClearingAccount ----------------------------
(***************************************************************************)
(* Account and AccountManager (src/core/account.cpp): the integer accounts *)
(* of clearing.  One account, from its creation by get_account through any *)
(* sequence of calls.  Amounts that do not fit are ignored in silence, as  *)
(* in the code: no method reports that it did nothing.                     *)
(***************************************************************************)
EXTENDS Integers

CONSTANTS
    Amounts,        \* what callers pass, negative and zero included
    MaxFunds        \* bound: no field leaves -MaxFunds .. MaxFunds

ASSUME FundsAssumption == Amounts \subseteq Int /\ MaxFunds \in Nat

VARIABLES
    opened,             \* get_account has created the account
    balance, available_balance, frozen_balance,
    total_margin, realized_pnl, unrealized_pnl,
    margin_ratio,       \* as a fraction <<margin, balance>>; <<0, 1>> when there is none
    fees_skipped        \* history: a fee the account could not pay

fundVars == <<balance, available_balance, frozen_balance>>
pnlVars == <<realized_pnl, unrealized_pnl>>
marginVars == <<total_margin, margin_ratio>>
ledgerVars == <<opened, fundVars, pnlVars, marginVars, fees_skipped>>

LedgerInit ==
    /\ opened = FALSE
    /\ balance = 0 /\ available_balance = 0 /\ frozen_balance = 0
    /\ total_margin = 0 /\ realized_pnl = 0 /\ unrealized_pnl = 0
    /\ margin_ratio = <<0, 1>> /\ fees_skipped = FALSE

GetAccount == ~opened /\ opened' = TRUE /\ UNCHANGED <<fundVars, pnlVars, marginVars, fees_skipped>>

\* check_balance and check_margin: an account nobody has opened covers nothing.
CheckBalance(required) == opened /\ available_balance >= required
CheckMargin(required) == opened /\ available_balance - total_margin >= required
-----------------------------------------------------------------------------
Deposit(amount) ==
    /\ amount > 0
    /\ balance' = balance + amount
    /\ available_balance' = available_balance + amount
    /\ UNCHANGED <<opened, frozen_balance, pnlVars, marginVars, fees_skipped>>

CanTakeSlip(amount) == amount > 0 /\ balance >= amount
CanTake(amount) == amount > 0 /\ available_balance >= amount

Withdraw(amount) ==
    /\ CanTake(amount)
    /\ balance' = balance - amount
    /\ available_balance' = available_balance - amount
    /\ UNCHANGED <<opened, frozen_balance, pnlVars, marginVars, fees_skipped>>

FreezeFunds(amount) ==
    /\ CanTake(amount)
    /\ available_balance' = available_balance - amount
    /\ frozen_balance' = frozen_balance + amount
    /\ UNCHANGED <<opened, balance, pnlVars, marginVars, fees_skipped>>

UnfreezeFunds(amount) ==
    /\ amount > 0 /\ frozen_balance >= amount
    /\ frozen_balance' = frozen_balance - amount
    /\ available_balance' = available_balance + amount
    /\ UNCHANGED <<opened, balance, pnlVars, marginVars, fees_skipped>>

UnrealizedDiff(pnl) == pnl - unrealized_pnl

UpdateUnrealizedPnl(pnl) ==
    /\ unrealized_pnl' = pnl
    /\ available_balance' = available_balance + UnrealizedDiff(pnl)
    /\ UNCHANGED <<opened, balance, frozen_balance, realized_pnl, marginVars, fees_skipped>>

MarginRatio(margin, funds) == IF funds > 0 THEN <<margin, funds>> ELSE <<0, 1>>

NotNegative(margin) == IF margin < 0 THEN 0 ELSE margin

UpdateMargin(change) ==
    /\ total_margin' = NotNegative(total_margin + change)
    /\ margin_ratio' = MarginRatio(total_margin', balance)
    /\ UNCHANGED <<opened, fundVars, pnlVars, fees_skipped>>

\* The fee is withdrawn after the profit is credited; one that is not covered is
\* not taken.
UpdateAfterTrade(pnl, fee, change) ==
    LET taken == IF fee > 0 /\ available_balance + pnl >= fee THEN fee ELSE 0 IN
    /\ opened' = TRUE
    /\ realized_pnl' = realized_pnl + pnl
    /\ balance' = balance + pnl - taken
    /\ available_balance' = available_balance + pnl - taken
    /\ total_margin' = NotNegative(total_margin + change)
    /\ margin_ratio' = MarginRatio(total_margin', balance')
    /\ fees_skipped' = (fees_skipped \/ taken < fee)
    /\ UNCHANGED <<frozen_balance, unrealized_pnl>>

\* The rate is in basis points.
ShouldLiquidateAccount(rate) ==
    balance <= 0 \/ balance + unrealized_pnl < (total_margin * rate) \div 10000
-----------------------------------------------------------------------------
InBounds == \A x \in {balance', available_balance', frozen_balance', total_margin', realized_pnl'} :
                x \in -MaxFunds .. MaxFunds

LedgerNext ==
    /\ \/ GetAccount
       \/ /\ opened
          /\ \E a \in Amounts : \/ Deposit(a) \/ Withdraw(a) \/ FreezeFunds(a) \/ UnfreezeFunds(a)
                                \/ UpdateUnrealizedPnl(a) \/ UpdateMargin(a)
       \/ \E pnl, fee, change \in Amounts : UpdateAfterTrade(pnl, fee, change)
    /\ InBounds

LedgerSpec == LedgerInit /\ [][LedgerNext]_ledgerVars
-----------------------------------------------------------------------------
\* Type correctness; margin and frozen funds are never negative.
LedgerTypeOK ==
    /\ opened \in BOOLEAN /\ fees_skipped \in BOOLEAN
    /\ {balance, available_balance, realized_pnl, unrealized_pnl} \subseteq Int
    /\ frozen_balance \in Nat /\ total_margin \in Nat
    /\ margin_ratio \in Nat \X (Nat \ {0})

\* The four ways money moves: what is available is the balance less what is frozen,
\* plus the profit that is not yet realized, after any sequence of calls.
FundsExplained == available_balance = balance - frozen_balance + unrealized_pnl

\* withdraw, freeze and the fee of update_account_after_trade: only a loss can make
\* the available balance negative, never something taken out of it.
OnlyLossesOverdraw ==
    [][available_balance' < 0 /\ available_balance' < available_balance
         => realized_pnl' < realized_pnl \/ unrealized_pnl' < unrealized_pnl]_ledgerVars

\* Account over any sequence of the calls of AccountManager: the balances explain one
\* another, margin and frozen funds stay non-negative, and no payment overdraws.
MoneyExplained ==
    [](LedgerTypeOK /\ FundsExplained) /\ OnlyLossesOverdraw
=============================================================================
