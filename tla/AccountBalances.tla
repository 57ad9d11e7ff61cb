--------------------------- MODULE AccountBalances ---------------------------
(***************************************************************************)
(* AccountBalanceManager (src/core/account_manager.cpp): the balance and   *)
(* the frozen margin of each user are two atomics, read one after the      *)
(* other and changed by compare-exchange loops; no lock spans a call.      *)
(* Every step below makes one access to one atomic.                        *)
(*                                                                         *)
(* A thread has at most one call in progress.  It starts in a call with    *)
(* call[t].at = the first step, and finds "yes" or "no" there when the     *)
(* call has returned.  Amounts are whole numbers.                          *)
(***************************************************************************)
EXTENDS Integers

CONSTANTS
    Users, Threads,
    MaxBalance      \* bound: the largest balance an account is given

ASSUME BalanceAssumption == MaxBalance \in Nat

VARIABLES
    balance, frozen,    \* AccountData, per user
    call,               \* the locals of the call each thread is in
    peak                \* history: the largest balance each user has had

accountVars == <<balance, frozen, call, peak>>

\* Not in a call of the account manager.
Out == [at |-> "out", seen |-> 0, expected |-> 0]

\* An account is created empty by the first call that names it.
AccountInit ==
    /\ balance = [u \in Users |-> 0] /\ frozen = [u \in Users |-> 0]
    /\ call = [t \in Threads |-> Out]
    /\ peak = [u \in Users |-> 0]

At(t, step) == call[t].at = step

Return(t, answer) == call' = [call EXCEPT ![t] = [Out EXCEPT !.at = answer]]
-----------------------------------------------------------------------------
(* hasSufficientBalance, by getAvailableBalance *)

CheckLoadsBalance(t, u) ==
    /\ At(t, "check balance")
    /\ call' = [call EXCEPT ![t].at = "check frozen", ![t].seen = balance[u]]
    /\ UNCHANGED <<balance, frozen, peak>>

Available(b, f) == IF b > f THEN b - f ELSE 0

CheckLoadsFrozen(t, u, amount) ==
    /\ At(t, "check frozen")
    /\ Return(t, IF Available(call[t].seen, frozen[u]) >= amount THEN "yes" ELSE "no")
    /\ UNCHANGED <<balance, frozen, peak>>
-----------------------------------------------------------------------------
(* freezeBalance *)

RefusesAmount(t, amount) ==
    /\ At(t, "freeze") /\ amount <= 0
    /\ Return(t, "no")
    /\ UNCHANGED <<balance, frozen, peak>>

FreezeLoadsBalance(t, u, amount) ==
    /\ At(t, "freeze") /\ amount > 0
    /\ call' = [call EXCEPT ![t].at = "freeze frozen", ![t].seen = balance[u]]
    /\ UNCHANGED <<balance, frozen, peak>>

CoversSlip(b, f, amount) == b >= amount
Covers(b, f, amount) == b - f >= amount

\* The first load of frozen, and the one after a failed exchange: both are
\* checked against the balance loaded at the beginning of the call.
FreezeLoadsFrozen(t, u, amount) ==
    /\ At(t, "freeze frozen")
    /\ IF Covers(call[t].seen, frozen[u], amount)
       THEN call' = [call EXCEPT ![t].at = "freeze swap", ![t].expected = frozen[u]]
       ELSE Return(t, "no")
    /\ UNCHANGED <<balance, frozen, peak>>

SwapsSlip(t, u) == TRUE
Swaps(t, u) == frozen[u] = call[t].expected

FreezeSwaps(t, u, amount) ==
    /\ At(t, "freeze swap") /\ Swaps(t, u)
    /\ frozen' = [frozen EXCEPT ![u] = call[t].expected + amount]
    /\ Return(t, "yes")
    /\ UNCHANGED <<balance, peak>>

\* Another thread was first, or the weak exchange failed for no reason.
FreezeSwapFails(t, u) ==
    /\ At(t, "freeze swap")
    /\ call' = [call EXCEPT ![t].at = "freeze frozen", ![t].expected = 0]
    /\ UNCHANGED <<balance, frozen, peak>>
-----------------------------------------------------------------------------
(* unfreezeBalance.  Whether the loop gave anything back is not reported.  *)

UnfreezeLoads(t, u, amount) ==
    /\ At(t, "unfreeze")
    /\ IF amount > 0 /\ frozen[u] > 0
       THEN call' = [call EXCEPT ![t].at = "unfreeze swap", ![t].expected = frozen[u]]
       ELSE Return(t, "yes")
    /\ UNCHANGED <<balance, frozen, peak>>

UnfreezeSwaps(t, u, amount) ==
    /\ At(t, "unfreeze swap") /\ Swaps(t, u)
    /\ frozen' = [frozen EXCEPT ![u] = Available(call[t].expected, amount)]
    /\ Return(t, "yes")
    /\ UNCHANGED <<balance, peak>>

UnfreezeSwapFails(t, u) ==
    /\ At(t, "unfreeze swap")
    /\ call' = [call EXCEPT ![t].at = "unfreeze", ![t].expected = 0]
    /\ UNCHANGED <<balance, frozen, peak>>
-----------------------------------------------------------------------------
(* setBalance and updateBalance: one store, or one exchange that succeeds. *)
(* Neither looks at what is frozen.                                        *)

Larger(a, b) == IF a > b THEN a ELSE b

SetBalance(u, b) ==
    /\ b <= MaxBalance
    /\ balance' = [balance EXCEPT ![u] = b]
    /\ peak' = [peak EXCEPT ![u] = Larger(peak[u], b)]
    /\ UNCHANGED <<frozen, call>>

Allowed(b) == b >= 0

UpdateBalance(u, delta) == Allowed(balance[u] + delta) /\ SetBalance(u, balance[u] + delta)
-----------------------------------------------------------------------------
CheckBalance(t, u, amount) == CheckLoadsBalance(t, u) \/ CheckLoadsFrozen(t, u, amount)

Freeze(t, u, amount) ==
    \/ RefusesAmount(t, amount) \/ FreezeLoadsBalance(t, u, amount)
    \/ FreezeLoadsFrozen(t, u, amount)
    \/ FreezeSwaps(t, u, amount) \/ FreezeSwapFails(t, u)

Unfreeze(t, u, amount) ==
    UnfreezeLoads(t, u, amount) \/ UnfreezeSwaps(t, u, amount) \/ UnfreezeSwapFails(t, u)

AccountStep(t, u, amount) ==
    CheckBalance(t, u, amount) \/ Freeze(t, u, amount) \/ Unfreeze(t, u, amount)

Steps == {"check balance", "check frozen", "freeze", "freeze frozen", "freeze swap",
          "unfreeze", "unfreeze swap"}

AccountTypeOK ==
    /\ balance \in [Users -> 0 .. MaxBalance] /\ peak \in [Users -> 0 .. MaxBalance]
    /\ frozen \in [Users -> Nat]
    /\ call \in [Threads -> [at : Steps \cup {"out", "yes", "no"}, seen : 0 .. MaxBalance,
                             expected : Nat]]
=============================================================================
