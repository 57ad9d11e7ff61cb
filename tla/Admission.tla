-------------------------------- MODULE Admission --------------------------------
(***************************************************************************)
(* RateLimiter (src/core/rate_limiter.cpp) and the way an order takes      *)
(* through ProductionMatchingEngine (matching_engine_production.cpp) and   *)
(* ProductionMatchingEngineV2 (..._v2.cpp): the checks, the two buckets,   *)
(* the log of the engine's persistence and the counters it reports.        *)
(*                                                                         *)
(* A bucket counts in units of a hundredth of a token or the like, and the *)
(* clock in steps of which PerMs make a millisecond, the unit the code     *)
(* truncates to.  One thread calls the engine, as in production_main.cpp.  *)
(* An entry counts as logged when the persistence, or V2's queue to it,    *)
(* has taken it; what becomes of it then, and of a task that finds the     *)
(* queue full, is in ProductionEngine.                                     *)
(***************************************************************************)
EXTENDS Integers, Sequences, FiniteSetsExt

CONSTANTS
    Users,
    Token,          \* units a request consumes
    GlobalRate, GlobalBurst,    \* units per ms, units
    UserRate, UserBurst,
    PerMs, MaxClock,            \* bound of the clock
    MaxCalls,                   \* bound of the calls
    Versions                    \* subset of {"V1", "V2"}

All == 0            \* the default bucket of the global limiter
Buckets == {All} \cup Users

ASSUME LimitAssumption ==
    /\ All \notin Users /\ Users \subseteq Nat
    /\ {Token, PerMs} \subseteq Nat \ {0}
    /\ {GlobalRate, GlobalBurst, UserRate, UserBurst, MaxClock, MaxCalls} \subseteq Nat

VARIABLES
    version, clock,
    tokens, last_update,    \* per bucket
    orders_received, orders_processed,
    orders_rejected,        \* orders_errors in V1
    reasons,                \* the refusals; V1 has a counter for each reason, V2 none
    stage, user,            \* where the call is, and whose order it is
    writing, logged,        \* the persistence accepts entries; those it has
    shutting_down_,
    granted,                \* history: requests each bucket granted
    last_call               \* history: [bucket, since, allowed] of the last request, in a set

limiterVars == <<tokens, last_update, granted, last_call>>
counterVars == <<orders_received, orders_rejected, orders_processed, reasons>>
stopVars == <<shutting_down_, writing>>
admissionVars == <<version, clock, limiterVars, counterVars, stage, user, logged, stopVars>>

Rate(b) == IF b = All THEN GlobalRate ELSE UserRate
Burst(b) == IF b = All THEN GlobalBurst ELSE UserBurst

\* A user's bucket is made full by its first request; full from the start is the same.
AdmissionInit ==
    /\ version \in Versions /\ clock = 0
    /\ tokens = [b \in Buckets |-> Burst(b)] /\ last_update = [b \in Buckets |-> 0]
    /\ orders_received = 0 /\ orders_rejected = 0 /\ orders_processed = 0 /\ reasons = 0
    /\ stage = "idle" /\ user = All
    /\ writing = TRUE /\ logged = 0 /\ shutting_down_ = FALSE
    /\ granted = [b \in Buckets |-> 0] /\ last_call = {}
-----------------------------------------------------------------------------
(* RateLimiter *)

\* The time since the last request counts in whole milliseconds, and what is dropped
\* is dropped for good: last_update moves to now.
Elapsed(b) == (clock - last_update[b]) \div PerMs

Refilled(b) == Min({Burst(b), tokens[b] + Elapsed(b) * Rate(b)})

StampSlip(b) == last_update[b]
Stamp(b) == clock

Allow(b, allowed) ==
    /\ allowed <=> Refilled(b) >= Token
    /\ tokens' = [tokens EXCEPT ![b] = Refilled(b) - IF allowed THEN Token ELSE 0]
    /\ last_update' = [last_update EXCEPT ![b] = Stamp(b)]
    /\ granted' = [granted EXCEPT ![b] = @ + IF allowed THEN 1 ELSE 0]
    /\ last_call' = {[bucket |-> b, since |-> clock - last_update[b], allowed |-> allowed]}
-----------------------------------------------------------------------------
(* process_order_production and process_order_production_v2 *)

Accepting == ~shutting_down_

\* A call that finds the engine shutting down throws before it counts anything.
Receive(u) ==
    /\ stage = "idle" /\ Accepting /\ orders_received < MaxCalls
    /\ user' = u /\ stage' = "validate"
    /\ orders_received' = orders_received + 1
    /\ UNCHANGED <<version, clock, limiterVars, orders_rejected, orders_processed, reasons, logged,
                   stopVars>>

\* V1 counts the reason and then an error.  V2 counts a rejection where it is found
\* and again where it is caught.
Rejections == IF version = "V2" THEN 2 ELSE 1

Refuse ==
    /\ stage' = "idle"
    /\ orders_rejected' = orders_rejected + Rejections
    /\ reasons' = reasons + 1
    /\ UNCHANGED <<orders_received, orders_processed>>

\* The validator of V1 is never made: both versions do the basic checks.
Validate(valid) ==
    /\ stage = "validate"
    /\ IF valid THEN stage' = "global" /\ UNCHANGED counterVars ELSE Refuse
    /\ UNCHANGED <<version, clock, user, limiterVars, logged, stopVars>>

\* The token of the global bucket is gone even if the user's own bucket refuses.
CheckGlobal(allowed) ==
    /\ stage = "global" /\ Allow(All, allowed)
    /\ IF allowed THEN stage' = "user" /\ UNCHANGED counterVars ELSE Refuse
    /\ UNCHANGED <<version, clock, user, logged, stopVars>>

\* The balance and position checks of V1 and the cached one of V2 find nothing to
\* check against and pass.
CheckUser(allowed) ==
    /\ stage = "user" /\ Allow(user, allowed)
    /\ IF allowed THEN stage' = "process" /\ UNCHANGED counterVars ELSE Refuse
    /\ UNCHANGED <<version, clock, user, logged, stopVars>>

\* While the persistence shuts down it may still take an entry or lose it.
Process ==
    /\ stage = "process"
    /\ stage' = "idle"
    /\ orders_processed' = orders_processed + 1
    /\ logged' \in {logged + 1} \cup (IF writing THEN {} ELSE {logged})
    /\ UNCHANGED <<version, clock, user, limiterVars, orders_received, orders_rejected, reasons, stopVars>>

\* What else is thrown on the way becomes a SystemException and an error.
ProcessFails ==
    /\ stage = "process"
    /\ stage' = "idle"
    /\ orders_rejected' = orders_rejected + 1
    /\ UNCHANGED <<version, clock, user, limiterVars, orders_received, orders_processed, reasons,
                   logged, stopVars>>
-----------------------------------------------------------------------------
\* shutdown flushes and stops the persistence, also while a call is in progress; a
\* second call returns at once.
Shutdown ==
    /\ ~shutting_down_
    /\ shutting_down_' = TRUE /\ writing' = FALSE
    /\ UNCHANGED <<version, clock, limiterVars, counterVars, stage, user, logged>>

Tick ==
    /\ clock < MaxClock
    /\ clock' = clock + 1
    /\ UNCHANGED <<version, limiterVars, counterVars, stage, user, logged, stopVars>>

AdmissionNext ==
    \/ \E u \in Users : Receive(u)
    \/ \E ok \in BOOLEAN : Validate(ok) \/ CheckGlobal(ok) \/ CheckUser(ok)
    \/ Process \/ ProcessFails \/ Shutdown \/ Tick

AdmissionSpec == AdmissionInit /\ [][AdmissionNext]_admissionVars
-----------------------------------------------------------------------------
\* Type correctness; a bucket holds between nothing and its burst.
AdmissionTypeOK ==
    /\ version \in Versions /\ clock \in 0 .. MaxClock
    /\ \A b \in Buckets : tokens[b] \in 0 .. Burst(b) /\ last_update[b] \in 0 .. clock
    /\ {orders_received, orders_rejected, orders_processed, reasons, logged} \subseteq Nat
    /\ stage \in {"idle", "validate", "global", "user", "process"} /\ user \in Buckets
    /\ writing \in BOOLEAN /\ shutting_down_ \in BOOLEAN

\* RateLimiter over any pattern of requests: from the start to any moment a bucket
\* grants no more than its burst and its rate times the time passed.
RateKept ==
    \A b \in Buckets : Token * granted[b] <= Burst(b) + Rate(b) * (clock \div PerMs)

\* refill: a bucket left alone for the time one token takes grants the next request.
\* (One asked more often than every millisecond is never refilled.)
QuietRefills ==
    \A c \in last_call :
        Burst(c.bucket) >= Token /\ (c.since \div PerMs) * Rate(c.bucket) >= Token => c.allowed

\* The counters of both engines, between calls: an order received was processed or
\* counted as an error; V2 counts a refused one twice.
CountersAddUp ==
    stage = "idle" =>
        orders_received + (IF version = "V2" THEN reasons ELSE 0) = orders_processed + orders_rejected

\* Shutdown against a call in progress: the one order that was past the check is
\* processed and not logged, and no other.
ProcessedIsLogged ==
    orders_processed - logged \in 0 .. (IF shutting_down_ THEN 1 ELSE 0)

\* The way of an order through the production engines: the buckets keep their rates
\* and refill, the counters add up, and all that was processed is in the log but the
\* one order a shutdown overtakes.
AdmissionSound ==
    AdmissionTypeOK /\ RateKept /\ QuietRefills /\ CountersAddUp /\ ProcessedIsLogged
=============================================================================
