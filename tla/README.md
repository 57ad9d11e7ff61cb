# Verification of the perpetual exchange

TLA+ models of the exchange in this repository, the TLC configurations that
check them on small instances, and proofs that TLAPS checks for every value of
the constants.  Every definition is translated from the C++ sources; `PROJECT.json`
maps each one to the lines it stands for.

Run `tlc -config <X>.cfg <Module>` for a run of the table below, `tlapm <Module>.tla`
for the proofs.

## 1. The system

The exchange is one matching engine per instrument with services around it.  The
repository has several engines side by side: a reference engine on a red-black
tree, variants on a radix tree (ART), with SIMD, with asynchronous persistence,
with a write-ahead log, with event sourcing.

| Component | State it keeps | Operations | What is hard about it |
|---|---|---|---|
| `OrderBookSide`, `OrderBook` (orderbook.cpp) | red-black tree of orders, map by id, price levels with linked lists and totals | insert, remove, update_quantity, best_order, find_order, get_depth | pointer surgery; deletion repair; totals that must follow quantities changed elsewhere; readers take no lock |
| `MatchingEngine` (matching_engine.cpp) | the book, `orders_` (ownership), `user_orders_`, sequence and volume counters | process_order, cancel_order, cancel_all_orders | sweeps over many resting orders; ownership by an id the caller chose; fields of destroyed orders; status set in one place and overwritten in another |
| `LockFreeMPMCQueue`, `LockFreeSPSCQueue` (lockfree_queue.h) | ring of slots, two counters | push, pop | claims and stores of several threads interleave; full and empty |
| `AsyncPersistenceManager` (persistence_async.cpp) | queue, worker thread with its batch, log stream | persist…Async, flush, start, stop | worker and flush compete for items; stop against a blocked worker |
| `MatchingEngineOptimizedV3` | trade batch and its mutex in front of the asynchronous persistence | process_order_es, processOrderBatch, start, stop | the mutex kept over a push that waits; order of stop and the last batch; a batch handed over twice |
| `OptimizedPersistenceManager` (persistence_optimized.cpp) | two SPSC queues, writer thread with two buffers, two files | logTrade, logOrder, flush, shutdown | check of the shutdown flag before a push; buffered entries; full queues drop |
| `ProductionMatchingEngineV2`, `V3` | task queue and worker in front of that; V3 adds a log and a flush thread | process_order_production_v2, process_order_safe, shutdown, recover_from_wal | order of the shutdowns; what is durable when the caller is answered |
| `MatchingEngineEventSourcing`, `EventStore` | the engine, the event log, snapshots | process_order_es, cancel_order_es, replay_events, append_event, get_events | replay must reproduce the state; write and read formats |
| Advanced event sourcing (event_sourcing_advanced.cpp) | compressor, replication queue, stream processor with its views, versions of events; three worker threads | compress_events, append_event, process_new_events, migrate_to_version | locks taken twice; workers against destructors; an event counted before it is in the file; unsigned loops |
| `MatchingService` (gRPC) | one engine per instrument | ProcessOrder, CancelOrder, depth | handler threads share an engine; lifetime of the order object |
| `TradingService` (gRPC) | orders by id, next id, balances (`AccountBalanceManager`) | SubmitOrder, CancelOrder, queries | two critical sections around a remote call; lost answers; restart of the id counter |
| `TradingServiceCQRS` | write side through events, read views | SubmitOrder, CancelOrder, queries, start, stop | views nothing fills; a worker that outlives its store |
| ART order books and engines | hash map of levels, radix tree of their addresses, level lists | as the reference engine | a leaf that keeps no key; two structures changed one after the other |
| Order validation, `RateLimiter`, production engines V1 and V2 | buckets, counters, a log | validate_order, allow, process_order, shutdown | truncated time; a flag read once at the start of a call |
| `Account`, `Position`, `DeterministicCalculator` | balances, a position, none | deposit … update_account_after_trade, add, reduce, pure functions | refused withdrawals nobody asks about; products that overflow; packed keys |
| `FundingRateManager` and the main loop | rates, premium index, next settlement | calculateFundingRate, updatePremiumIndex, settleFunding | the clock is read outside the lock; a lock taken twice |
| `AuthManager`, `APIGateway`, `RESTAPIServer` | users under three maps, keys under two, routes, limits, one thread per connection | register, login, verify, revoke, handleRequest, start, stop | shared counters; a table that reads change; stop against a blocked accept |
| Market data, monitoring, database, configuration, logging | caches, tables, files | I/O | outside the exchange's own logic |

How they interact.  A client reaches `TradingService`, which freezes balance and
calls `MatchingService`, which calls the engine of the instrument.  The engine
calls the book and reports trades through callbacks, or returns them.  The
production engines hand orders and trades to a persistence component, whose own
thread writes the files.  The callbacks run on the caller's thread, in the middle
of `match_order`; the queues are the only path between threads.

What makes each correct:

* **Book side**: `best_order` is the first resting order in price-time order, no
  operation cuts resting orders off, and the price levels list and total them.
* **Engine**: quantities are conserved; a trade respects both limits; the book is
  never crossed; orders trade in price-time priority; what rests is what is owned
  and indexed; an ended order stays ended.
* **Persistence**: each record handed over is written once, in its order; a call
  described as bounded or non-blocking ends; flush and stop leave nothing behind.
* **Services**: what is frozen is what open orders need; an order refused or
  cancelled gives its margin back once; the stored order agrees with the engine's.
* **Event sourcing**: the log alone tells what the live engine holds; workers hand on each
  event once, in order, and end when they are told to.
* **Clearing**: balances explain one another; averages lie among the prices traded; order
  and symmetry survive fixed-point arithmetic.
* **Entry**: limits hold in every window, what passes was entitled to, what was revoked
  stays revoked.

## 2. Modules

| Module | Models | Corresponds to |
|---|---|---|
| `Orders` | the vocabulary of all engines and the list of a price level, no state | types.h, order.h, the order lists of both books; `KeyBefore` is the comparison the tree inserts by, `CanMatch` is `can_orders_match` |
| `OrderBookSide` | the **promise** of one side of the book: a set of orders that offers its first one | orderbook.h |
| `OrderBookTree` | the red-black tree, the order map and the price levels, pointer by pointer | orderbook.cpp, class `OrderBookSide`; one action per turn of each loop |
| `ArtBook` | the book on a radix tree and the two engines on it | art_tree.cpp, orderbook_art.cpp, matching_engine_art.cpp and the SIMD variants |
| `MatchingEngine` | the engine over a book at its promise, which it is shown to keep to (`BookAsPromised`) | matching_engine.cpp |
| `MpmcQueue` | the lock-free ring, one atomic operation per step | lockfree_queue.h, `LockFreeMPMCQueue` |
| `AsyncPersistence` | producers, worker and owner around that ring | persistence_async.cpp |
| `OptimizedV3` | extends `AsyncPersistence` with the engine that collects trades in front of it, its start and stop | matching_engine_optimized_v3.cpp |
| `BoundedFifo` | the **promise** of the single-producer ring: a queue of at most `Room` items whose consumer sees the first one while its pop lasts | lockfree_queue.h, `LockFreeSPSCQueue` |
| `SpscQueue` | that ring, position by position | the same; implements `BoundedFifo` (`ActsAsFifo`) |
| `OptimizedPersistence` | two queues at their promise, the writer thread with its two buffers and files, flush and shutdown | persistence_optimized.cpp |
| `ProductionEngine` | composes `OptimizedPersistence` and `SpscQueue`: the engine's thread, the worker, the flush thread, the log and the two shutdowns | matching_engine_production_v3.cpp over _v2.cpp, wal_simple.cpp |
| `EventSourcedEngine` | the engine that writes its history to an event log, its handlers, callers that destroy their orders, crash and restart | matching_engine_event_sourcing.cpp, event_sourcing.cpp, deterministic_calculator.cpp |
| `EventReplication`, `EventStreams`, `EventCompression`, `EventVersions` | the worker threads on top of the event log and the versions of events | event_sourcing_advanced.cpp; the read side of trading_service_cqrs.cpp |
| `AccountBalances` | the atomics of the balances, one access per step | account_manager.cpp |
| `TradingService` | composes `AccountBalances` with the requests of gRPC threads, the maps of orders and a remote engine whose answers may be lost | trading_service.cpp, trading_service_cqrs.cpp, the handlers of matching_service.cpp |
| `ClearingAccount`, `Positions` | an account, a position | account.cpp, position.cpp |
| `DeterministicCalculator` | its pure functions, over their arguments | deterministic_calculator.cpp |
| `Admission` | the buckets of the limiter and the way of an order through the checks | rate_limiter.cpp, matching_engine_production.cpp, _v2.cpp |
| `FundingRates` | rates, index and settlements with the loop that asks for them | funding_rate_manager.cpp, funding_rate.cpp, production_service_main.cpp |
| `Auth`, `ApiGateway`, `RestServer` | users, tokens and keys; the gateway over them; the server's threads | auth_manager.cpp, api_gateway.cpp, rest_api_server.cpp |
| `SumTheorems` | lemmas about sums over finite sets | |
| `…Proofs` | theorems: `MatchingEngineProofs`, `TradingServiceProofs`, `EventSourcedEngineProofs` about the module they are named after; `AsyncPersistenceProofs` about the queue, the persistence and V3; `ProductionEngineProofs` about the ring and the engine; `TradingServiceProofs` also about the four modules of event_sourcing_advanced.cpp; `OrderBookProofs` about the levels, the tree and what it offers, and about the ART books; `ServicesProofs` about accounts, positions, calculator, admission, funding and the entry | |
| `MC…` | sets and definitions TLC needs, and the composition of parts a run checks together | |

Definitions named `…Slip` are the neighbouring definition with one plausible
mistake.  No specification uses them: they exist so that each property can be
shown to notice a mistake in the code it is about.

A run that checks several parts which share no state has a variable `subject`: it says
which part a behaviour is about, the others keep their first state.  That is no
interleaving lost, since no action of one part reads what another writes.

### MatchingEngine

The state has the members' names: `orders_` maps an id to the object owned under
it, `user_orders_` a user to the ids indexed for it, `price_levels_` a price to the
level's total, `book` stands for the two trees.  An `Order` object is a number,
its fields a record; `freed` holds the objects that have been destroyed, because
erasing from `orders_` destroys the object and the code reads fields of it
afterwards.  What such a read sees is left open (`RemoveOrderFromBook` may or may
not find the id it purges).  `Defined` guards every action: once the tree links a
destroyed order the program has no defined behaviour and the model stops.

`process_order` is `ProcessOrder` (construction, validation, sequence), then one
`Match` per turn of `match_order`'s loop, then `FinishOrder` (final status, rest or
not); `cancel_all_orders` is `CancelAllOrders` and one `CancelNext` per id.  The
steps of one call are not interleaved with other calls: `pc` returns to `idle`
first, as with the single caller of `main.cpp`.  The turns are steps of their own
since callbacks see the engine between them.

Each side of `book` is an `OrderBookSide` (`BookAsPromised`): its orders are their keys,
price, timestamp and number, and what it offers is the order `IsBest` names, which
`match_order` asks for in every turn.  A key is one of finitely many because a timestamp is
the sum of at most `MaxOrders` ticks (`Moments`).  `OrderBookTree` implements the
same `OrderBookSide`, until it is `lame`: up to then the tree may stand for the set the
engine is modelled with.

### OrderBookTree

`left`, `right`, `parent`, `color`, `root_` are the pointers, `Nil` the sentinel.  The
two mirror images of the repairs are one definition with a `near` side.  The
sentinel's parent pointer is never set by the code's guarded assignments, and its
colour and children can be overwritten by `fix_delete`; the model keeps both.  `lame`
is a history variable: it turns true when `fix_delete` takes the sentinel for a
sibling.  Up to then the tree refines `OrderBookSide` (`OffersBest`); from then on it
may not (`tree_lost`).

### ArtBook

The price levels are in a hash map (`price_levels_`), the tree is to give the best of them.
A leaf of the tree keeps its value and not its key, and `find` of a tree that is one
leaf answers any key with it; so the book, which inserts only a price `find` does not
know, never inserts a second one, and the inner nodes are never built.  The tree is
therefore "empty or one leaf" in the model, as it is in every execution of these
engines.  `min_key` and `max_key` return what the leaf keeps, the address of a level, as
a price: `Addresses` gives every relation an address may have to the prices.  No
maker is ever found; what `ArtSound` says of the books is what holds nevertheless (levels
and depth agree with the orders at rest, the leaf names a level that is there, orders
at a price stay in their order of arrival), and `NoMakerFound` states the consequence.
Both engines are in one module; `engine` says which is built.

### MpmcQueue and AsyncPersistence

`push` claims a position, then spins until its slot is empty; `pop` claims one, then
spins until its slot is full.  Claims and stores are separate steps of the thread
that runs them.  A slot can be waited for by two pushes whose positions differ by
the capacity; `lapped` records that this happened, since from then on arrival order
is not kept.

The worker's program is `WorkerTop`, `WorkerPop`, `WorkerTake`, `PersistOrders`,
`PersistTrades`; the owner's `Start`, `Flush`…`FlushEnd`, `Stop`, `Join`, `Initialize`.
`pop` has no way to return false, so the code after the worker's inner loop runs
only for a worker that finds `running_` already false; the model has that path.
The log is what was written to the stream, `flushed` how much of it has left the
stream's buffer (the stream may write out more at any time: `Spill`).

`OptimizedV3` puts the engine in front.  `client` says who calls the manager: threads
directly, as its users may, or the engine.  An order that traded (`ProcessOrder`) appends its
trades to `trade_batch_` (`PersistTradesBatch`); when that is full it is handed over as one
item, and `batch_mutex_` is kept until the push returns (`BatchHandedOver`), however long the
ring is full.  `BeginBatch` and `EndBatch` are processOrderBatch around any number of orders;
its end hands over once more what the orders have collected already (`AllHandedOver`).
`StartEngine` is start; `StopEngine`, `StopHandsOver`, `StopFlushes` and `StopEnds` are stop,
which hands over what is left, flushes and stops the manager.  `contents` tells what trades
each item holds, `late` which trades were batched while the engine was not running.

### SpscQueue, OptimizedPersistence and ProductionEngine

`push` and `pop` of the single-producer ring are two steps each, because the slot
and the position are two accesses: `PushFill`/`PushPublish`, `PopCopy`/`PopRelease`.
`filled` and `taken` say that a side is between its steps.

`OptimizedPersistence` starts in the state `initialize` leaves.  `LogCheck` reads the
flags, `LogPush` pushes or drops: between the two the manager may be shut down.
The writer's turn is `DrainTrade`…, `DrainOrder`…, then `WriteBatches` or `Hold`, then
`NextTurn` or `LastWrite`.  How much time has passed is left open, except that the
sleep at the end of `flush` (longer than the writer's interval) lasts until the
writer has come to its wait.  One thread logs: V2's worker in `ProductionEngine`,
the caller of `flush` in `persistence_benchmark.cpp` for the run of the module
alone.  The two log queues are at the promise of `BoundedFifo`; that they are such
queues is `RingIsFifo`.

In `ProductionEngine` order n is the n-th one sent and `TradesOf` fixes how many
trades it makes; whether the checks of V2 accept it is open (`RefuseOrder`), since
the order is in the log before any of them.  `process_order_safe` is `AppendToWal`,
`TakeOrder`, the push to the task ring or `DropTask`, `AddToBatch`.  The worker pops a
task, releases its slot and logs its entries one at a time.  `flush_worker` is
`Collect`, `Sync` or `SyncFails`, `MarkCommitted`; an fsync that succeeds is taken to cover
everything appended before it.  `shutdown` runs on a thread of its own at any
moment: `Shutdown` and `FlusherJoined` are V3's part, `StopWorker` and `WorkerJoined`
V2's, the rest is `OptimizedPersistenceManager::shutdown`.  `overlap` remembers that
an order was processed while shutdown ran; such an order's task may stay in the
ring, and the promise of `ShutdownWritesAll` is not made for it.

### EventSourcedEngine

`process_order_es` is `ProcessOrderEs` (validation, the sequence read from the store),
`PlaceOrder` (the event), per turn of the loop `Match` (fills and ORDER_MATCHED) and
`ReportTrade` (TRADE_EXECUTED, statistics, removal), then `FinishOrder`.  `log` is the
file: every append is flushed, so a crash between two steps keeps it.  `Restart` is the
next process: the type of an event is written as a character and read with `stoul`,
so `initialize` throws on any log that is not empty and no engine comes up (`down`).
`cancel_order_es` only ever refuses, since `process_order_es` fills no `orders_`.
`DestroyOrder` is a caller whose order goes out of scope, as in `MatchingService`; the
model stops when the book links such an order (`Defined`).  The order ids are the
numbers of the objects: a caller that repeats one loses the order, as `insert_order`
refuses it and its answer is only tested.  Deterministic mode only, which every
program sets.

What the log promises is stated on the log alone: `LeftAfter` and `RestingAfter` fold it,
`MatchesFollowFromLog` checks each match in it against the fold of what came before.
This is the abstract specification of event sourcing, as an audit.

The pure functions of the calculator that clearing uses are `DeterministicCalculator`.

### EventReplication, EventStreams, EventCompression and EventVersions

The four parts of event_sourcing_advanced.cpp.  `EventReplication`: an appender writes an
event under the log's mutex and queues it under another (`QueueForReplication`); the
worker takes a batch, hands it on, sleeps; the destructor joins it.  `replicate_event`
sends nothing yet, so the model keeps which events it is called for and in which order.

`EventStreams` is the stream processor under both of its owners, `CQRSManager` and
`TradingServiceCQRS` (`reader`).  `CountEvent` and `WriteEvent` are the two halves of
`append_event`: a stream that looks between them sees a sequence whose event is not in
the file.  As no event can be read back (below), `get_events` throws as soon as the
file has one; a worker that throws ends the program.  `closing` is the destructor that
deletes the store.

`EventCompression`: callers and the background worker of `compress_events`.  The worker
calls it with the mutex it needs: `compressor = "self"` is the worker that waits for
itself.  Sequences are unsigned, so in a log shorter than the interval `CompressTo` wraps
round to nearly the largest number, and the worker gets there at once.  `EventVersions`:
schemas, and the path of a migration, whose counters are unsigned as well.

### AccountBalances and TradingService

`AccountBalances` is a library of calls: a thread is in at most one of them, and each
step makes one access to one atomic, so that balance and frozen margin are loaded at
different times and the compare-exchange loops fail and retry as in the code.

`TradingService` is what a gRPC thread does around them: `check`, `freeze`, `call` (the
request is lost, or the engine takes the order and the reply is lost or not), `store`,
`update`, `accept`, or `give back`.  Storing, and updating, are two critical sections of
`orders_mutex_`, and `QueryUserOrders` is another.  `deployed` says which service runs: the
CQRS variant does the same with the balances and stores nothing.  A payment (`Pay`) is
`updateBalance`, whose loop comes down to the one exchange that succeeds; the services
never fund an account, programs and tests do.  A MARKET order with price 0 freezes nothing,
which `freezeBalance` refuses.  `CancelOrder` always is refused, since the matching
service's engine finds no order to cancel.

### ClearingAccount, Positions, DeterministicCalculator, Admission and FundingRates

`ClearingAccount`: one account under every call there is, refusals included
(`update_account_after_trade` does not look at them).  `Positions`: a position under trades
and valuations; a `Width` of real size would put the overflow of the cost out of sight,
here `MaxInt` stands for 2^63 and the model follows a position to its first overflow
(`overflowed`).  With the real scales that is 0.2 contracts at a price of 50000.
`DeterministicCalculator` has no state: its variables are the arguments, and every
argument is a state.

`Admission`: the token buckets count in fractions of a token and the clock in fractions
of a millisecond, because `refill` cuts elapsed time to whole milliseconds and then takes
the exact moment.  One order at a time passes the stages `validate`, `global`, `user`,
`process`; `shutdown` may come between any two.  `version` is V1 or V2.

`FundingRates`: the main loop of production_service_main.cpp (sleep, count to
`CheckEvery`, read the next settlement under the lock, then the clock, settle) and threads that
call `calculateFundingRate` and `updatePremiumIndex`; the latter only when `Indexed`, since it never
comes back (`premium_index`).  `settleFunding` pays nobody.

### Auth, ApiGateway and RestServer

`Auth`: each method is one critical section, so one action; `jwts` are the tokens logins
gave out, `issued` remembers when.  `ApiGateway` extends it: a request finds its route, then
is authenticated, authorized and limited in separate steps, so users may log in and
time pass in between; counters are per address and shared by routes, as in the code.
`RestServer`: the socket is the kernel's (external); the acceptor may be blocked in `accept` when
`stop` closes it.  `route_auth_required_` is read with `operator[]`, which inserts a missing
route: two threads that insert at once have no defined behaviour, and `race` remembers
that this came to be.  The REST server does not call the gateway.

## 3. Runs

| Run | Instance | What it shows |
|---|---|---|
| `engine` | 2 users, 3 orders, 2 prices, quantities 0–2, LIMIT, MARKET, FOK | conservation, ownership and index (`OrdersAccountedFor`), limits and taker flags (`TradesSound`), volume and levels (`TotalsCover`), an uncrossed book, cancel-all and endedness (`EndsRespected`), priority; each side of the book used as `OrderBookSide` promises (`BookAsPromised`) |
| `order_books` | tree: 5 orders, 3 at one price, quantities 1–2; ART: 3 orders, prices 0, 2 and 3, addresses below, between and above them | the tree implements the set until `lame`, is well linked and loses no order; levels agree always; both ART books hold their orders and their engines find no maker |
| `tree_lost` | 5 orders, 5 prices | the missing repair cuts resting orders off |
| `async` | 2 producers, 3 items, ring of 2, batch of 2, 2 starts; direct callers, and V3 with 2 trades, a trade batch of 2 and one call of processOrderBatch | every item in one place, log order (`RecordsReachLog`), progress of the queue (`QueueMoves`); V3 hands each trade over once, and once more by processOrderBatch, and stop leaves only late trades (`TradesHandedOver`) |
| `async_stop` | as `async`, direct callers | `stop` never returns |
| `production` | 2 orders with 1 and 2 trades, log buffers of 2, task ring of 2 slots | records keep their order and are written once, shutdown leaves nothing accepted behind (`RecordsKept`); commits cover what was synced; the task ring is a bounded queue; shutdown ends and commits come (`PipelineMoves`) |
| `event_sourcing` | 1 handler, 3 orders, 2 prices, quantities 0–2, LIMIT, MARKET, IOC, a crash anywhere | the log accounts for every lot and pairs trades with matches (`LogTellsAll`, no two orders with one sequence included), determines each match (`MatchesDetermined`) |
| `trading` | 1 user, 2 threads, balance 3, 2 orders, 2 payments, both deployments | frozen margin is that of the orders held (`MarginExplained`), never above what the account has had, and there for every order in the engine (`MarginCovered`); stored orders agree with the engine's answers and acknowledged ones are shown; every request is answered |
| `event_stores` | 2 appenders of 2 events, batch of 2; log of 4, 2 streams; 1 caller, 4 strategies, sequences of 4 bits; versions of 2 bits | replication once and in each appender's order; what a stream gets to read; counts that name files; migrations within what an event supports; the threads move and stop |
| `risk` | amounts −1 to 2; prices 2, 5, 9; 4-bit fixed point; buckets of 2 and 1 tokens; 14 seconds of the loop | balances, averages, sort keys and fees, rate limits and counters, settlement times |
| `premium_index` | the same funding manager, one thread updating the index | `updatePremiumIndex` never returns |
| `front` | 2 names, 2 addresses, 2 keys; 2 gateway threads, 3 routes; 2 connections, 2 starts | maps of users agree, tokens and keys mean what they say; limits and rights at the gateway; protected routes, one acceptor, connections that end |

Why the bounds are enough.  Three orders give a taker that sweeps two resting
orders, a partly filled maker that trades again, a rejected order among accepted
ones, and cancellation of each; two prices give better and worse; quantities 1
and 2 give partial fills on both sides.  The tree needs five nodes: with four,
the sentinel is never a sibling in a harmful place (`BestOrderRight` holds), with
five every case of both repairs occurs.  In the ART book three orders give a level of
several and a second level while the leaf names the first; an address may equal no
price, and whether it lies below or above decides what the loop's comparison says.
A ring of two slots with three items makes
positions wrap and producers lap each other; a batch of two makes full, late and
partial batches.  In front of them two trades and a trade batch of two make a batch filled by
one order, by two threads' orders, and a partial one that stop hands over.  In `production` the second order fills or misses a task ring with
one usable slot, whose positions wrap; buffers are written full, partly full and at the
end.  `MaxIterations` is not below the number of orders in the passing
run; see the limits in section 5.

In `event_sourcing` three orders give two makers that compete for a taker, a taker
whose remainder rests and trades again, and rejected orders between accepted ones.
One handler, because nothing in the engine keeps two apart: with two, `match_order`
races on the tree and has no defined behaviour; with two in `Handlers` TLC finds two orders
with one sequence even before they meet there.

In `trading` two threads are enough for every pair of calls to interleave, and a balance of 3 for
two orders that fit one by one and not together; payments in and out make the peak
differ from the balance.  In `event_stores` two events per appender and a batch of two
make a batch full, short, and of both appenders; a log longer than interval plus
retention makes `CompressTo` fall on both sides of every comparison; two bits of a version
contain the first and the last number.  In `risk` a bucket may fill, empty and be left alone
for the time of a token within the clock's bound; the loop has time for three
settlements; sizes reverse a position twice.  In `front` a token expires, a key
is created and revoked among others, two threads reach the limit of a route together, and a
server that stopped starts again while old connections are still served.

Deadlock is checked in `event_sourcing`, where a restart is always possible, and not in
the other runs: each bounds the number of calls, and nobody has to call.

### Disagreements found

1. **Deletion repair** (`tree_lost`): orderbook.cpp:164 repairs only for a real child.
2. **stop** (`async_stop`): the worker spins in `pop`; the second of polling looks at
   `joinable()`, which is true until `join`.
3. **Premium index** (`premium_index`): `updatePremiumIndex` calls `calculateFundingRate` with the
   `std::mutex` it takes again; the unit test that calls it cannot come to its assertion.

Seen while modelling, without a run of their own:

* Engine: a FOK order keeps a partial fill and an IOC remainder keeps PENDING or
  PARTIAL_FILLED, against ARCHITECTURE.md:31-32; `execute_trade` does not tell the level, so traded
  quantity stays in `best_quantity` and `get_depth`; the branch at matching_engine.cpp:45 rests an
  order with a used id without owning it; a maker that was partly filled keeps PENDING;
  `user_orders_` may keep ids of orders that are gone; a taker that meets 10000 resting
  orders rests crossed.
* ART books: the tree never has more than one leaf, neither engine ever matches.
* Persistence: V3's processOrderBatch persists its trades twice, and trades that come after
  its stop stay in `trade_batch_`, since the destructor's stop returns early; a batch below BATCH_SIZE waits for the next item whatever the comment at
  persistence_async.cpp:185 says about a timeout; `AsyncPersistenceManager::flush` pops pending
  items into a dummy, though persistence_async.h:42 says it flushes them; `trades_persisted` counts
  items of any type; the optimized manager's `flush` may return with entries still in a
  buffer, and initialized again it writes the last buffers a second time; V3 answers before
  any fsync and `append` has none, which wal.h:24 claims.
* Event sourcing: the sequence is read and not taken, so two threads share one; no log can
  be read back, so `replay_events` throws where
  tests/unit/test_matching_engine_event_sourcing.cpp:76-77 expects true, and `cancel_order_es`
  returns false where line 96 expects true; ORDER_MATCHED, ORDER_CANCELLED and ORDER_REJECTED
  carry instrument 0; the compression worker waits for itself; `get_migration_path` has no
  end towards 0 and the largest version; a CQRS service that was initialized and never came up
  deletes the store its worker reads.
* Services: a lost reply gives margin back for an order that rests; no order can be
  cancelled; the CQRS views stay empty; V2 counts a rejected order twice.
* Clearing: a bucket asked more than once a millisecond never refills; the sign of the short
  side's profit differs between position.cpp:84 and :90; the product in
  `FundingRateCalculator` overflows when mark and index differ by more than about 9.2;
  `PositionManager::getPositionSize` is always 0, so `LiquidationEngine` never acts.
* Entry: the REST route "/api/v1/orders/*" is registered literally and no path matches it;
  `updateTrade` and `checkAlerts` lock a mutex they hold, and no program calls them.

## 4. Fairness

Only threads that are running are assumed to go on; nobody is obliged to call anything.

* `AsyncPersistence`: weak fairness of each push in progress, of the worker's next step and
  of the owner's next step inside stop or flush.  The spins of push and pop yield or burn a
  core but never block.  Below V3 the same holds of the push of a batch, the only thing done under
  `batch_mutex_`; nobody is obliged to process an order or to stop.  The stream's own write-out (`Spill`) has none.
* `ProductionEngine`: weak fairness of a call of the engine in progress, of the worker, the
  writer, the flush thread and a shutdown in progress, and strong fairness of `Collect`: the model
  leaves open in each turn whether the batch is old enough, the code's answer is yes for
  good after 10 ms.
* `TradingService`: weak fairness of each thread's next step, the end of a remote call
  included (gRPC calls fail or return), and strong fairness of the steps that wait for
  `orders_mutex_` or whose exchange another thread may undo (`Waits`): critical sections are
  short, and payments and requests are bounded.
* Event stores: weak fairness of the replication worker, of an appender between its two
  mutexes, of the join, of the stream's worker and of an append in progress; strong fairness
  of whoever waits for the compression mutex, since the worker gives it up for ten minutes
  at a time.
* `RestServer`: weak fairness of the acceptor, of the owner inside `stop` and of each
  connection's thread; a client that connected sends or gives up.
* `FundingRates` in `premium_index`: weak fairness of the recalculation and of the main loop.

The other modules have safety and action properties only.

## 5. Proofs

Every theorem is about a module's specification and holds for all values of its
constants.  "Assumes" names what goes beyond the ranges the modules give their constants.

| Theorem | Establishes | Assumes |
|---|---|---|
| `MatchingEngineProofs!TypeCorrect` | `[]TypeOK` | nothing: reused ids included |
| `TotalsKept` | `[]TotalsCover` | the same |
| `BookUsedAsPromised` | `BookAsPromised`: each side of the engine's book is an `OrderBookSide` | the same, and any clock |
| `BookConsistent` | `[]OrdersAccountedFor` | no id is used twice |
| `EndsKept` | `EndsRespected` | the same |
| `TradesFair` | `[]TradesSound` | the same |
| `BookStaysUncrossed` | `[]BookUncrossed` | the same, and `MaxOrders <= MaxIterations` |
| `PriorityKept` | `PriceTimePriority` | the same, and a clock that never steps back |
| `AsyncPersistenceProofs!RecordsStay` | `[]RecordsReachLog` | `NullAssumption`: the empty slot is no item |
| `EngineUsesPersistence` | V3 implements `AsyncPersistence!Spec` | `RoomAssumption`: the bound on items is no bound of V3 |
| `TradesAllHandedOver` | `[]TradesHandedOver` | the same |
| `ProductionEngineProofs!RingCorrect`, `RingIsFifo` | positions stay in the ring; the ring implements `BoundedFifo` | |
| `CommitsSynced` | `[]CommittedIsSynced` | `ProductionAssumption`: how orders are numbered |
| `TaskRingIsFifo` | `ActsAsFifo` for engine and worker together | the same |
| `RecordsStayInPath` | `[]RecordsKept` | the same |
| `OrderBookProofs!LevelsKept` | `[]LevelsMatchOrders`, whatever the tree has become | `TreeAssumption`: ranges of the constants |
| `TreeKept` | `[](~lame => TreeSound)` | the same |
| `BestOffered` | `OffersBest`: the tree implements `OrderBookSide` | the same |
| `ArtKept` | `ArtSound`: what both ART books hold, their depth and their order of arrival | `ArtAssumption`: the address of a level is no price; finitely many orders |
| `EventSourcedEngineProofs!TypeCorrect` | `[]TypeOK`, the log a sequence of events included | nothing: any number of threads |
| `SequencesUnique` | `[]SequencesDistinct` | one thread hands in the orders |
| `LogTells` | `[]LogTellsAll` | the same |
| `MatchesFollow` | `[]MatchesDetermined` | the same, and `MaxOrders <= MaxIterations` |
| `TradingServiceProofs!MarginStaysCovered`, `MarginStaysExplained`, `OrdersStayShown` | `[]MarginCovered`, `[]MarginExplained`, `[]OrdersShown` | nothing: any number of threads, users and orders |
| `TradingServiceProofs!CompressionCounts` | `CompressionSound` | intervals and logs are short of the largest sequence |
| `StreamsTellNothing` | `[]StreamsSound` | |
| `VersionsRise` | `[]VersionsSound` | `VersionAssumption`: events name versions of the width |
| `ReplicatedInOrder` | `[]ReplicationSound` | |
| `ServicesProofs!AccountsSound` | `[]UsersSound` | the program's own user is no one else's name |
| `RequestsEntitled` | `[]GatewaySound` | no address is a number |
| `ServerSound` | `[]RestSound` | `RestAssumption` |
| `MoneyIsExplained` | `MoneyExplained` | whole amounts |
| `AdmissionKept` | `[]AdmissionSound` | `LimitAssumption` |
| `PositionKept` | `[]PositionSound` | `PositionAssumption`: prices and sizes above 0, a leverage of at most 10000 |
| `CalculatorKept` | `[]CalculatorSound` | `WidthAssumption` |
| `FundingKept` | `[]FundingSound` | `FundingAssumption` |

The assumptions are not conveniences.  Without fresh ids an order in the book can be a
destroyed object.  Without the bound on iterations the loop gives up while the book
still crosses.  With a clock that steps back the tree sorts a later order first.  With two
handlers two events carry one sequence, and a match may follow the wrong placement.
`WidthAssumption` and its like state that a power of two is a positive number, which is
beyond the provers, and nothing else.

Theorems about parts that runs check together are about the part: `GatewaySpec`,
`AdmissionSpec`, `InputSpec`, `IndexedSpec` and their like are the specification of one
module, whose next-state relation is a disjunct of the run's.

**Sums.**  `SumTheorems` says of `SumFunctionOnSet` what every proof about totals needs: its
type (`SumType`), what one element more or less does (`SumAdd`, `SumRemove`), that equal
functions have equal sums (`SumSame`), what one changed term does (`SumUpdate`) and that smaller terms
have a smaller sum (`SumShrinks`), and that the sum over a set in parts is the sum of the parts' sums (`SumParts`).  The operator is a fold,
hence a recursive function on a finite set; that one exists and is unique is shown once,
from a minimal counterexample in the natural numbers.

**The engine.**  `TypeInv` strengthens `TypeOK` by what keeps lookups inside their
tables: the objects in the book exist, lie on their own side and have something
left, so that a matched quantity is never negative.  `OwnInv` is the inductive
invariant of the rest: with fresh ids the n-th object carries id n, and the book,
`orders_` and `freed` partition the orders that arrived.  `BookOwned` alone is not
inductive: the step that rests a taker needs to know that the taker is neither
owned nor destroyed (`TakerInv`), cancellation needs that an owned order is still
active, and cancel-all needs that ids not yet visited cover what still rests
(`CancelInv`).  The trade properties add that sequence numbers grow with the object
number (`SeqInOrder`), which makes the taker's number the largest; the uncrossed book
adds `LoopBounded`: each turn either removes a resting order or ends the loop, so the
iteration count plus the size of the opposite book stays below the number of
orders.  Priority follows from `ClockInOrder`: timestamps, sequence numbers and object
numbers then agree.  `TotalsInv` adds to the two sums that what is owned under an id rests
and carries it (`OwnerRests`): a cancellation takes the remaining quantity of an order
that is in its level's sum, so the clamp at zero never hides more than a trade left behind.
`BookUsedAsPromised` needs no more than `TypeInv` and that timestamps are readings of the
clock (`MomentInv`): `KeyKept` says that no action touches what a resting order is sorted by,
`BookMoves` that an action moves at most one order of a side, a removal of one that is not there
included, and `OffersPromised` that the order the engine meets is the first of the keys.
The section `…Effect` states once what each action does to the orders, so that no later
proof opens an action.

**The tree.**  The levels do not depend on the tree: `LevelsInv` says that they list the orders
`Shown`, which during a call are those of `order_map_` with the one that comes or without the one that
goes.  For the tree, `IsTree(t, T, s)` says that t is a search tree of the orders T, where s gives the
orders below each node: s is what makes rotations and the removal easy to reason about, since
each changes it at one node or along one path.  What an operation on a tree does is stated as an
equation of its fields (`RotateEdit`, `ReplaceEdit`, `SuccessorEdit`) and what it keeps as a lemma about any tree
(`RotateKeeps`, `LinkKeeps`, `OnlyKeeps`, `SuccessorKeeps`, `InsertRotates`, `SiblingRises`), so that no proof
about an action opens a rotation.  `TreeInv` adds to it where the running call may stand: the descent
at a node all of whose ancestors agree that the new order belongs there (`Fits`), the search for the
successor on the path that starts right and goes left (`Leads`), the repair at a node of the tree; and that the
sentinel and, but for the node under repair, the root are black, which is why a red parent has a
parent.  All of it is under `~lame`: `DoublyFacts` and `SiblingRises` need the sibling to be a node, and
that is what the missing repair of orderbook.cpp:164 takes away.  Nothing is claimed of the
number of black nodes on a path, which the code does not keep.  For `BestOffered`, `LeftSound` says that what is
below the d-th node on the way left is ahead of the rest of the tree and has at most as many
orders as there are steps left to take.

**The ART books.**  `BookHolds`, the core of the inductive invariant `ArtInv`, says of each side
(`SideHolds`) that its levels hold exactly the orders the map has there, each once in the list of
the level of its price (`Once`), with their remaining quantities as the level's total, and that the leaf
names one of these levels.  `JoinSide`, `LeaveSide` and `QuantitySide` say what the three ways of
changing a side do to that; an update is a removal and an insertion on possibly the other
side or level.  A removal may empty a level, which then goes with its leaf, if the leaf is its own
(`LevelLeft`, `LeaveKeeps`).  `ArrivalKeeps` compares a list with what has become of
it: whoever stays keeps its place, and whoever comes stands at the end.  For the depth, a
finite set of prices has its descending and its ascending enumeration (`InDescendingOrder`, from a minimal
counterexample), `PricesOrdered` shows that `PricesInOrder` names each level once, and `SumParts`
adds the levels' totals up to the quantity at rest.  `NoMaker` needs of the calls only that what
`best_price` answers is an address, hence no price.

**The multi-producer queue.**  `TurnsTaken` is why it works: while no two pushes wait for
one slot, pushes and pops take turns there.  A slot's next push is the one for the position
its next pop has, when the slot is empty, and a round ahead of it when it is full
(`PushTurn`, `PopTurn`).  So a store never overwrites and a pop never reads twice.  For
`ExactlyOnce`, `Where` names the seven places an item can be in, every action moves a set
of items from one place to another (`Moves`), and `MovesKeep` does the rest for all of them;
`Counted` adds the lengths up.  For the order in the log, `QueueOrder` says that the slots,
in order of their turns, hold each producer's items in theirs, that a push in flight is
behind them, and that only an item the owner waits for may be overtaken; `HandOrder` carries
this through batch and buffer, and `TradesWait` says why only orders overtake.

**V3.**  `Room` is a potential: items handed over, plus what every thread still may hand over
for the trades and the calls it has, never exceed the trades made and the calls begun.
So each push of V3 is one `AsyncPersistence` allows, and with `CallOrder`, which says what
each thread may have where it is, every step of V3 is one of the persistence's or a stutter
(`EngineUsesPersistence`); what is proved of the persistence holds below V3 as well.
`HandedOnce` counts the copies of each trade over items and calls.

**The ring.**  `NextSlot`, `Distance` and `SlotAt` say what masking does for
positions inside the buffer, with and without wrap; `RingInv` is inductive because
the other side only moves away; then `PushPublish` appends, `PopRelease` takes the head
and the rest stutters, since a producer's slot is never one of `Contents`.  For the
commits `GroupInv` carries that a collected batch was in the log before its fsync
began, so that the last number of a batch about to be marked is at most `synced`.
`RingStep` shows that each action of the engine is one of the ring's or leaves it alone.

**The production engine.**  `RecordsKept` states of the two paths, from the engine to each
file, that the records on it are in their order, and complete but for what was dropped.
`Paths` is that claim about any two sequences, and each action either moves a record to the
next place of its path or leaves the paths as sequences alone.  What a shutdown leaves is
`PhaseInv` (which thread is gone in which phase, and what it left behind) with `QuietInv`
(no order on the way means an empty ring).

**The event log.**  `TypeInv` adds to `TypeOK` that a handler at work holds an order that
arrived and was not rejected, and that the same is true of what rests; otherwise a matched
quantity could be negative.  `SequenceInv` says who owns which number: every accepted order
has one that the store has given to an event already, but for the order being placed, which
has the next.  That is what appending its event makes true again.  `ReplayInv` is for one
handler: `LogInv` is about the log alone, so that a crash at any moment keeps it; `EngineInv`
ties the live engine to it (what each order has left is `LeftAfter`, what rests is
`RestingAfter`, the trade in hand is the last match), so that a match the engine makes by
pointers is `Explained` by the log.  An event that neither places nor matches changes no
fold of the log (`QuietEvents`); a match takes its quantity off two of the sums.

**The account.**  `LedgerInv` is the type invariant with `FundsExplained`, and is inductive as it
stands: that each call moves two or three of the balances together is what is proved, case by
case of what it refuses.  `OnlyLossesOverdraw` then follows for each step.

**The trading service.**  `TradingInv` has two halves.  `OrderInv`: each thread at work has
an open order that no other thread has, and its place tells whether the engine has taken
the order; so an order in the engine was accepted, is still a thread's, or lost its reply.
`AccountInv`: the balance a call of `freezeBalance` loaded was the account's once, hence at
most `peak`, and a call about to exchange has seen room for its margin above what it expects
(`Remembers`).  The exchange succeeds only if the expectation is still true, so what it
writes is within `peak`, whatever other threads and payments did in between.  `FrozenInv`
adds how far a call can have got where its thread is (`Place`) and that only an order with a
margin ever holds one: each exchange then changes `frozen` and one term of the sum by the
same amount.  `StoreInv` adds which of its two critical sections a thread has been through
(`StorePlace`).

**The REST server.**  `RestInv` adds to the types that a stopped server has told its acceptor
(`StopCleared`), which makes `OneAcceptor` inductive, and that a connection past its check
carries a good token where its route asks for one (`Guarded`), which makes `ProtectionKept` so.

**Users and the gateway.**  `AuthInv`: every user is found under both names and the maps have
no others (`IndexOK`), so that a registration adds one element to each of three sets and their
cardinalities stay equal; every token was issued to a user that exists (`Issued`); a key is
usable only while active (`KeysActive`).  `GateInv` carries through a request's steps what
its last check saw (`RequestsOK`): users are never deleted and keep their roles
(`UsersStay`), so it is still true at the end, although others acted in between.  `LimitsOK`:
what went through a route this second is at most the counter of its address, as long as the
second lasts.

**Admission.**  `BucketsOK` is a potential again: tokens granted and tokens left never exceed the
burst plus the rate times the whole milliseconds of the last request's clock.  `refill` cuts elapsed
time, and the sum of two cut times is at most the cut sum (`TimeAddsUp`), so the
bucket may lose tokens and never gains any.  `CallOK` counts the call in progress, `LoggedOK`
the one a shutdown overtakes.

**Position, calculator, funding.**  `PositionInv` is the averaging argument: a quotient of a
weighted sum lies between its two prices (`CostBetween`, `QuotientBetween`), and a cost that
fits the width is not changed by wrapping (`WrappedFits`).  The calculator packs numbers into
one: `DigitsCompare` says that such numbers compare digit by digit, `FixedMultiplyFits` and
the two `Truncate…` lemmas bound what fixed-point products do.  `FundingInv`: `RatesOK` for
the history, a recursive function of what was computed whose value is found from a minimal
counterexample; `LoopOK` for where the loop is; `OnTime` bounds lateness by the laps that remain
until the next check.

**Compression.**  `CompressionInv` adds that a call waits with a sequence of at least 1 and that
the worker never gets to remember what it compressed (`CallsType`).  `WrappedDifference` is the
arithmetic: a difference below zero, modulo 2^W, is the difference plus 2^W, which is above
any retention the assumption allows.  So a worker that wakes goes on only in a log of one interval, or longer by
no more than the retention.

**Streams, versions, replication.**  `StreamsInv`: the log is at most one event behind its count, so a
stream gets past one event at most, and nothing is ever in a view; who stops a service that
serves has cleared the flag first (`StopOrder`).  A version is changed only to a target the
event supports because the loops that have no end are those towards the first and the last
number.  `Numbered` says of a sequence that it has the first so many events of each appender,
once and in order; `ReplicationInv` says it of the log and of all that has been queued (`QueuedOn`), with
`LastOnItsWay` for the difference of the two, and the worker's steps leave `QueuedOn` as it is.

Only model-checked:

* the types of the red-black tree after it has become `lame`: nothing bounds what the sentinel
  then points to;
* liveness (`QueueMoves`, `PipelineMoves`, `EveryRequestAnswered`, `ThreadsMove`, `RestMoves`) and
  the three runs that refute a statement of the documentation: liveness under fairness
  is beyond this prover;
* what recursive functions over sequences compute in general (`SelectSeq`, `FlattenSeq`): where a property
  needed one, it is stated by positions instead, or the function is pinned down by a minimal counterexample.

## 6. Not modelled

`PROJECT.json` lists every component with its status.  Left out on purpose:

* Readers of the book that take no lock (`find_order`, `get_depth`, `best_order` from
  another thread), and two threads in one engine of `MatchingService`: data races, undefined
  behaviour; with one caller they cannot occur.
* Callbacks: they are called at the right points and assumed not to call back into
  the engine.
* Prices and quantities of matching are mathematical integers.  The code's are 64-bit with 8
  decimals; no product is formed in matching.  Where products are formed (`Positions`,
  `DeterministicCalculator`, `EventCompression`, `EventVersions`) numbers have a width.
* Statistics and latency counters, logging, formats.
* Memory ordering weaker than the acquire and release the queues ask for.
* Inner nodes of the radix trees and their growth: no program builds one (section 2).
* Queries that only read (`QueryOrder`, `QueryAccount`, `QueryPosition`), the membership list
  of replication nodes and `notification_service.cpp`, which nothing reads, the liquidation
  engine and the services' `PositionManager`, whose lookups answer 0 whatever happened.
* Market data, monitoring, metrics, configuration, logging and the database manager, which
  never connects: nothing of the exchange depends on their state.
* Benchmarks, memory pools, prefetching.

## 7. Plan

Done: the vocabulary, the engine with its proofs, both order books, the two persistence
managers with their queues, the optimized V3 and the production engines over them, the event-sourced engine and what is
built on its log, the trading service over its accounts and a remote engine, clearing and
admission, funding, and the entry points; every safety property that a run checks is a
theorem.

Left, most important first:

1. **A crash** of the production V3 with what its log then holds; the second life of the
   optimized manager.
2. **Restart of the trading service**, whose order counter begins again while the engines
   keep their orders.
3. **Liquidation** once positions reach it.
