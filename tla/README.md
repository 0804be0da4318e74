# TLA+ models of the quantTrade engine

This directory holds TLA+ specifications of the trading engine in `src/src`,
the TLC configurations that check them on small instances, and proofs that
TLAPS checks for every value of the constants. `PROJECT.json` is the index:
which definition models which lines, which run checks which property, which
mutation of the code each property is known to detect, and the hazards the
properties were chosen for. Paths below are relative to `src/src` unless they
say otherwise.

Contents: 1 inventory, 2 modules and how they correspond to the code, 3 runs
and bounds, 4 fairness, 5 proofs, 6 behaviour of the code a reader should know
of, 7 what is not modelled, 8 plan.

## 1. Inventory

The engine is a pipeline of pinned threads that communicate through bounded
lock-free queues (`main.cpp`):

    MarketDataThread --(strategy callbacks)--> StrategyThread --> OMSThread
        --> SimGateway / GatewayThread --> FillTracker --> PositionThread

| Component | State it keeps | Operations | Talks to | What is hard | What makes it correct |
|---|---|---|---|---|---|
| `SPSCQueue` (infra/spsc_queue.hpp) | ring, `head_`, `tail_` | push, pop, size | every thread pair | acquire loads of a counter the other thread moves; counters wrap | no two threads on one slot; FIFO; exact size |
| `MPSCQueue` (infra/mpsc_queue.hpp) | ring of sequenced slots, `tail_`, `head_` | push, pop | no user in the program | producers race for a position with old views of `tail_` and of a slot's sequence number, and fill positions out of order | one owner per slot; FIFO in the order of the claims |
| `MemoryPool` (infra/memory_pool.hpp) | free list | acquire, release | OMS | slot reuse while reports are late | slots partitioned between free list and orders |
| `OrderStateMachine`, `OMS`, `FillTracker` (oms/) | order map, pool, fill queue and counters | submit, on_ack, on_fill, on_cancel_ack, release, pop_fill | OMSThread, GatewayThread, PositionThread | reports late, repeated, out of order; cancel crossing fill; full queue | status agrees with quantity; terminal is final; fills reconcile |
| `PositionLimits` (risk/) | reserved net position per instrument | check_and_reserve, on_cancel | PreTradeRisk | two reservations tested against one old value | sum of reservations; never beyond the limit |
| `CircuitBreaker` (risk/) | state, daily PnL | update_pnl, allow_order, reset | PreTradeRisk | add and compare-exchange are two steps; reset is two stores | a breach blocks; only reset reopens |
| `RateLimiter` (risk/) | tokens, time of last refill | try_acquire | PreTradeRisk | ignored compare-exchange; integer scaling | rate and burst respected; not refused for nothing |
| `PreTradeRisk` (risk/) | – | check: breaker, limiter, limits in this order | OMSThread | early returns | only what passed all three is sent |
| Threads of `main.cpp` | queues between threads, `g_stop` | six loops | all | ignored failed pushes; ids and fills paired by position; stop at any moment | fill reaches its order; workers exit |
| `SimGateway`, `ExecutionEngine`, `SmartRouter` | fill queue | send, pop_fill | OMSThread, GatewayThread | fill is ready before the acknowledgement | see the threads |
| `SessionManager` (connectivity/) | state, back-off, condition variable | start, stop, heartbeat loop | its own thread | lost wake-up; late store after stop | stop returns and is final; link is reported |
| `FIXSession` (connectivity/) | socket, state, sequence number, receive buffer | connect, disconnect, senders, run | three threads | shared plain variables; close during recv; peer closes at any time | no descriptor lost; numbers increase; run returns |
| `PositionManager`, `PnlCalculator` (position/) | net, average cost, realised PnL | on_fill, getters | PositionThread, readers | three stores of one fill against a reader; integer averages | books balance; no stale average |
| `FeedHandler`, `Normalizer`, `PcapReplayer` (market_data/) | socket, queue, statistics | open, run, stop, walk of a capture | MarketDataThread, stopper thread | stop before run; several messages in a packet; full queue | no event lost unnoticed; thread returns |
| `Twap`, `Vwap`, `Pov` (execution/) | slice, sent and filled quantities, plan | start, tick, on_market_trade, on_fill | gateway | rounding, re-planning, late fills, restart | parent quantity is exact; share of volume kept |
| `MarketMaker`, `Momentum`, `StatArb`, `StrategyManager` (strategy/) | inventory, quotes, averages, spread state | on_bbo, on_order_ack, on_fill | MarketDataThread, OMS | answers late, partial or missing | quotes tracked; one direction; legs match state |
| `OrderBook`, `BookBuilder` (market_data/) | levels and counts of both sides, spin lock, map of books | get_or_create, apply_bbo, apply_depth, snapshots | market data thread, readers | a snapshot copies ten levels while they are rewritten; old levels stay behind shallower events | a snapshot is one whole state of the book |
| `BinaryProtocolGateway` (connectivity/) | socket, `connected_`, receive buffer | connect, run, disconnect, senders | owner and receive thread | TCP cuts the stream anywhere; a message longer than the buffer; close during recv | every complete report delivered once, in order |
| `LatencyTracker`, `Histogram`, `Alerting` (monitor/) | ring of samples and count; buckets, sum and count; bounded alert history | record, percentile, reset; observe, scrape; fire | worker threads write, the monitor thread reads | nothing stops the writers during a read; counted before stored; full history | a percentile is recent; a scrape is bracketed; the latest alerts are kept |
| `SimExchange`, `Backtester`, `MetricsReport` (`src/backtest`) | pending orders, acknowledgement and fill queues, daily PnL | send_new_order, process_bbo, feed_bbo, record_pnl, max_drawdown | PositionManager | partial fills go back to the queue, shares truncate to nothing | orders, fills, position and report add up |
| Infrastructure (infra/) | – | logger, clock, config, pinning, huge pages | all | operating system | not modelled |

## 2. Modules and the code

Each module names the program's variables in the comment of its VARIABLES and
one action stands for one operation, or for one step of an operation where
another thread can come in between. Operators whose comment begins with
"Mutant" are plausible mistakes; nothing in `Next` uses them. History variables
(marked so) record what happened and are read only by properties.

**`BoundedFifo`** is the abstract queue: push appends unless N values are there,
pop removes the head. **`SpscQueue`** is infra/spsc_queue.hpp, with push and pop
split at the load of the other side's counter, the copy and the store. An acquire
load may return any value between the one last seen and the current one, which is
weaker than sequential consistency and is what acquire/release guarantees here.
Counters are modulo `Mod`. `ImplementsFifo` states the refinement, the mapping
being `q <- items`. **`MpscQueue`** is infra/mpsc_queue.hpp: push is split at the
load of `tail_`, the load of the slot's sequence number, the compare-exchange (which
may fail spuriously), the write and the publication. Every load may return any value
the atomic ever had; that is more than the memory orders allow, so what holds here
holds there. It implements the same `BoundedFifo`, a value being in the queue from
the moment its position is claimed. **`Queues`** puts the two side by side,
and **`SharedObjects`** these and the monitor's objects.

**`OrderStateMachine`** holds transition and apply_fill as operators; it is used
by **`OMS`** and **`TradingPipeline`**. `OMS` has one action per method of
oms.cpp, the pool's free list and FillTracker. The exchange and the report stream
are external: the exchange executes while a cancel is under way, the stream keeps
reports per order but may deliver them in any order and repeat some (`mixed`
remembers for which orders).

**`PositionLimits`**, **`CircuitBreaker`**, **`RateLimiter`** split their calls at
every atomic operation. A failed weak compare-exchange is an action of its own.
`RateLimiter` keeps the scaled integer arithmetic and a word size (`IntMax`, at
which a product wraps). **`PreTradeRisk`** is their composition: check() asks them in
turn, they share nothing, and it keeps nothing from one call to the next, so an
interleaving of checks is for each of them an interleaving of its own calls; `part`
says which one a behaviour follows. A check as a whole, in which a refusal reserves
nothing, is a step of `TradingPipeline`.

**`TradingPipeline`** composes the pieces as main.cpp does: six threads, each a
program counter over its loop body, five queues as bounded FIFOs whose failed push
is ignored (justified by `SpscQueue`, which `SharedObjectsProofs` proves to be such a
queue), risk, OMS, gateway. The circuit breaker stays closed in it because nothing in
main.cpp calls update_pnl. A call of OMS is one step, and so is a push or a pop of
SimGateway's `fill_queue_`, see section 6.

**`SessionManager`** has the caller's start and stop (exchange of `running_`,
notify, join, store) against the heartbeat thread with its predicate wait; the
wait is split between evaluating the predicate and blocking, as the notifier does
not hold the mutex. **`FixSession`** has three threads on one session. connect() is
split at socket(), which makes the new descriptor visible to the other two, at connect()
and at the Logon; disconnect() at its test, the Logout, the close and the store; run()
at its test, the load of `sockfd_` and recv(). The number of a closed descriptor may
have been given to the next one when recv() uses it. A message is a sequence of fields
and framing is modelled by what it cuts.
**`BinaryGateway`** has an owner that connects and disconnects and a thread in run().
The peer's messages have a header and a body of any announced length; recv returns any
part of the stream that fits the buffer, and the parser is the code's loop: header,
MAGIC, length, dispatch, move the rest to the front. Lengths are in units (header 2,
buffer 4, so that there is a body which no buffer holds, as 65529 bytes are in the
program). **`Connectivity`** puts the three side by side: all that the manager uses of a
gateway is is_connected(), which may change at any moment.

**`PositionManager`** performs on_fill as its three stores; a reader may see any
version not older than the release it has synchronised with. Averages use the
code's integer division. **`SimExchange`** is the exchange of the back test: a quote
tries every pending order once (`Match` is one turn of the loop, `ProcessBbo` takes as
many turns as there are entries), fills its truncated share and puts the rest back. **`Backtest`** composes the
two: `program` is either the trading program, with arbitrary fills and readers, or the
back test, where feed_bbo matches, drains the acknowledgements, then the fills into
on_fill, and main_backtest.cpp records the day (`BacktestLoop`). `MaxDrawdown` is max_drawdown as the
one pass it is, checked against the definition over all pairs of days.

**`Normalizer`** says which messages of a packet the decoder turns into events;
**`MarketData`** runs it under FeedHandler's receive loop (live) and under
PcapReplayer's walk (replay), which skips packets longer than its buffer, together with
main.cpp's stopper thread.
**`OrderBook`** has the books behind it: creation on first use, apply_bbo and
apply_depth side by side under the spin lock, and a reader that copies a snapshot. A
level is the number of the event that wrote it, so a torn copy shows.

**`LatencyTracker`**, **`Histogram`** and **`Alerting`** are the objects of monitor/, split
at every atomic operation and at the mutex; **`Monitor`** puts them side by side. A
sample is the number of its record() call, an alert its timestamp and level.

**`ExecutionAlgos`** has the three algorithms behind one parent order. Doubles are
rationals, and where the exact product is an integer the truncation may lose one
unit (`Truncated`). **`Strategies`** has the three strategies; `kind` picks one.
StatArb's z-score is a free choice among the zones its thresholds make. **`Trading`**
puts both sources of orders side by side.

`MC*` modules give constants that a cfg cannot write; `*Proofs` modules and
`SumTheorems` hold theorems.

## 3. Runs

| Run | Bounds | What it shows |
|---|---|---|
| shared_objects | SPSC: 2 slots, counters modulo 8, 2 values; MPSC: 3 producers, 2 slots, 4 claims, 2 values; 2 recorders, window 2, 4 records, 1 reset, 2 reads; 2 observers, 3 values, boundaries 1 and 3; 2 callers, history of 2, 4 alerts (324 k) | two slots make full, empty and half-full distinct; SPSC counters wrap several times, an MPSC slot is used in two rounds, with a producer that holds views of the first during the second; the ring of samples laps, reset during record and read; a value on a boundary and one above all; the history overflows. `NoSlotRace`, `SlotHasOneOwner`, `ImplementsFifo`, `MpscImplementsFifo`, `FrontIsConsumed`, `PercentileIsRecent`, `ScrapeIsBracketed`, `AlertsAreKept` |
| trading | strategies: 3 mid prices, 3 to 5 quotes, queues of 2 or 3; algorithms: 1, 2 and 5 lots in 3 slices, weights 0, 1, 3, jitter 1/2, rate 2/3 (750 k) | entry, stop-loss, reversal, rejection, overflow; exact schedules, empty slices, re-planning, one restart; with fewer lots than slices only that the schedule is worked off. `StrategiesKeepTrack` (`QuotesAreTracked`, `ArbLegsMatchState`), `MomentumHoldsOneDirection`, `ParentQuantityIsExact`, `PovTracksMarket`, `ScheduleCompletes` |
| pre_trade_risk | breaker: 2 threads, threshold -3, PnL within 6, 2 resets; limiter: 2 callers, burst 2, clock to 8, products wrap at 11; limits: 2 threads, limit 2, 4 orders of up to 2 (632 k) | breach by one update or by two together; overlapping refills, overflow after an idle time; both limits reached and exceeded by the refused ones. `BreachBlocksOrders`, `BreachIsNotMissed`, `RateIsKept` (`RateIsRespected`, `RefusedOnlyWhenEmpty`), `WithinLimits`, `NetIsSumOfReservations` |
| oms | 2 orders of up to 3 lots (4 together), pool of 2, fill queue of 1, one repeated report | slot reuse, overfill by a repeated report (needs 3 lots), full fill queue, cancels crossing fills. `StatusMatchesQuantity`, `OmsReconciles` (`PoolPartition`, `TrackerAccounts`, `FillsReconcile`), `TerminalIsFinal`, `LateReportIsIsolated`, `ExecutedGetsFilled` |
| pipeline | 4 requests (2, -1, -2, 1), queues of 1, pool of 2 | every queue and the pool overflow. `FillsAreBookedRight` (`FillGoesToItsOrder`, `NoFillRefused`, `PositionWithinLimits`), `OrderAliveWhileInUse`, `EverySentOrderIsBooked`, `WorkersExit` |
| backtest | live: 4 fills of up to 2 at prices 2 and 5; back test: 2 orders of up to 3 lots, 3 quotes, ticks 2, 3, 5, slippage 1, whole and half fills, a day per quote (1.7 M) | increase, reduce, close and flip in both directions, with rounding; an order that is filled over three quotes and one whose rest is dropped. `BooksBalance`, `AverageIsNotOlder`, `BacktestReconciles` (`OrdersAreConserved`, `ReportMatchesBooks`) |
| connectivity | manager: back-off 2 to 7, 3 starts; FIX: 2 sockets, each reaching its host or not, 1 order, 1 report; binary: header 2, buffer 4, bodies to 3, 2 connections of 2 messages (590 k) | back-off reaches its cap; reconnect while the old receive thread is inside recv; every cut of two messages of every kind, and a body that fits no buffer. `StoppedIsDisconnected`, `NoDescriptorLeak`, `WireInSequence`, `LiveSessionIsActive`, `ReportsAreDelivered`, `CallsReturn` (`StopReturns`, `RunReturns`), `LinkIsReported` |
| market_data | packets of up to 2 messages, 2 packets, queue of 2; 2 instruments, 2 levels, events of up to 3 (190 k) | drops, undecodable messages, truncated payloads, packets too long to replay; events deeper than the book, shallower ones after them. `EventsAreAccounted`, `SnapshotIsWhole`, `FeedStops` |
| fix_framing (violation) | 1 connection, 1 report | `CompleteMessagesAreParsed`, which a comment in fix_session.cpp states, is false: see section 6 |
| drawdown (violation) | as backtest | `NoProfitNoDrawdown`, which test_backtest.cpp and metrics_report.hpp state, is false: see section 6 |
| feed_stop (violation) | 1 packet of 1 message, 1 instrument | `StopEndsRun`, which comments in main.cpp and feed_handler.hpp state, is false; after the last step the loop polls an idle socket |
| parent_overshoot (violation) | 1 lot in 3 slices | `NeverOvershoots`, which comments in twap.cpp and vwap.cpp state, is false |

Where a run has several parts side by side, a behaviour follows one of them, so its
states are the sum and not the product of theirs; each such composition says why the
parts do not affect each other. A property in front of a bracket is the conjunction
of those in it, and has a mutant for each of them.

Deadlock checking is off where the modelled activity really ends (all requests
made, all fills booked, all threads joined, a bound of calls used up), which some part
of every run does. That nobody waits for ever where work is left is what the liveness
properties say.

Several properties are conditional on a history variable (`cancelled`,
`overlapped`, `mixed`, `losses`, `crossed`, `abandoned`, `overwritten`,
`mishaps`, `surplus`, `overflowed`, `overtaken`, `early`, `lapped`). Each condition is the exact event after which the code gives no
guarantee; section 6 says what happens then. The unconditional form of each was
tried and is violated.

## 4. Fairness

- shared_objects: weak fairness of the SPSC consumer's steps. Consumers in main.cpp poll
  in a loop, and a store becomes visible in finite time; the load that sees the
  current `tail_` is the fair one. Nothing is assumed of a
  producer, a recorder or a reader of the monitor.
- oms: the oldest report of each order is eventually delivered (the receive loop
  keeps reading). The exchange, cancels and pops owe nothing.
- pre_trade_risk: a call of update_pnl or reset that has begun returns.
- pipeline: every worker thread takes steps when it can, as each has a core of its
  own and never blocks. The market data thread owes nothing, neither quotes nor its return:
  whether it returns after a stop is a question of `MarketData`, where run feed_stop
  shows that it may not. main() joins it first, so `WorkersExit` says that the five
  workers leave their loops, not that main() gets past its joins.
- connectivity: the heartbeat thread runs and its timed waits expire; a call of
  start, stop, connect or disconnect that has begun goes on; the FIX receive thread
  runs, and the peer closes a connection that `sockfd_` no longer names. That holds
  whether or not a Logout got through (its result is ignored, fix_session.cpp:128):
  nothing is ever sent on that connection again, heartbeats included, and FIX has the
  counterparty give up a connection that stays silent for longer than the interval
  agreed in the Logon (108=30 in encode_logon). Against a counterparty that never does,
  run() may stay in recv(). Nobody must call anything, and the link owes nothing.
- market_data: the threads run, a lock is held for a finite time and a capture is
  finite. Nobody must signal or pop.
- trading: time passes and tick() is called again; nobody must trade. Nothing is
  assumed of the strategies.

backtest has no liveness property and assumes no fairness.

## 5. Proofs

All proofs are for arbitrary constants under the named assumptions of the modules
(capacities positive, thresholds negative, quantities natural, callers and prices
finite). Each inductive invariant was first checked by TLC on the run's instance or a
smaller one. Where a run puts several parts side by side, the theorems are about each
part's own specification and a last one (`SharedObjectsKept`,
`TradingKept`, `RiskKept`, `ConnectivityKept`) carries them over to the composition the
run checks; those on market data and the back test are stated of the composition at once.
Every safety property of the passing runs is stated by a theorem.

- **SharedObjectsProofs**, SPSC: `Invariance` (Spec => []IndInv), and from it
  `DataRaceFreedom`, `FifoDelivery`, `ExactSize` and `Refinement` (the ring implements
  `BoundedFifo`). The race freedom is not inductive alone: `IndInv` adds that a stale
  view lies between the live counters modulo `Mod`, that a producer past its test has a
  free slot and a consumer past its test a published value, and that the ring between
  the counters holds `items`. The assumption is that `Mod` is a multiple of N by at
  least two, as a power of two below 2^64 is.
- **SharedObjectsProofs**, MPSC: `MpscInvariance`, `OneOwner`, `MpscRefinement`. `MpscInv` says
  of every position in the window that its slot's sequence number is the position or one
  more (`SlotsTakeTurns`), which pins down what a stale load can have seen: a producer
  about to claim has read a number that its slot has reached (`ProducersKnow`), so if
  the compare-exchange on `tail_` still succeeds the slot is free, for it alone
  (`ClaimsAreUnique`). `CellsDistinct` is the arithmetic: positions less than the
  capacity apart use different slots.
- **TradingPipelineProofs**: `PipelineInvariance`, `OrderStaysAlive`,
  `FillsReachTheirOrders`, for any requests, queue and pool sizes. `PipelineInv` follows
  the two halves of an order through main.cpp. `IdsInv`: the ids at GatewayThread, in
  oms_to_gw_cloid and at OMSThread increase, so each is in one place and its order is
  in the map and NEW; the order GatewayThread releases is therefore never the one
  OMSThread still uses, and apply_fill never refuses. `PairsInv`: until an id is lost,
  the i-th id and the i-th fill are of one request, with an offset of one while either
  thread holds its half. `LevelsInv`: until FillTracker drops a fill, the requests that
  are reserved and not booked, read in the order in which they will be booked, lead
  from the booked position to the reserved one without leaving the limits (`Books`
  states it by the table of the values on the way, so that no sum is needed). The
  assumption `PipelineAssumption` excludes empty orders.
- **PreTradeRiskProofs**, breaker: `TypeCorrect`, `BreachBlocks`, `OnlyReset`. In
  `BreachInv` a breach under a CLOSED breaker is owed to a thread that has added and not
  yet tripped, and a reset without overlap finds every thread idle.
- **PreTradeRiskProofs**, limits: `LimitsTypeCorrect`, `LimitsHold`, `SlotIsSum`. The
  invariant of the first two adds that a thread about to compare-exchange has tested
  the sum it would store. `SlotInv` numbers the reservations, so that two of one
  quantity count twice in the sum.
- **PreTradeRiskProofs**, limiter: `RateKept`. `TokensAreCovered` counts an increment
  between the stamp of `last_refill_ns_` and the add to `tokens_` as owed, and bounds
  bucket, grants and what is owed by burst, accrued time and surplus; that accrued
  amounts add up although each is rounded down is `DivSuperadditive`. `NothingIsLeft`
  says that a caller past its refill leaves no whole increment behind.
- **OMSProofs**: `TypeCorrect`, `StatusAgreement`, `PoolIsPartitioned`, `TerminalStays`,
  `ReportsAreIsolated`, `LedgerAgrees`. `StatusInv` says of every order in the map that
  it is well formed (`GoodOrder`); `TransitionGood` and `ApplyFillGood` show that the
  state machine keeps that for one order, and `HandleEffect` that a report writes only
  the slot of its own order. The two action properties follow from the partition of the
  pool. `LedgerInv` compares, per order, what OMS booked, what is on the wire and what
  the exchange executed: nothing is ever invented, and for an order whose reports kept
  their sequence and that nobody asked to cancel (`InStep`) the acknowledgement is at
  the front of the wire until OMS has seen it, which is why no fill of it is refused.
- **BacktestProofs**, books: `BooksAreKept`, `AverageKeepsUp`, about PositionManager
  with arbitrary fills. `FillIsBalanced` is the arithmetic of one on_fill: opening loses
  less than a tick per unit to rounding and keeps the average between the bounds
  (`IntegerMean`); reducing, closing and flipping are exact (`ClosingIsExact`).
  `BookInv` states the balance with the average and the quantity that are still to be
  stored at each of the three stores. `ReaderInv` says that a published quantity
  carries the version of the average that was stored for its fill.
- **BacktestProofs**, both programs: `BacktestIsKept`. The fills of SimExchange move the
  books as arbitrary fills do (`AnyMove`), so `BookInv` serves both programs.
  `Accounted` says that what of an order was neither applied nor is on its way as a fill
  (`Missing`) is the quantity of its one entry among the pending orders, or is too
  small to fill. `RoundInv` states it after k turns of process_bbo, where the entries
  are those put back and those still to be tried; `MatchKeeps` is one turn and
  `RoundKeeps` the whole round, by induction over the number of turns. `PendingInv`,
  `AcksInv` and `PositionInv` say that an order waits once, that acknowledgements are
  handed on before the fills and that the position is the sum of the fills applied.
  `ReportInv` says that the report has booked what was realised up to the last
  recorded day. That the one pass of max_drawdown finds the deepest fall over all pairs of
  days is `Follows`, carried from one day to the next.
- **NetworkProofs**, sessions: `StopIsFinal`, `DescriptorsKept`, `NumbersIncrease`,
  `LiveIsActive`. `ManagerInv` says where the heartbeat thread may be at each point of
  start() and stop(). `SocketInv`: the current descriptor is the newest and open.
  `NumberInv`: until two messages are in hand at once, the number in hand is above the
  wire's and below the counter. `LiveInv`: a receive thread about to store
  NOT_CONNECTED had a descriptor that a live session's cannot be.
- **NetworkProofs**, binary gateway: `StreamIsParsed`. `StreamInv` places the buffer in
  the peer's stream: some message m is in front of it, none before m was bad, and the
  reports delivered are the reports before m (`InFront`). Before the next recv the
  parser has looked at all it can: message m is not complete (`Undecided`); a thread
  that has ended has delivered every complete report (`CaughtUp`), and `MayEnd` gives
  the only reasons for which it ends while its owner keeps the link.
- **NetworkProofs**, market data: `NoEventIsLost`. `FeedInv` adds to the property at which
  points of the receive loop events of the packet at hand can be `left` and uncounted;
  live and replay never meet in one behaviour. `ParseBatch` hands on every quote that
  the loop over the packet reaches.
- **NetworkProofs**, order book: `SnapshotsAreWhole`. `LockInv`: a book is locked exactly
  while the writer applies an event to it or the reader copies it, and never for both.
  `SideInv`: both sides of an unlocked book are of whole events; inside an update one
  side is ahead (`HalfShows`). `SnapInv`: what the reader has copied so far is what the
  book shows as long as the reader holds its lock.
- **SharedObjectsProofs**, monitor: `PercentilesAreRecent`, `ScrapesAreBracketed`,
  `AlertHistory`. `SamplesInv`: every sample counted since the last reset is under way, in
  its slot, or overwritten by a later one; `ReaderInv` carries that over to what
  percentile() has copied, while no reset and no lap of the ring disturbs it.
  `ObservedInv`: each field of a histogram holds as many as there are calls that passed
  its level (`Passed`), and `ScrapedInv` puts the loaded fields between the calls that
  were complete when the scrape began and those begun by now. `RaisedInv`: what an alert
  has as earlier has returned, so an alert still under way is earlier than none in the
  history. `HistoryInv`: the history never holds an alert before an earlier one, and
  misses one only when it is full of alerts that are not earlier.
- **StrategiesProofs**, execution algorithms: `ParentIsExact`, `PovFollows`. `Reserve`
  keeps one lot back for every slice to come (`sent + (slices - idx) <= total`), which
  `Headroom` maintains for any wanted size, so jitter, re-planning and late fills do not
  enter. With fewer lots than slices the property claims nothing (run parent_overshoot);
  the invariant carries that every slice before the last then sends one lot.
  `PovTracksMarket` is inductive as it stands, given `TruncatedBounds`.
- **StrategiesProofs**, strategies: `StrategyInvariant`, `BeliefsMatchTheMarket`,
  `MomentumNeverAdds`. `StrategyInv` has a part for each strategy. `MakerInv`: the
  sides pushed are those of the acknowledgements and orders still under way, in their
  order (`SidesAligned`), at most one quote of each side is pending and then none is
  known (`OnePendingEach`), and an order in the market is a known one, one being
  cancelled or one whose acknowledgement is under way (`RestingKnown`). `MomentumInv`:
  one order at most is out, and it opens from nothing or reduces (`Reduces`). `ArbInv`:
  what is held and what is ordered of both legs makes up the spread of the state.
- **SumTheorems** has the lemmas the others share: sums over finite sets do not depend
  on the order in which they are taken, change by one element at a time and are
  invariant under renaming (`SumUnfold`, `SumUpdate`, `SumImage`, `SumToNext`,
  `SumFromFirst`); the folds of the community modules compute them (`SumFold`); integer
  division; largest and smallest elements; tails and appends of sequences. The induction
  is by least counterexample, over the subsets of a finite set, or over the naturals up
  to a bound (`InductionUpTo`, whose hypothesis is about a set and so needs no operator
  parameter).

Only model-checked: the liveness properties (`FrontIsConsumed`, `BreachIsNotMissed`,
`ExecutedGetsFilled`, `EverySentOrderIsBooked`, `WorkersExit`, `ScheduleCompletes`,
`FeedStops`, `CallsReturn`, `LinkIsReported`), as fairness and ENABLED are beyond the
prover; and the four violations, which are counterexamples.

## 6. Behaviour of the code worth knowing

Found while modelling; each is in the models, and the properties say where they
stop.

- A partial fill that crosses a cancel request is refused
  (oms/order_state_machine.cpp:84), so the booked quantity stays behind the
  exchange.
- on_cancel has no bounds test because it "only gives back"
  (risk/position_limits.cpp:62); with limit 2, reserving +2, -2, -2 and
  cancelling the +2 leaves -4.
- CircuitBreaker::reset stores the PnL, then the state (risk/circuit_breaker.cpp:44):
  an update that breaches between the two is closed again.
- RateLimiter ignores whether its compare-exchange on `last_refill_ns_` worked
  (risk/rate_limiter.cpp:54): two callers may add one increment twice. The program
  has one caller. `elapsed * rate_scaled_` (:46) overflows after some five idle
  hours at 500 orders per second; the wrapped product may be negative and then
  refills nothing. `RateIsKept` says that nothing else breaks the rate.
- main.cpp pairs ids and fills by position. A lost id (:284), or an order sent
  with the pool exhausted (:271), shifts every later pair. Orders left at exit stay in
  the pool (:308, oms.cpp:17).
- OMS, its map and its pool are called from OMSThread and GatewayThread (main.cpp:314)
  although oms.hpp:10 reserves them to OMSThread, and SimGateway's `fill_queue_` is
  a std::queue that the one pushes to and the other pops from without a lock
  (connectivity/sim_gateway.hpp:69). The models show what follows from the order
  of these calls, each taken as one step; what a torn map or queue does is undefined.
- SessionManager::stop notifies without the mutex (session_manager.cpp:35), so the
  wake-up can be lost and the join waits a whole interval, up to 30 s, although :60
  and session_manager.hpp:54 promise that stop() interrupts the sleep at once;
  `StopReturns` holds only thanks to the time-out of the wait.
- PnlCalculator loads quantity and average separately (pnl_calculator.cpp:12); a
  reader may combine an old quantity with a newer average, never the reverse.
- FeedHandler::stop before run() is overwritten by run() (feed_handler.cpp:151), and
  then the receive loop is never left and main() waits in its first join (run
  feed_stop). In replay, a packet's first message only is read (pcap_replayer.cpp:85), and a
  signal is noticed only at the end of the capture (main.cpp:201); a packet longer than
  the buffer is skipped without being counted (pcap_replayer.cpp:131). The batch cap
  never bites, as 2048 bytes hold 39 messages of 52.
- Twap and Vwap send at least one lot in every slice before the last (twap.cpp:77), and
  so overshoot a parent order with fewer lots than that, against the comments at
  twap.cpp:73 and vwap.cpp:117 (run parent_overshoot). Vwap::start
  keeps a re-planned `target_qty_`.
- FIXSession cuts its buffer at every SOH (fix_session.cpp:154-167), although the
  comments there delimit messages by their checksum field. That field is a piece of
  its own, and its test begins one byte before it, so no report reaches a callback
  (run fix_framing); encode_heartbeat has no caller; close() does not wake recv();
  connect() over an open `sockfd_` loses it (:76); a late NOT_CONNECTED may
  overwrite the ACTIVE of the next session (:148); `msg_seq_num_` is a plain
  variable (:223).
- Momentum may close in the stop-loss and again on the signal in one on_bbo, and
  late fills let it add or turn (momentum.hpp:26 says it holds one direction).
  StatArb's `state_` ignores unfilled legs. MarketMaker forgets quotes not yet
  acknowledged when the market moves, orders refused by risk get no
  acknowledgement, and main.cpp delivers it neither acknowledgements nor cancels.
- MPSCQueue with a capacity of one, which its static_assert admits, cannot tell a
  full slot from a free one (mpsc_queue.hpp:74); `MpscAssumption` excludes it. A
  producer that stalls between its claim and its publication holds up the consumer,
  however many later positions are ready.
- MetricsReport::max_drawdown returns the absolute fall in ticks below a peak that
  starts at 0 (`src/backtest/metrics_report.cpp:46`); its header promises a ratio
  in [0, 1] that is 0 while the peak is not above 0, and
  `src/tests/unit/test_backtest.cpp:296` expects 0 of a curve that only falls (run
  drawdown).
- SimExchange drops what is left of an order once its share truncates to nothing
  (`sim_exchange.cpp:55`), also after partial fills; IOC and FOK orders wait for ever
  (:35), and cancels do nothing (:18).
- BinaryProtocolGateway gives the link up when a body does not fit the buffer
  (binary_protocol.cpp:106, recv of 0 bytes returns 0), ignores ORDER_REJECT, never
  verifies a checksum, ignores short writes, and stores the clock minus the body length
  as round-trip time (:146).
- A bucket of a scraped histogram may exceed the +Inf line (monitor/metrics.cpp:62).
  LatencyTracker::record counts before it stores; main.cpp never records to its
  tracker, so the monitor prints a p99 of 0.
- OrderBook keeps the levels of a deeper event behind a shallower one
  (order_book.cpp:46); only the counts hide them.

## 7. Not modelled

Logging, configuration, clocks, pinning and huge pages (infra/) wrap the operating
system and keep no protocol state. Of the modelled parts: the text of FIX fields, JSON
and HTTP, a FIX field that fills the receive buffer of 65535 bytes (recv is then asked
for nothing, and its answer 0 is taken for the peer's close, fix_session.cpp:145), the
pacing of a real-time replay, the statistics of StatArb and the prices of
quotes are abstracted; the binary gateway's senders (one writev per message), the
registry of counters and gauges (one mutex), min, max and mean of a tracker (reads like
percentile's), the Sharpe ratio and the win rate (floating point over the recorded
days) and SmartRouter with more than the one gateway of main.cpp are left out; an OMS
call and a push or pop of SimGateway's queue are one step even where two threads make
them without a lock; several instruments are one where their slots are independent.

## 8. Plan

1. Done: queues, OMS, risk gates, the composed pipeline, position and back test,
   sessions and gateways, market data with its books, monitoring, execution
   algorithms, strategies; theorems that state every safety property of the runs.
2. The liveness properties stay with TLC. What would extend the proofs is a refinement
   of the pipeline's queues by the rings themselves, which today rests on the two
   theorems `Refinement` and `PipelineInvariance` read together.
3. SmartRouter with several gateways, if the program comes to use more than one.
