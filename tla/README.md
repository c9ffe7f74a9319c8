# Verification of cpp-orderbook

TLA+ models of the order book engine in this repository, TLC configurations
that check them on small instances, and TLAPS proofs of what holds for every
value of the constants. Source paths below are relative to the repository root.

## The system

| Component | State | Operations | Interacts with |
|---|---|---|---|
| `Order` (include/order.h) | side, price, quantity, quantity filled, status | copy_from_client, match, cancel, set_price, set_quantity | owned by the pool, pointed to by registry and levels |
| `PriceLevel` (include/price_level_v2.h) | vector of entries with tombstones, head index, map id → entry | add_order, remove_order, increment_to_valid, front, pop_front_order_if_filled, size, empty, total_qty | called by the book |
| first `PriceLevel` (include/price_level.h) | list of orders, map id → list iterator | the same, and remove_order_on_it | nothing includes it any more; the yardstick for its successor |
| `OrderPool` (include/order_pool.h) | vector of orders, next free index | allocate, reserve_more | hands `Order*` to the book |
| `OrderBook` (include/orderbook.h) | two price-ordered maps of levels, registry id → `Order*`, match flag, trade counter | add_order, cancel_order, modify_order, try_match, best prices, totals, depth table | called by its worker |
| `IdAllocator` (include/id_allocator.h) | atomic counter | get_next_id_block; get_order_id of each book | shared by the books of all threads |
| `SPSCQueue` (include/spsc_queue.h) | ring buffer, atomic head and tail | push, pop | producer thread → worker thread |
| Routing system, `Producer`, `Worker` (include/order_routing_system.h, producer.h, worker.h) | instrument → worker map, a queue and books per worker | build, submit, submit_all_shutdown_commands, run, process_command | main thread and worker threads |
| Main programs (src/bench_*.cpp) | the generated commands | submit all orders, start workers, shut down, join | the library above |

Commands flow from the main thread through `Producer::submit` into the queue of
the worker that owns the instrument; the worker pops them and calls the book.
Threads share only the queues and the id counter; a book belongs to one worker.

What is hard here: the two lock-free structures under every interleaving and
with stale loads; shutting down through queues that may be full; and, inside a
book, long sequences of requests in which vector, head index, map, registry,
side maps, match flag and pool have to stay in step. No state survives a crash
and there are no timeouts. `PROJECT.json` lists the hazards at their lines.

What makes each component correct:

- level: the vector with tombstones queues as the list it replaced did.
- order and level: an order is queued exactly while it is open, at its price,
  once; the front of a level is its oldest order; no fill exceeds a quantity.
- book: price-time priority; nothing that could trade is left resting; bought
  equals sold; requests on closed orders change nothing; `try_match` ends.
- pool: pointers stay valid.
- ids: unique over all books, never a reserved value.
- queue: no data race, first-in first-out, nothing lost or duplicated.
- a request that fails halfway takes no other order out of the book.
- main programs: the order streams have the match rate they are said to have.
- engine: each accepted command is processed once, by one book, in order; the
  program ends with nothing left in a queue.

## Modules

| Module | Models | How |
|---|---|---|
| `Order` | include/order.h | a record and one operator per method |
| `PriceLevel` | include/price_level_v2.h | a record `order_entries, queue_head_index, orders_map` and one operator per method |
| `OrderBook` | include/orderbook.h, order_pool.h | `AddOrder`, `CancelOrder`/`CancelRejected`, `ModifyOrder`/`ModifyRejected`, one `MatchOrders` per iteration of `try_match`, `MatchReturns` for its exits |
| `DepthTable` | getters and `operator<<` of include/orderbook.h | what the book shows, as operators on the state of `OrderBook` |
| `ModifyFailure` | exception handlers of `modify_order` | `OrderBook` extended by `ModifyFails` and by what requests do on a damaged book (`FindEnd`, `ModifyPrunes`) |
| `PriceLevelList` | include/price_level.h | a record `orders_list, orders_map` and one operator per method |
| `PriceLevels` | both price levels | every request the book makes of a level, made of both |
| `PriceTimeBook` | abstract | FIFO queue per side and price; `Submit`, `Withdraw`, `Amend`, `Trade` |
| `SPSCQueue` | include/spsc_queue.h | push and pop split at their shared memory accesses |
| `BoundedFIFO` | abstract | `Enqueue`, `Dequeue` |
| `IdAllocator` | include/id_allocator.h, `OrderBook::get_order_id` | `Construct`, `NextInBlock`, `NextInNewBlock`, modulo the word size |
| `Benchmarks`, `MCBenchmarks` | command loops of src/bench_*.cpp, the report of `Worker::run` | one book of `DepthTable` fed with its share of a program's commands |
| `Engine`, `MCEngine` | routing system, producer, worker, main programs | main thread position, one bounded queue per worker, books as logs of commands |
| `LevelProofs` | | lemmas on listings, sums and the operations of `PriceLevel`, used by the four below |
| `OrderBookProofs` | | proofs about `OrderBook` |
| `BookViewProofs` | | its refinement of `PriceTimeBook`; proofs about `DepthTable` and `Benchmarks` |
| `ModifyFailureProofs`, `PriceLevelsProofs` | | proofs about the modules they are named after |
| `SPSCQueueProofs`, `IdAllocatorProofs`, `EngineProofs` | | proofs about the modules they are named after |

Correspondence worth knowing when reading them:

- *Undefined behaviour.* Where the code would read freed memory or erase
  `end()`, `OrderBook` sets `fault` and stops: nothing is claimed of such a
  program. `NoFault` says when it cannot happen. Printing changes no state, so
  `DepthTable` has an operator instead: `PrintFault` says whether the depth
  table of the current book would read freed memory (`total_qty` follows
  `Order*`; the totals and best prices do not).
- *Order ids.* A book numbers its orders 1, 2, ...; `IdAllocator` justifies it.
- *Memory model.* An acquire load of the other thread's index may return an old
  value, never one older than already seen: `head_seen` and `tail_seen` trail
  the indices (`PropagateHead`, `PropagateTail`; in `Engine` the variable
  `unseen`). Release/acquire order the slot accesses, so the slots are one
  array, provided that no two threads touch a slot at once; `RaceFree` checks
  that proviso. The queue uses loads and stores only (README.md:102 of the
  repository speaks of compare-and-swap, which the code does not contain).
- *Definitions named `Bug...`* are plausible mistakes in the definition that
  follows. They are not part of a model: `PROJECT.json` pairs each property
  with the mistake that makes it fail.
- *Exceptions.* `Order::match` throws when a fill exceeds the quantity;
  `NoOverfill` shows it never does. What is left is `std::bad_alloc`: out of
  `add_order` it ends the program, in `modify_order` it is caught, and
  `ModifyFailure` goes on from there.
- *One model for books, another for threads.* `Engine` keeps a book as the log of
  the commands it was handed, because nothing a book does reaches another
  thread except through `IdAllocator`. `OneBookPerInstrument` says that a book
  sees a sequence of requests in submission order, `UniqueIds` that its ids are
  its own, and `OrderBook` takes every sequence of requests; `Benchmarks` takes
  the ones the main programs send. A product of the three would add states and
  no behaviour.
- *Programs.* `Engine` has a variable `config` that Init chooses and no step
  changes: which program runs, with how many workers and what queue size.

## Runs

Time is with two workers. Runs marked ✗ are expected to fail: each shows a
disagreement between the code and its documentation or tests.

| Run | Configuration | Checks |
|---|---|---|
| book_requests | `DepthTable`: 3 orders, 2 prices, quantities 1–2, every kind of modify (2–3 min) | `QueuedExactlyWhenOpen`, `HeadNeverPassesQueued`, `NoGhostEntries`, `NoOverfill`, `BoughtEqualsSold`, `DepthMatchesOpenOrders`, `ClosedOrdersAreFinal`, `NewLevelUncrosses`, refinement `PriceTimePriority` |
| book_fronts | `OrderBook`: the same, but a level's only order never grows in place, with quantity 0 too; weak fairness of `try_match` | `TypeOK`, `FrontIsFirstQueued`, `NoFault`, `TradesFillOrders`, `MatchingTerminates` |
| book_uncrossed | `OrderBook`: 4 orders, no price changes, a pool of 3 | `NotCrossed`, `PointersStableWithinPool` |
| book_failure | `ModifyFailure`: 3 orders; one failed allocation at any place in any `modify_order` that moves or grows an order | `FailureContained`, `NoOverfill`, `MatchingTerminates` |
| levels | `PriceLevels`: list and vector under the same requests, quantities 0–2 | `SameQueue`, `OnlyFilledDangle` |
| bench | `MCBenchmarks`: both order streams, every book, scaled by 1/10000 | `MatchRate`, `NoFault` |
| book_modify_crosses ✗ | `OrderBook`: 3 orders, price changes | `NotCrossed` |
| book_grow_alone ✗ | `OrderBook`: 4 orders, one price, only orders growing in place | `FrontIsFirstQueued` |
| book_reserve ✗ | `OrderBook`: pool of 2, reserve of 3 asked for | `PreallocatedSpaceSuffices` |
| ring_buffer | `SPSCQueue`: 3 slots, 7 pushes of 2 values | `TypeOK`, `RaceFree`, `DeliveredInOrder`, `WithinCapacity`, `IndexOrder`, `SlotsHoldPushed`, refinement `ImplementsFIFO`, `AllDelivered` |
| id_blocks | `IdAllocator`: 3 books, blocks of 3, 16 ids, counter past its wrap-around | `TypeOK`, `UniqueIds`, `NoReservedId`, `BlocksDisjoint` |
| engine_runs | `MCEngine`: six programs, an instrument listed twice | `TypeOK`, `OneBookPerInstrument`, `NothingLeftAtExit`, `NoOrderRefused`, `Terminates` |

What the failing runs show:

1. **book_modify_crosses.** Both cases of `modify_order`'s switch return from
   inside the `try` block (include/orderbook.h:155, 157); the `try_match()` at
   line 167 is reached only through an exception. A bid repriced to the best
   ask rests beside it. An add that opens a new level uncrosses the book
   (`NewLevelUncrosses`), one that joins a level does not.
2. **book_grow_alone.** Growing the only order of a level removes and re-adds
   it (lines 195, 196); `increment_to_valid` returns early on the emptied level
   and the head stays on the tombstone. Once the order is filled through that
   tombstone, its second entry is the level's front: a filled order before live
   ones, and the next match erases `end()` (include/price_level_v2.h:108).
3. **book_reserve.** The pool is always built with `SPACE_RESERVE` slots (line
   28), whatever reserve is asked for; the next order makes `reserve_more` move
   all orders and every `Order*` dangles. src/bench_match20_m.cpp sends 200,000
   orders to each book of a pool of 100,000; run bench shows, and
   `BenchmarksDefined` proves, that it gets away with it: the orders it matches
   are always the latest two, and the pool never grows between them.

What some of the passing runs show besides, and what they do not:

- **book_failure.** The order whose `modify_order` failed stays open in no
  level, or with an entry and no map entry. `FailureContained` says that every
  other order stays queued exactly while it is open, but the failure is not
  harmless. A request for the broken order may dereference `end()`
  (`FindEnd`). An add that has nothing to do with it may erase `end()`: order 1,
  alone at its price, grows and `push_back` throws, which leaves its tombstone
  at the head of a level with an empty map; order 2 joins that level; a sell
  then finds order 1 at the front, fills it, and
  `pop_front_order_if_filled` looks it up in vain
  (include/price_level_v2.h:108). The run reaches this state. The last two
  conjuncts of `FailureContained` bound it: a broken order is the one that is
  not found, in both cases. The second is stated for runs without
  `growAlone`, which reaches the same line without any failure. The two
  other properties of the run hold on the damaged book; a loop that stops in
  undefined behaviour counts as ended for `MatchingTerminates`.
- **levels.** The condition `GrowAlone = FALSE` is needed: with `TRUE`, once
  the re-queued order is filled, the vector still shows it in front of the live
  ones and the list does not. So the defect of
  book_grow_alone came with the change from list to vector.
- **book_fronts.** Its pool is never outgrown, so `NoFault` is about
  `erase(end())` there; for dangling pointers it is checked in bench.
- **book_uncrossed.** The fourth order outgrows the pool, and a match of it with
  one of the first three stops the model in undefined behaviour: what the run
  shows of `NotCrossed` beyond three orders is about adds, cancels and modifies.
  The proof has no such limit.
- **bench.** In the insert programs the side alternates with the parity of the
  command and the number of instruments is even, so every book sees one side
  only and "no matching" follows at once; the match20 programs are where
  `MatchRate` takes an argument. The model takes its numbers from the programs:
  500,000 orders on 10 instruments for the insert programs, where README.md:59
  and 60 of the repository report 1M orders on 5 symbols.

### Bounds

- *Orders (3 or 4) and entries per level (3; 2 in book_failure).* Three orders are enough for two
  at one level and a counterparty, for a partial fill followed by a second one,
  and for a tombstone between two live entries; four for a book crossed at one
  level while another one is joined. The known defects appear within these.
  Two entries are enough for a failed request to leave one and for another order to
  join behind it.
- *Prices and quantities.* Two prices separate best from not best on both
  sides, and let bids and asks cross or touch. Quantities 1 and 2 give full and
  partial fills; 0 is added where an iteration that fills nothing matters
  (book_fronts, levels).
- *Ring buffer.* Three slots and seven pushes go round the ring twice with the
  queue full, half full and empty; the proofs cover every capacity.
- *Ids.* A block ends exactly at the wrap-around, and one is taken after it.
- *Engine.* With 3-slot queues and 5 commands a queue is full at submit and at
  shutdown; `<<"A", "A", "B">>` over two workers gives "A" two books. NUM_ORDERS +
  2 slots are what the main programs use, NUM_ORDERS + 1 the fewest that refuse
  no order.
- *Failures.* One failure (`MaxFailures`): a second one would only add to the set
  of orders about which nothing is claimed, and the proof covers any number. `LevelReserve`, 128 in the code, is
  1, so that the second order of a level can already meet a full vector and a
  map due for a rehash.
- *Levels.* Three orders and five entries put tombstones before, between and
  behind live entries, and let an order leave and come back twice.
- *Benchmarks.* The streams repeat every 10 (insert) and 50 (match20) commands.
  With all numbers divided by 10000 a match20 book still gets two full rounds,
  and its pool is exhausted between them, at a multiple of ten orders as in the
  program. There is no choice in these runs but of program and book.

### Fairness

- `OrderBook`, `ModifyFailure`: `try_match` runs to its end once called, as
  sequential code does.
- `SPSCQueue`, `Engine`: each thread keeps running (the producer's shutdown loop
  and the worker's loop retry for ever), and a store to an atomic becomes
  visible in finite time, which C++ asks of implementations. No fairness is
  assumed between alternatives of one thread.

`CHECK_DEADLOCK FALSE` stands where the program may really stop: after undefined
behaviour, when main has exited, and when a bound on ids, orders or entries is
reached.

## Proofs

**OrderBookProofs**: for every finite set of prices, every set of quantities, any
number of orders and entries and any pool size, `Spec => []` of `TypeOK`,
`QueuedExactlyWhenOpen`, `HeadNeverPassesQueued`, `NoGhostEntries`, `NoOverfill`
and `PointersStableWithinPool`, and `Spec => ClosedOrdersAreFinal`. It includes
the requests that leave the book crossed or an entry twice in a level: these
properties hold in spite of the defects found above. They need each other: the
next head exists because a queued order has a valid entry behind the head; a
match changes only open orders because whatever is at a head is queued or
filled, and a filled one would make the step undefined (`FrontsQueued`). The
invariant is written with registry and side map as parameters, so that lemmas
compare values before and after: for one level (`AddEntryInv`, `BuryInv`), for
one side (`SideKept`, `TakenOut`, `PutIn`, `Pruned`), for one request (`AddBook`,
`CancelBook`, `ModifyBook`, `PopBestInv`). That the best price exists is proved
from well-foundedness (`LeastNat`, `GreatestNat`); this is what needs the set of
prices to be finite.

Matching, for the same constants: `NewLevelUncrosses`;
`TradesFillOrders`; `BoughtEqualsSold`; and, provided that no `modify_order`
changes a price (`"reprice" \notin AmendKinds`), `NotCrossed`.

- `NewLevelUncrosses` reads off the level, not off the flag, whether the last
  add opened it: its order has the first entry, or was closed by trading
  (`OpenedLevel`). So it needs an invariant (`OpenedInv`): inside `try_match`
  this implies that the flag is up. An add that joins a level lands
  behind an entry that is there already (`JoinsBehind`), and stays open while
  the flag is down; one that opens a level raises the flag. The rest is that
  `try_match` with the flag up returns only when a side is empty or the best
  prices do not cross, and then no others do.
- `NotCrossed` speaks of idle states only. Its invariant (`UncrossedInv`) adds
  the states inside `try_match` in which the flag is down: an add that joins a
  level adds no price to its side, so it may skip the match. A price change is
  what breaks this, as run book_modify_crosses shows.
- `TradesFillOrders`: the two fronts of an iteration are open before it, and
  the one with less left is filled by it, so the number of filled orders grows
  by one or two; everywhere else it stays.
- `BoughtEqualsSold` is about a sum over all orders, which the model takes with
  the library's `MapThenSumSet`, a recursive function. What such a function
  computes cannot be proved by the library's induction theorems here; instead
  `MinimalMember` of `LevelProofs` (a family of finite sets has a minimal member)
  serves as the induction principle. `SumExists` and `IteratesIsSum` show with it that
  `MapThenSumSet` is a function on subsets that adds one element at a time
  (`SumFun`), and the rest is arithmetic: an iteration adds the same quantity to
  one order of each side.

The loop: `Spec => LoopProgress`. Each iteration of `try_match` closes at least one of
the two orders it trades and opens none, so the number of open orders bounds the
iterations that are left. `MatchingTerminates` adds only the fairness.

Fronts: provided that no `modify_order` re-queues the only order of a level (`"growAlone" \notin AmendKinds`), `FrontIsFirstQueued`, and,
with no more orders than the pool was built for, `NoFault`. `NoGhostEntries`
allows a filled order at a head, which is too weak. The invariant `FrontInv` says
that a valid entry is always the queued entry of its order, and that the head
entry of a level is valid: an order cannot leave a level with other orders in
it without `increment_to_valid` finding a valid entry, and a level emptied by a
cancel, a fill or a new price is pruned. The front of such a level is queued, so it
is open, and popping it erases something. The condition is the one that
run book_grow_alone shows to be needed.

**BookViewProofs**, first: `Spec => PriceTimePriority`, with no condition on the
requests: every step of the book, on a crossed book and with a re-queued order
too, is a step of `PriceTimeBook` or a stutter. The refinement mapping
(`BookQueue`) lists the orders in a level's map by the place of their entries.
The lemmas of `LevelProofs` say when a sequence *lists* a set of places in
increasing order (`Lists`): there is at most one such sequence and there is one for every finite
set, appending an order behind all others appends it to the list, taking one
out removes it from the list, and the first of the list has the least place.
So `AddEntry` is an append to the abstract queue and `Bury` a removal. What is
left is that `try_match` trades the first of the two abstract queues although
`front()` reads the vector: the head entry is valid and has the first place in
the map; or it is the tombstone of an order that was alone and was re-queued,
which is still the first in the map (`FrontFirst`); or it is of a filled order
that is not in the map, and then popping it is undefined and the step a stutter.
The invariant `FirstBook` states this of every level.

Second: `Spec => []DepthMatchesOpenOrders`, again with no condition on the
requests. The table reads each level three ways: the key of the side map, the size of the
level's map, and a sum over the valid entries of its vector. `LevelHolds` turns
the first two into facts about the registry: a side has a level at exactly the
prices of open orders, and the level's map holds exactly those orders.
`TotalQtyOfMap` does it for the sum: valid entries not in the map belong to
filled orders, which add 0, and the others are one per order. `ColumnInMapOrder`
says that the sorted sequence of prices exists and is the order of the map, from
which follow the rows, their number and the best price in the first one;
`TotalOrdersCounts` adds the sizes of the disjoint levels up to the number of
open orders. The table has a condition: `total_qty` reads the orders through pointers,
so the rows are right unless `PrintFault`, and `PrintFault` is "none" as
long as the pool was not outgrown (by `PointersStableWithinPool`). The totals and
best prices are right in any case. Run book_requests never outgrows its pool.

Third, the order streams of the main programs: `BenchSpec => []MatchRate`, for any
number of commands, provided that the streams' prices and quantities are in the
sets of the book (`StreamsWithinSets`). The invariant `BenchInv` counts a book's
orders in rounds of ten: where in its round the book is (`InTurn`), how many
orders rest on each side, and which rest at 10.00 (`Rounds`). The fifth and the
sixth order of a round do, and they trade before the round goes on, because the
sixth opens a level each time: the ask level at 10.00 was emptied and pruned in
the round before, so the flag is up. Everything else in the book is too far apart to cross
(`MatchCrossed`). With the pool a multiple of ten, as SPACE_RESERVE = 100,000 is,
`BenchSpec => []NoFault` too, however often the pool grows (`PoolRounds`): it grows
between two rounds, and the two orders that trade are of the current one.

**PriceLevelsProofs**: unless the only order of a level is re-queued (`~ GrowAlone`),
`Spec => []` of `SameQueue` and `OnlyFilledDangle`, for any number of orders and
entries. The invariant says what the vector's map, tombstones and head have to do
with each other, that the list is the listing (`Lists`) of the vector's map, and that the
list's own map holds the same orders and filled ones besides. The listing lemmas
then make an append of one an append of the other and an erased node a buried
entry; the two walks that sum quantities are both a sum over the set of queued
orders.

**ModifyFailureProofs**: for any number of failures, and for the constants as
above, `FailureSpec => []` of `FailureContained` and `NoOverfill`. A damaged book
violates most of what `OrderBookProofs` relies on: levels may be empty, entries
valid without being in the map, orders open and nowhere queued. The invariant
`DamageInv` is that of `OrderBookProofs` with every demand on an order dropped
once it is in `broken`, and with filled and broken orders treated alike where
they lie in a vector (`Settled`). Every request is seen in two steps: the order
it changes counts as broken while the level is changed (`OneOrderAdvances`,
`SideRemoves`, `SidePuts`, `SidePrunes`), and is released at the end, which needs
that no entry but its queued one is left of it (`Clean`, `Belongs`,
`SideReleases`); a failed request is the one that never gets to the second
step. A match needs both halves of `Settled`: a filled order that
comes to the front again trades nothing and stays as it is, and a cancelled order
that is matched anyway can only be a broken one. `ClosedUnlessBroken` is just
that, as an action property: what is left of `ClosedOrdersAreFinal` on a damaged
book. The exception is real: a cancelled order whose `modify_order` had failed
before can still be at the front of a level that was not pruned, and be filled.

The part of `FailureContained` about `end()` needs a second invariant, `TightInv`,
for runs without `growAlone`: every valid entry is the queued one of its order
or belongs to a broken order, and the entry at a head is valid or belongs to a
broken order. So a front order that is not in the map is broken
(`EraseEndInvolves`). It is `FrontInv` with the broken orders left out, and it is
kept request by request in the same way (`AddStaysTight`, `BuryStaysTight`,
`FailKeepsTightSides`, `PopKeepsTightSide`).

**SPSCQueueProofs**: for every capacity ≥ 1, every set of items and any number
of pushes, `Spec => []` of `TypeOK`, `SlotsHoldPushed`, `RaceFree`,
`DeliveredInOrder` and `WithinCapacity`, and `Spec => ImplementsFIFO`: the ring
buffer refines `BoundedFIFO`. None of the last three invariants is inductive: that the producer's slot
is free depends on a `_tail` it read long ago. The invariant says that going
round the ring one meets the producer's view of `_tail`, `_tail`, the consumer's
view of `_head`, and `_head` in this order (`OnTheWay`), that a test a thread
has passed stays true (`IndexOrder`), and that slot number *k* from `_tail`
holds item number *k* of those not yet delivered (`SlotsHoldPushed`). Four
lemmas do the modular arithmetic once (`SuccSlot`, `HeadMoves`, `TailMoves`,
`ViewMoves`); each action then has one lemma. For the refinement,
`ContentsWaiting` shows that the slots, read round the ring, are what was pushed
and not yet popped (`Rest`); then storing `_head` is `Enqueue`, moving the item out
is `Dequeue`, and every other step leaves both histories alone.

**IdAllocatorProofs**: for every number of books, block size ≥ 1 and word size,
`TypeOK`, `UniqueIds` and `NoReservedId`. The invariant (`BlocksDisjoint`) is that, until
the counter wraps, what the books may still issue is disjoint, below the counter
and not issued yet. One lemma (`StepDisjoint`) covers what the three actions
share.

**EngineProofs**: for every sequence of instruments (with repetitions), every
number of orders, and every set of configurations, `Spec => []` of `TypeOK`,
`OneBookPerInstrument`, `NothingLeftAtExit` and `NoOrderRefused`. The invariant
`EngineInv` has five parts. `Delivered` carries the argument: for each worker,
an accepted request routed to it is in its queue or in the log of its book; the
queue is sorted by number, with a poison pill only at its end and only once the
worker was asked; whatever is logged comes before whatever is queued; books the
router does not point to have empty logs. `Stopped` says that a worker that
stopped has an empty queue, so at exit everything accepted is logged. `Fits`
bounds what the producer takes to be in a queue by the number of submits so
far, which is why NumOrders + 1 slots refuse nothing. `Control` and `Phases` tie
the counters to main's position. The lemmas compare values before and after one
push or pop (`PushRequest`, `PushPill`, `PopQueue`, `PopLog`), are put together
once per kind of step (`SubmitDelivery`, `PillDelivery`, `ProcessDelivery`,
`StopDelivery`), and each action then has one lemma.

The constants are as the modules assume them; nothing else is assumed but the
conditions named above. Where a theorem has a condition on `AmendKinds`, runs
book_uncrossed and book_fronts satisfy it, and one of the runs marked ✗ shows that it
cannot be dropped. Runs levels and bench satisfy the conditions `~ GrowAlone`,
`StreamsWithinSets` and `PoolReserve % 10 = 0`.

Only model-checked: liveness (`MatchingTerminates`, `AllDelivered`,
`Terminates`), because the prover does not handle fairness. Every invariant,
action property and refinement that a passing run checks is a theorem.

## Not modelled

- `benchmark/main.cpp`: written against older interfaces, not in the build.
- Column widths of printed tables, time stamps (`get_updated_time` returns the
  time of submission), timing, core pinning; the SIGINT handler of the `_m`
  programs sets a flag that nothing reads.
- Floating point: prices are a finite set of positive numbers, in whole
  hundredths where they are printed. A NaN price, for which `std::map` is
  undefined, and negative prices, which can be mistaken for the -1 of
  `get_best_bid` and `get_best_ask`, are outside the models.
- `build_order_routing_system` without instruments or workers divides by zero;
  the assumptions of `Engine` exclude it, as the main programs do.
- Failed allocations outside `modify_order`: nothing catches them and the program
  ends.
- 2^64 arithmetic on quantities: `NoOverfill` keeps differences non-negative;
  the sum in `total_qty` could only wrap beyond 2^64 units at one price.

## Plan

Modelled: every component of the repository that the build uses, and the first
price level. Proved: every safety property and refinement that the passing runs
check. What would add to this:

1. Liveness, with a prover that handles fairness: for `MatchingTerminates`
   `LoopBounded` is the measure, and only the last step is missing.
2. A product of `Engine` and `OrderBook` in place of the argument that a book
   sees the requests of its instrument in order.
