# FreshFlow: a TLA+ model, its checks and its proofs

FreshFlow is a grocery-delivery system: a handful of Go services over one
PostgreSQL cluster, Redis and Kafka. This directory holds TLA+ modules of the
parts of it where concurrency and failure decide whether it is right, the TLC
configurations that check them, and TLAPS proofs of the most important results.

Contents: 1 the system, 2 the modules, 3 the runs, 4 fairness, 5 what the code
does otherwise than its documents say, 6 the proofs, 7 what is not modelled,
8 the plan.

## 1. The system

### Components, their state and operations

| component | state | operations that change it | modelled in |
|---|---|---|---|
| catalog-service (`services/catalog-service`) | `catalog.products.available_quantity`, `inventory_reservations` with items and the stored response, `catalog.outbox`; a Redis cache of the product list, a Redis TTL key per reservation | `Store.Reserve`, `Store.Release` | `Catalog` (run within `Checkout`) |
| order-service, HTTP (`services/order-service/internal/order/service.go`) | `orders.idempotency_keys`, `orders.orders`, `order_status_history`, `orders.outbox`; a session advisory lock per Idempotency-Key, a row lock per order | `Service.Create`, `Service.Cancel` | `Checkout` |
| order-service, consumer (`consumer.go`) | the same orders, `orders.processed_events` | `EventConsumer.handle` | `Lifecycle`; `Checkout` (`Advance`) against cancellations |
| delivery-service, consumer (`consumer.go`) | `delivery.couriers`, `delivery.deliveries`, `delivery.processed_events`, `delivery.outbox`, Redis GEO | `assign`, `cancel`, `updateLocation`, `applyPhase` | `Delivery` (atomic handlers), `DeliveryLocks` (statements and row locks), `Lifecycle` (retries, dead letters) |
| delivery-service, dispatcher API (`handler.go`) | the same tables | `delay`, `complete` | `Delivery`, `DeliveryLocks`, `Lifecycle` |
| delivery-service, prediction worker (`eta.go`) | `delivery.eta_predictions` | `predictMissing`, `save` | `EtaPrediction` |
| courier-simulator | a sequence counter | `Runner.tick` | `Delivery` (`Report`), `Lifecycle` (`Tick`) |
| outbox relay (`pkg/platform/outbox`) | `published_at`, `attempts` of every outbox table | `Insert`, `publishBatch` | `Messaging` |
| Kafka retry (`pkg/platform/kafkax`) and `cmd/dlq-replay` | consumer offsets, the `.dlq` topics | `Process`, the replay loop | `Messaging`; their effect in `Lifecycle` and `Analytics` |
| cart-service | `cart.carts` with a version, `cart.cart_items`, a Redis copy with a TTL | `Get`, `SetItem`, `DeleteItem` | `Cart` |
| notification-worker | `notifications.processed_events` (its inbox), `notification_log` | `Run`, `handle` | `Messaging` |
| analytics-worker | ClickHouse `delivery_events`, `order_analytics` | `Consumer.Run`, `Project`, `Store.Insert`; the queries of the dashboard | `Analytics` |
| api-gateway | none | proxying | not modelled |
| eta-service (Python) | none | `predict` | not modelled |
| web UI, Compose/Helm, dashboards | none | | not modelled |

### How they interact

* order-service calls cart-service (`CartClient.Get`) and catalog-service
  (`CatalogClient.Reserve`, `.Release`) over HTTP, each call with a 3 s client
  timeout and no retry of its own. It holds a PostgreSQL session advisory lock on
  the Idempotency-Key during `Create`, and a `SELECT ... FOR UPDATE` row lock
  on the order during `Cancel`, *across* those calls.
* Every domain fact is written to an outbox table in the transaction that made
  it true; a relay publishes it to Kafka at least once. Consumers record the
  event id in an inbox table in the transaction of their own changes.
* delivery-service consumes `orders` and `courier-locations`; order-service
  consumes `deliveries`. The simulator polls delivery-service for the assignments,
  publishes locations to Kafka and positions to Redis GEO.
* delivery-service picks a courier among the candidates Redis GEO proposes and
  confirms it in PostgreSQL under the courier's row lock.
* All services may run as several replicas.

### What is hard

* **Retries of a checkout.** Concurrent duplicates on several replicas, a
  process or a session lost at any point, a request taken up again half way.
* **A saga over HTTP.** A call that timed out may still be served later;
  a compensation may fail, or undo what in fact succeeded; a commit may succeed
  while the client of the database hears of an error.
* **Locks across calls.** A cancellation waits for catalog-service with the
  order's row locked while delivery events for the order arrive.
* **Events in any order, any number of times.** Two relay replicas with SKIP
  LOCKED, redelivery, dead letters replayed minutes later.
* **Redis and PostgreSQL disagree** about who is free and where.
* **An effect per event.** The relay dies between Kafka and PostgreSQL, the consumer between
  the effect and the offset; a rebalance gives a partition away while its records are still worked on.
* **A poll that brings records and an error.** The consumers look at the error and throw the records away, while the Kafka client has
  moved on behind them.
* **A cache and a version.** Readers write what they read into Redis while writers delete it.
* **A background worker** reads, calls out, and writes later with no lock held
  in between.
* **Lock orders.** A location report locks the courier and then the delivery, an end of the delivery the other way
  round; two assignments lock couriers in the order Redis gave each. PostgreSQL breaks the cycle, the handler starts again.
* **Two state machines that follow each other.** An order follows its delivery and the delivery its order,
  through topics with retries and dead letters; the delivery also follows phases that the simulator
  derives from the clock, each reported for a few seconds only.
* **Two inserts without a transaction.** analytics-worker has neither an inbox nor a transaction over its two tables.

`PROJECT.json` lists these hazards one by one, each at its source line, with
the properties that would fail if the code got it wrong.

### What makes each component correct

* catalog: every unit of stock is on the shelf or in exactly one active
  reservation; an attempt is decided once, answered alike for ever, announced once.
* checkout: one order per Idempotency-Key; an order only on a reservation that was
  granted, and with exactly its items; a cancelled order only on one that was released; the
  announced status changes form an unbroken chain; every request ends.
* delivery: a courier is on one delivery at most, and its status says whether
  it is; a delivery ends once, and nothing is changed or announced after that.
* predictions: written once, evaluated by the completion, never overwritten.
* messaging: an event written is lost only by a poll that returned an error, acts at most once, and in the end acts, is
  dead-lettered or was thrown away by such a poll; one relay at a time keeps the order of an aggregate.
* locks: however the statements interleave, each handler takes effect as one step, and only known pairs of handlers deadlock.
* lifecycle: order and delivery tell the same story once all events are handled; a delivery ends; a created order is
  never forgotten; the order learns of the end.
* analytics: no event is passed without all its rows, except a dead letter or one that a poll threw away; no figure counts too
  much; and the dashboard becomes exact once those are projected too.
* cart: an answer is never older than its version claims, and the copy in Redis converges.

## 2. The modules

```
Catalog  <--EXTENDS--  Checkout  --refines-->  CheckoutPromise
                          ^--EXTENDS--  CheckoutProofs  --EXTENDS-->  Sums
Delivery <--EXTENDS--  EtaPrediction  <--EXTENDS--  DeliveryProofs    (about both; refines Delivery)
    ^--EXTENDS--  DeliveryLocks  <--EXTENDS--  LocksProofs            (refines Delivery, HandlersAtomic)
                                               LocksProofs  --EXTENDS-->  DeliveryProofs
Lifecycle  <--EXTENDS--  LifecycleProofs
Messaging  --refines-->  EffectPromise
    ^--EXTENDS--  RelayTurns  <--EXTENDS--  MessagingProofs
Cart  <--EXTENDS--  CartProofs
Analytics  <--EXTENDS--  AnalyticsProofs  --EXTENDS-->  Sums
MCCheckout, MCDelivery, MCDeliveryLocks, MCEtaPrediction, MCMessaging, MCCart,
MCLifecycle, MCAnalytics: instances for TLC
```

A database transaction that takes the locks it needs at its start and makes no
remote call is one action. A handler that calls another service, or that commits
more than once, is cut exactly there. A transaction that returns an error is
rolled back and is therefore no step, unless the handler goes on after it.

In every module a comment starting with `Mutation:` marks a variant of the next
definition with a plausible bug in it. No specification uses these; each
property has one that violates it, listed in `PROJECT.json`, which shows
that the property says something about the code.

### Catalog

`Store.Reserve` and `Store.Release` (store.go:62-208). A reservation is named by its
checkout attempt, which is UNIQUE in the table; `"none"` is the absence of a row.
`Reserve` has the code's three outcomes: `ReserveReplay` (the stored response is
returned, *whatever became of the reservation since*, as in lines 73-81),
`ReserveActive` and `ReserveFailed`. A failed reservation is stored too and stays
failed. `ReserveResponse` and `GrantedItems` are what the caller is told: a retry hears the status and the items of the first
call, whatever its own cart holds by then. `Release` gives stock back only when the status is active. A release of an
unknown attempt is a 404 that changes nothing, so no step. The expiry time and the Redis key
that `Reserve` also writes are left out: nothing reads them (see section 5).

### Checkout

The state is what PostgreSQL holds (`idem`, `orders`, `outbox`, the two kinds
of locks), what each request being served knows (`handler`), what is on its way to
catalog-service (`calls`) and two history variables (`answers` and the `key`
field of an order).

| step of `Service.Create` | action |
|---|---|
| request read and hashed (handler.go:100-131) | `StartCreate` |
| `pg_advisory_lock` on a dedicated connection (34-42) | `AcquireKeyLock` |
| `prepareIdempotency` (189-217), a statement of its own | `PrepareNew`, `PrepareReused`, `PrepareReplay`, `PrepareResume` |
| user and cart checks (52-68) | `RefuseCart`, `SendReserve` |
| the reservation's answer (70-77) | `ReserveRefused`, `CallFails` |
| `persistOrder` (79-84, 220-283), which writes the items of the answer, not those of the cart | `PersistOrder`, `PersistFails`, `PersistUnknown` |
| the compensation (81) | `StartCompensation`, `CompensationDone`, `CallFails` |

`BeginCancel` and `CommitCancel` are `Service.Cancel` before and after the call
of `Release`; `CallFails` is its rollback. `Advance` is the event consumer for a
transition that succeeds. It waits while a cancellation holds the row.

Failures: `Abort` (crash, client gone, an error answered without compensation),
`LoseSession` (the connection that holds the advisory lock dies while the handler
waits on HTTP, which the handler cannot see; `persistOrder` runs on that
connection and then cannot commit), `PersistUnknown` (the commit succeeded and the
connection broke before the answer), `LoseCall`. A call of a handler that
gave up stays in `calls` with `by = NoHandler` and may be served at any later time.

`CheckoutPromise` is what a client of `POST /api/v1/orders` may rely on, in two actions:
a key places at most one order, and every successful answer for the key names it.
`Checkout` implements it with `placed` as the orders of the table grouped by
key (`PlacedByKey`).

### Delivery

One action per outcome of each handler of delivery-service, since each handler is
one transaction. Published events stay available, so any of them can be
handled again, late, out of order or never; the inbox (`inbox`, `seen`) decides what a
repeated one does. `Assign` admits any courier that Redis knows of and whose
locked row is available (the code takes the nearest; distances are not modelled).
`applyPhase` is `ReportPosition` (the phase the delivery already has),
`ReportProgress` and `ReportCompleted`; its error cases roll everything back. The
simulator's phase is a function of the time since the assignment and the injected delay
(`PhaseOf`, simulator.go:113-143): time is a counter per delivery, `PassTime` advances
it. `geo` are the couriers Redis may name, which only grows: an answer read before Redis lost its data may
still be in use. A cancellation that finds no delivery has no row to lock, so the assignment of its order may commit while
it is open: `CancelFindsNone` is its query, `missed` that it is open, `CancelTooEarly` its commit or its rollback.

### DeliveryLocks

Delivery once more, with each handler a transaction of several statements on a connection of the pool
(`Processes`: consumers of replicas and dispatcher requests). A step takes a row lock (the inbox entry, a
courier, a delivery), in the order of the code, and reads what it needs; the commit writes what follows from what
was *read*, with no look at what is true by then. `held` are the locks. A transaction that waits is not a step;
`AbortVictim` is PostgreSQL's deadlock check, `LoseConnection` any other failure, both roll back. `HandlersAtomic`
says that every step that changes Delivery's variables is a step of Delivery, so the atomic handlers of Delivery, about which
`DeliveryProofs` proves its theorems, are what the statements amount to. Delivery's `CancelTooEarly` is there because
of that property: no serial order of the handlers has its outcome, the statements do.

`LocksInit` is a backlog: two orders created, one of them cancelled, that one perhaps assigned already.

### Lifecycle

One order per element of `Orders`, from `Service.Create` to its end, with both services as consumers of each other's topic. The topics are
queues (per order, per courier), because here the question is what happens when nothing is reordered, and whether it comes to an
end; Delivery and Messaging have the reordering. A handler that succeeds is a step (`HandleOrderEvent`,
`HandleDeliveryEvent`); so is one refused on all three tries (`NobodyAvailable`, `RefuseDeliveryEvent`), which ends in the dead
letter topic, and one that fails for another cause (`OrderEventFails`, `DeliveryEventFails`). An event may also be thrown away by a poll with an error
(`OrderEventDiscarded`, `DeliveryEventDiscarded`, see Messaging); the history variable `discarded` keeps which. Such an
event does not come back here, as it would after a restart at an older offset. `Tick` is one second of the
simulator: every courier on a delivery reports the phase that `simulatedLocation` computes. `LoseReport`: the report
is never handled, whatever the reason. `elsewhere` are couriers taken by orders of no interest, so that every courier can be
busy. `ReplayOrderEvents` and `ReplayDeliveryEvents` are dlq-replay.

### EtaPrediction

Delivery's steps, extended by what a completion does to the stored predictions
(`applyPhase` 286-291, `complete` 156-165), and the worker: the batch query
(`predictMissing`), the call that may fail (`PredictFails`), and `save` in two
steps, because the `INSERT ... SELECT` reads `completed_at` in its statement's
snapshot while its row becomes visible only at commit.

### Messaging

The way of the events of one aggregate, which share a Kafka key and hence a
partition, from one service's outbox to one consumer group, for which
notification-worker's handler stands.

| code | actions |
|---|---|
| `outbox.Insert` (outbox.go:24-41) in a transaction that commits | `WriteEvent` |
| `publishBatch`: the locked batch (84-110), one record produced and marked (111-140), the commit (141) | `TakeBatch`, `Produce`, `CommitBatch` |
| a produce error, after which the earlier marks are committed (128-135) | `ProduceFails` |
| a crash, or an error of UPDATE or COMMIT | `RelayRollsBack` |
| `Consumer.Run`: poll, offset, end (consumer.go:28-56) | `Poll`, `CommitOffset`, `MemberStops` |
| its error branch: log and `continue` (31-36) | `PollFails` |
| `kafkax.Process` around `handle` (retry.go:52-91) | `HandleSucceeds`, `HandleFails`, `PublishDeadLetter`, `DeadLetterTwice` |
| dlq-replay's loop (main.go:86-144) | `StartReplay`, `ReplayRecord`, `EndReplay` |
| Kafka's group, a new release of the consumer | `Assign`, `Repair` |

`relay[r]` is a relay's open transaction: rows it has locked (`batch`) and marked (`done`); the
marks count only when it commits, while the record is in the log at once. A record
whose produce failed may be in the log all the same. `member[m]` is a member's fetch position and
the records it is working through; a member that loses the partition is not stopped, works on
and commits. `PollRecords` (franz-go v1.18) may return the records of healthy partitions together with an error of another partition or
of the group session. Every consumer then logs and polls again without a look at the records, but the client's fetch position is behind
them, and the next `CommitRecords` goes past them. `PollFails` is that step; `discarded` is a history variable, the offsets of the records thrown
away. They come back only when a member fetches from an offset before them. The outbox is in the order of `occurred_at`; that replicas' clocks agree on the order
of the transactions of one aggregate is assumed. `Poison` events are refused until `Repair`.

`EffectPromise` is the promise of README.md:160 (exactly-once effect by outbox and inbox), as two
actions: an event is written once; a written event acts at most once.

`RelayTurns` adds a history variable, `overlapped`: whether two relays ever had a batch at the same time.

### Cart

One user's cart. A change (`SetItem`, or a `DeleteItem` that finds the item) is one step, for
it holds row locks to its commit, followed by the deletion of the cached copy (`Invalidate`). `Get`
takes the copy, or reads version (`ReadVersion`) and items (`ReadItems`) in two statements, as
does a `DeleteItem` that finds nothing, and writes Redis (`FillCache`). Redis may fail at each of its
calls, and `Expire` is the copy's TTL. `versions` and `answered` are history variables: what each
version contained, and which carts `Get` answered.

### Analytics

The workers of a consumer group, record by record: `Take`, `InsertDelivery` and `InsertOrder` (the two statements of
`Store.Insert`), `Retry` (the handler from its start, three times), `PublishDeadLetter`, `Commit`. `PollFails` is the error branch of `Run`
(consumer.go:33-39): some records of a topic are thrown away and counted in `discarded`; a poll with records of several topics is several such steps. ClickHouse may fail with or without
having stored the row; a rebalance leaves the former owner with the record it works on; a worker dies anywhere.
The tables are copies per event. `Final` is what `FINAL` makes of the copies; the figures (`OrdersByHour`,
`PopularProducts`, `Cancellations`, `DeliverySLO`, `StatusDurations`) are the queries of store.go over either the table
or the backlog, and the properties compare the two.

## 3. The runs

| run | instance | checks | states | what it shows |
|---|---|---|---|---|
| `checkout` | 2 handlers, 2 keys, 2 attempts, 2 order ids, 3 products of which one is inactive, 2 baskets that compete for scarce stock, 2 bodies (one of an unknown user), 2 cart versions, 3 requests | `TypeOK`, `StockConserved`, `OneEventPerReservation`, `ReservationDecidedOnce`, `OneOrderPerKey`, `OrderBackedByReservation`, `CancelledOrderReleased`, `OutboxReplaysStatus`, `ImplementsPromise` | 412 560 | the saga, its stock and its announcements under duplicates, crashes, lost sessions and late calls |
| `checkout_live` | 1 product, the empty basket too, 2 requests | `RequestsEnd` | 159 564 | every request ends |
| `checkout_stock` | the same | `LiveOrderHoldsStock` (violated) | | finding 1 |
| `delivery_locks` | 2 connections, 2 couriers, 2 orders, 1 cancellation, 2 reports and delays together | `LocksTypeOK`, `DeadlocksKnown`, `CourierExclusive`, `CourierStatusTruthful`, `AnnouncedOnce`, `HandlersAtomic`, `FinishedStaysFinished` | 648 166 | the fleet under interleaved statements, deadlocks and lost connections |
| `delivery_cancelled` | `Delivery`, 2 couriers, 2 orders, 2 reports | `CancelledOrderHasNoCourier` (violated) | | finding 2 |
| `eta` | 1 delivery, 2 workers, 3 reports | `EtaTypeOK`, `OnePerWorkerLeftOpen`, `EvaluatedForGood` | 173 028 | the workers against the completion |
| `messaging` | 2 relays, 2 members, 2 events of which one is poison, 2 tries, 1 replay of 1 record, 1 failure, with fairness | `TypeOK`, `LostOnlyByFailedPoll`, `SkippedOnlyByFailedPoll`, `InOrderUnlessOverlapped`, `ImplementsPromise`, `EventsSettle` | 507 444 | the way of an event under failures, rebalances, relay replicas and a replay: nothing is lost but by a poll with an error, and every event that none threw away is settled in the end |
| `messaging_order` | 2 relays, 2 events, no failure | `EffectsInOrder` (violated) | | finding 3 |
| `cart` | 2 requests at a time, 2 products, 3 changes, with fairness | `TypeOK`, `ItemsNoOlderThanVersion`, `CacheConverges` | 1 107 516 | reads against changes and the cache |
| `cart_torn` | 2 requests at a time, 2 changes | `AnswersAreVersions` (violated) | | finding 4 |
| `lifecycle` | 1 order, 1 courier, 1 delay, reports up to 2 behind, 2 lost reports, 2 failed handlers or polls, 1 replay, with fairness | `TypeOK`, `AgreeWhenSettled`, `RefusedOnlyAfterFailure`, `StrandedOnlyByLoss`, `DeliveriesEndOrStrand`, `CreatedOrdersSettle`, `OrdersLearnTheEnd` | 465 719 | two services that follow each other agree and come to an end |
| `analytics` | 2 workers, 6 events of 2 orders in 2 topics, 2 tries, 1 replay, 3 failures, with fairness | `AnalyticsTypeOK`, `ForgottenOnlyByFailedPoll`, `FiguresTrue`, `SummaryConverges` | 721 718 | projections that fail half way, repeat, miss a record only after a poll with an error, and converge |

Bounds and why they are enough:

* Catalog has no run of its own: `checkout` calls it in every order the callers can produce, repeats and late calls included.
* `MaxRequests = 3` with 2 handlers: two requests overlap and a third retries after
  both; two keys and two bodies let a key be reused, mistyped and compete with another for
  the last unit. Two attempts suffice for two keys, as a key keeps its attempt.
  `MaxCartVersion = 2` lets the cart change between the two attempts of one key; cart-service may
  answer any version with any basket at any time (finding 4 is why), so that a retry of an attempt may ask for another basket than the
  reservation holds; that is the case for which `OrderBackedByReservation` speaks of items.
* `delivery_locks`: two connections make every pair of handlers, and every deadlock of two; of three
  in a circle `OnlyKnownDeadlocks` says that they are of the same kinds. Two inputs are enough for a report and its successor handled in the wrong
  order, or a report and a delay. The delivery of the backlog starts at `assembling`, so that two reports reach the end.
  Delivery itself is checked through this run (`HandlersAtomic`) and, for one delivery and all its phases, by `eta`.
* `eta`: a delivery needs three reports to reach its end; the first of them, handled again, is then late. With
  `AssemblingUntil = 1` and `DeliveringUntil = 2`, `MaxAge = 2` reaches every phase;
  one delay of one unit takes the phase back by one.
* `lifecycle`: an order shares nothing with others but the couriers, for which `elsewhere` stands. Assembling lasts one second and
  delivering two (3 s and 12 s in the code), so that two lost reports are what it takes to miss either; `MaxAge` only stops the clock after the last phase with the longest delay.
  With one order the conjunct of `TypeOK` that a courier carries one delivery at most has nothing to say; `delivery_locks` checks it with two couriers and two
  orders (`CourierExclusive`), and `LifecycleTypeCorrect` proves it of any number.
* `analytics`: the backlog has every kind of event and every combination of rows, one order cancelled after its confirmation and one delivered late, of
  which order-service has not heard yet. The handler is tried twice (three times in the code): with three failures it can be dead-lettered and fail once
  more, or a poll with an error can follow or precede.
* Messaging: two events make an order, two members a rebalance with an overlap. `MaxFaults` bounds crashes,
  rebalances, lost answers, failed calls and failed polls together, and the poison event's tries and dead letter are failures of their own. The
  log needs no bound of its own, for only failures and replays lengthen it.
* Cart: `MaxVersion` bounds the changes, not the requests. Two requests at a time are a reader and a writer in any interleaving; with three changes a copy can be two versions behind.
* Symmetry is used for handlers, attempts, order ids, couriers, orders,
  workers and group members, which the specifications treat alike, and only for runs without
  liveness properties. Keys are not symmetric: nothing is gained with two.
* Deadlock is not checked for the runs whose bounds end every behaviour (requests, reports and
  time run out, every event of Messaging is settled, a lifecycle ends, the backlog of Analytics is worked off). The cart runs have no such bound and are checked for deadlock.

## 4. Fairness

`Checkout!FairSpec`:

* `WF_vars(HandlerStep(h))` for each handler: a request that is running takes a
  next step when it can. The Go runtime schedules the goroutine, PostgreSQL
  answers and grants a free lock, and `http.Client.Timeout` (3 s,
  order-service main.go:51-62) ends a call that is not answered (`CallFails`).
  Aborts, lost sessions, delivery events and cart changes are not in it: nothing
  must fail or happen.
* `WF_vars(CatalogStep)`: catalog-service serves or loses what it was sent.

Weak fairness does not promise an advisory lock to a waiter while others keep taking
it. `MaxRequests` excludes that here; in the program, PostgreSQL's lock queue
does. `RequestsEnd` therefore shows that no lock is left behind and that no wait is
circular. It does not show freedom from starvation under endless load.

`Messaging!FairSpec`: weak fairness of each relay's step (`Relay.Run` polls every 500 ms for ever), of
each member's step (`Run` polls for ever and repeats a dead letter until it is published), and of the
assignment of a partition nobody owns. Failures are in none of them, and `MaxFaults` makes them finitely many: the
property says what happens once they stop. It promises nothing of a record that a poll threw away, since nobody has to restart the consumer. `Repair` and the replay are not fair: nobody has to run them.

`Lifecycle!FairSpec`: weak fairness of each consumer (`Consumer.Run` polls for ever; a record that is refused is dead-lettered,
so it moves on), of the handling of reports, and of the simulator's tick. Customers, the dispatcher, failures, lost
reports and replays are not fair; `DeliveriesEndOrStrand` therefore does not lean on an operator's completion.

`Analytics!FairSpec`: weak fairness of each worker's step; failures are finitely many by `MaxFaults`.

`Cart!FairSpec`: weak fairness of each request's steps, and of `Expire`, the TTL with which `Get` writes the copy
(store.go:37). `CacheConverges` depends on the latter: a writer's deletion can be lost, or precede a slow reader's fill.

## 5. Where the code differs from what is said of it

1. **A live order without its stock** (`checkout_stock`, `LiveOrderHoldsStock`).
   When `persistOrder` fails, `Create` releases the reservation but leaves the
   idempotency row `processing` with the same attempt. The client's retry reserves with that
   attempt, `Store.Reserve` answers from the stored response, `active`, and the order is
   created on a reservation that is already released. The same state follows from a
   commit whose answer was lost, and from a `Release` that is served after `Cancel` timed
   out and rolled back. README.md, step 6, and its paragraph on the compensation say otherwise.
2. **A courier for a cancelled order** (`delivery_cancelled`,
   `CancelledOrderHasNoCourier`). `order.cancelled` handled before `order.created` is
   marked processed and forgotten, and the later `assign` does not look for it. This property is the one that shows it: `HandlersAtomic` has the
   forgotten cancellation among the steps of Delivery, hence permits it.
3. **Two relays reorder an aggregate** (`messaging_order`, `EffectsInOrder`). docs/architecture.md:142 and
   docs/events.md:9 promise the order of an aggregate's events. `SKIP LOCKED` lets a second relay replica publish a
   newer event of an order while the first still holds the older one. With one relay the order holds, also under
   failures and rebalances, and with two as long as their batches never overlap (`InOrderUnlessOverlapped`). Findings 2 and 3 compose: this is one way for `order.cancelled` to come first.
4. **A cart that never was** (`cart_torn`, `AnswersAreVersions`). `Get` reads version and items in two
   statements without a transaction; a change in between gives the old version with the new items, which is also
   cached. docs/architecture.md:29 says that the version protects the checkout from just that. What does hold
   is `ItemsNoOlderThanVersion`: the items are never older than the version, so the harm is limited to newer
   items under a version that the client saw with others.

Each is a counterexample of a few steps that the run prints. More differences have no run of their own:

* README.md:217 and docs/events.md:104 say that an offset is committed only after the effect or the dead letter. A poll that returns an error is
  thrown away whole, with the records it brought (notification-worker consumer.go:31-36; the same loop is in the consumers of order-service,
  delivery-service and analytics-worker). The client has moved behind them, so the next commit passes them, and neither an effect nor a dead letter is
  left. The model has the step (`PollFails`), and `SkippedOnlyByFailedPoll` and `LostOnlyByFailedPoll` show that there is no other way; without their
  exception for records thrown away TLC finds them violated: two records are written, the first is thrown away, the member goes on with the second, whose commit
  will pass both. What it does to the services is in `lifecycle` and `analytics`: an order whose creation is thrown away gets no courier, and a projection
  is missing without a trace.
* README.md:99 and docs/architecture.md describe a periodic release of expired reservations. The code writes the
  expiry and never reads it, so a checkout that dies between reservation and order keeps the stock until someone
  retries its key.
* services/delivery-service/README.md:7 says that a completion links all predictions with the actual time. When `save`
  reads `completed_at`, the delivery completes, and `save` commits, the new row is never evaluated. What the `eta` run
  shows is the limit of this, `OnePerWorkerLeftOpen`: a worker can leave one such row per delivery, no more.
* services/courier-simulator/README.md:3 says that an active assignment is advanced to completed in roughly 15 seconds. The
  assembling phase lasts 3 s; when its reports are lost (a restart, a consumer error), every later report is an invalid
  transition (consumer.go:260) and the delivery hangs until the operator completes it. `StrandedOnlyByLoss` and
  `DeliveriesEndOrStrand` show that this is the only way, delays and a lagging consumer included.
* docs/architecture.md:101 says that without Redis the assignment degrades to a PostgreSQL fallback, and a rate limiter fails open. There is neither:
  the handler fails and the event is dead-lettered, as when every courier is busy.
* docs/architecture.md:103 says that without ClickHouse the offset is not advanced. After three tries the record is
  dead-lettered and the offset moves on; `ForgottenOnlyByFailedPoll` is about both, and about the polls with an error.
* services/analytics-worker's documentation speaks of one snapshot of the dashboard. It is six queries one after the other, so two
  figures of one answer may differ by an event; `FiguresTrue` holds of each figure at its own time.
* docs/architecture.md shows a cancellation of an assembling order; `Service.Cancel` accepts created and confirmed only.
* A completion by the operator carries no prediction, hence is not among the deliveries of the on-time ratio (`Completed`).

## 6. The proofs

Eight modules with proofs, checked by TLAPS with Z3, Zenon and LS4: `CheckoutProofs`, `DeliveryProofs`, `LocksProofs`,
`LifecycleProofs`, `MessagingProofs`, `CartProofs`, `AnalyticsProofs`, and `Sums` with what two of them need of sums over sets.
Together they state every safety invariant, every safety property of steps and every refinement that a passing run checks. They hold for every value of
the constants that satisfies the assumptions the modules name: the "No..." values differ from the real ones; stock, basket
quantities, bounds and times are numbers; active products are products; a phase of the simulator comes before the next one, and its clock (`MaxAge`) runs past the last of them.
Three sets are assumed finite: the couriers, because Redis answers with a list of them (`LocksAssumption`), the prediction
workers, because a property counts them (`EtaAssumption`), and the topics of the consumer (`AnalyticsAssumption`). Requests, attempts, orders, members
and relays may be any number. TLC evaluates the assumptions on every run.

`CheckoutProofs`

* `TypeCorrect`: `Spec => []TypeOK`. `TypeOK` is not inductive: it admits a request that
  reserves for `NoAttempt`. `TInv` adds what is filled in when: `SlotsFilled` (a request past the
  lock has a key and a body, one past the preparation an attempt) and `RowsFilled` (a processing row has an
  attempt, a completed row an order, an order that can be cancelled a reservation).
  `available \in [Products -> Nat]` in it is the proof that `Reserve` never oversells.
* `AtMostOneOrder`: `Spec => []OneOrderPerKey`. The argument: `KeyRows` says that an order
  placed for a key and the key's completed row name each other, so a second order for
  the key would need the row to be processing again. `KeyLocks` says that a
  request about to prepare holds the key's lock, and that one at the cart or the
  reservation which still holds it has a processing row: only a holder changes the row, and
  `persistOrder` needs the lock's session. A handler whose session was lost keeps
  running but cannot commit. `CancelsPlaced` keeps a cancellation to an order that exists.
* `PromiseKept`: `Spec => ImplementsPromise`, the refinement. `PersistPlaces` and
  `ReplayAnswers` map the committing steps to `Place` and the replay to `Answer`;
  `OthersStutter` shows that all other steps leave `placed` and `answers` alone.

* `AnnouncedWithTheRow`, `DecidedOnce`, `StockWithReservation`: the catalog's promises with Checkout's callers. `CatalogInv` is the types with the
  agreement of row, stored answer and announcement; `Reserve` writes them in one transaction and `Release`
  touches the status only. `StockWithReservation`: stock moves only with one reservation, by its items (no run checks this form).
* `StockNeverLost`: `Spec => []StockConserved`. `StockInv` adds that finitely many reservations are active, which gives the sum its
  meaning when there is no end of attempts. `HeldMore` says that a reservation which becomes active adds its items to the sum; read backwards, what
  a release takes out of it; `HeldSame`, that nothing else moves it. Both rest on `Sums`.
* `OrdersBacked` and `CancelledReleased`. What makes an order's reservation one that was granted is three steps away, so the invariant
  follows the answer: `CallsInv` says that a call in flight for a handler asks for the attempt and the basket of that handler's
  request, and that an answer it holds (`active`, or a release that was done) agrees with catalog-service's row, which
  may since have been released but never un-granted. The answer's items are followed in the same way, because `persistOrder` writes those and not the
  cart's: `RepliesHold` says that an answer of `active` carries the items of the row, also when the row is that of an earlier call with another
  cart (`ReserveDecides`), and `DeliverReaches` that it reaches the request that asked and no other. `OrdersInv` says that an order names such a row and has its
  items, which is the property, and that the row of a cancelled order is released. `SlotMoves` and `QuietKeepsCallsInv` carry the steps that concern neither.
* `HistoryAnnounced`: `Spec => []OutboxReplaysStatus`. An update must start from the status that the last announcement ended with. `CancelsHold` is why a
  cancellation may write what it read before its call to catalog-service: it holds the row's lock from the read to the commit, and `Advance` needs the
  lock. `OutboxOf` says of each order that its announcements form a chain which ends in its status (`ChainGrows`).

`DeliveryProofs`

* `TypeCorrect`: `Spec => []TypeOK`, inductive as it stands. (No run lists it: it is a conjunct of `LocksTypeOK`.)
* `Exclusivity` and `StatusTruthful`: `Spec => []CourierExclusive`, `Spec =>
  []CourierStatusTruthful`. Neither is inductive alone: an assignment keeps couriers
  exclusive only because an available courier carries nothing, and the end of a delivery
  may free its courier only because it carries nothing else. `FleetInv` is both with the types.
* `Finality`: `Spec => FinishedStaysFinished`, an action property, from the types and the
  status guard of each handler.
* `EachStageAnnouncedOnce`: `Spec => []AnnouncedOnce`. `InStep` states it of one delivery, element by element: the announcements are as many as the stages
  reached, the i-th is the i-th stage, and after the end there is one more. `MoveTo` lists what a step may make of status and announcements together.
* `WorkersOnlyAdd`: `EtaSpec => Spec`, the refinement: what is proved of Delivery holds with any number of workers.
* `EtaTypeCorrect` and `EvaluationIsFinal`: an open `save` that read `completed_at` (`SavesTruth`) writes the truth even if it
  commits much later, because a completed delivery stays completed (`NextRespectsFinished`).
* `LeftOpenByWorkers`: `EtaSpec => []OnePerWorkerLeftOpen`. The completion evaluates every stored prediction, so at that moment none is open; only the
  `save`s that had read an empty `completed_at` can still add one. The invariant counts them together: of a completed delivery, the open
  predictions and the open `save`s that will add one are at most the workers, and a commit turns one of the latter into one of the former.

`LocksProofs` (on top of `DeliveryProofs`)

* `StatementsAtomic`: `LocksSpec => HandlersAtomic`, the refinement: however the statements of the handlers interleave, each transaction takes
  effect as one step of Delivery, when it commits. The invariant is `TxInv`: `Shapes` says for each point of each handler which rows it has locked and
  that what it read of a locked row is still in the table; `Exclusive`, that a locked row has one holder. The step that
  matters is another transaction's commit: it writes only rows it has locked, so it leaves alone what others have read under a lock. `MissedByCancel` is
  the one thing read without a row to lock: a cancellation that found no delivery.
* `LockedExclusivity`, `LockedStatusTruthful`, `LockedAnnouncements`, `LockedFinality`: Delivery's theorems, now of the interleaved statements, by the
  refinement. `LocksTypeCorrect`: the types.
* `OnlyKnownDeadlocks`: `LocksSpec => []DeadlocksKnown`, for circles of any length. `WaitingShape` says what a waiting transaction holds and wants: an assignment holds couriers and
  wants another, an end of a delivery holds it and wants its courier, a report the other way round, and the rest hold nothing anybody wants. So a
  circle has a report and an end in it, or assignments only.

`LifecycleProofs`

* `ServicesAgree`: `Spec => []AgreeWhenSettled`. `Agreement` says it of the moments between: what one service has told the other (`OrderNews`, `DeliveryNews`:
  queued, dead-lettered, handled or thrown away) is never ahead of its own state, and what it reached is among the news. When nothing is queued
  or dead and nothing was thrown away, the news are what was handled, and the two states meet. `Kinds` lists what a step may do, seen from one order: its two tables, four queues and marks
  change in a dozen ways, and each part of the invariant is shown once for each (`StepKinds`).
* `RefusalsNeedFailures`: `Spec => []RefusedOnlyAfterFailure`. While no handler and no poll failed, the queued events of a delivery are a path of statuses that ends in its
  own and starts where the order can go on (`InStep`), so none is refused.
* `StrandingNeedsLoss`: `Spec => []StrandedOnlyByLoss`. While no report was lost, a phase that the clock has passed and the delivery has not reached is among
  the courier's unread reports, assembling before delivering (`HasSaid`), delays included. `Manned` ties a delivery to one courier's reports.
* `LifecycleTypeCorrect`: the types.

`MessagingProofs`

* `TypeCorrect`: `Spec => []TypeOK`; `Types` is the same in parts. That the log never shrinks keeps offsets and fetches in range.
* The inductive invariant is `IInv`, `Types` with `Genuine` and `Progress`. `Genuine` follows an event's origin: marked rows and the records a
  relay counts as done are in the log, the log holds only rows of the outbox, the dead letter topic only records of the log, and
  the inbox is the set of effects. `Progress` adds to `SkippedOnlyByFailedPoll` why it is kept: a member about to commit has settled its
  record, and what lies before a fetch position is settled, thrown away by a poll, or still in the member's hands, so that the next
  poll may start there. `OutboxSteps`, `TopicsSteps` and `EffectsSteps` say once what any step may do to the tables and topics;
  `Monotone` concludes that nothing settled becomes unsettled, which carries all steps but the member's own.
* `NothingElseSkipped` (`SkippedOnlyByFailedPoll`), and `NothingElseLost` (`LostOnlyByFailedPoll`) from it: a marked event is in the log, at or after the
  offset, or before it, where it is settled or was thrown away. `PollFailsKeepsProgress` is the step that throws away: it moves the position and `discarded` together.
* `PromiseKept`: `Spec => ImplementsPromise`. Only `WriteEvent` and a handler whose event is not in the inbox are
  visible, and the inbox is the set of effects.
* `OrderKeptInTurn`: `TurnsSpec => []InOrderUnlessOverlapped`, of `RelayTurns`. While no two relays have overlapped, a batch holds the oldest rows that are
  not marked (`BatchesOldest`), so an event is in the log only behind all that occurred before it (`LogInOrder`); and as no member skips a record but by a failed poll, it takes effect
  only when those are settled or were thrown away (`OlderAnswered`), which makes them late in the sense of the property. The last step is where `Progress` is needed.

`CartProofs`

* `NoOlderItems`: `Spec => []ItemsNoOlderThanVersion`, with `TypeCorrect` from the same invariant. `FreshInv` follows a read through its two statements and into Redis: the
  cart is the last entry of the history, a version that was read is at most the current one, and a value about to
  be cached, one that is cached and one that was answered have the items of their version or of a later one. A change appends to the
  history, so what was fresh stays fresh (`ChangeKeepsFreshInv`); no step of the cache matters (`ReadsKeepFreshInv`).

`AnalyticsProofs`

* `AnalyticsTypeCorrect` and `PassedIsProjected` (`ForgottenOnlyByFailedPoll`) from `AnalyticsInv`. `InHand` follows a record through the two inserts: everything before it
  is done with or was thrown away, and at each statement the ones before it have taken effect. `FetchedSettled` is why the owner may go on: of the records it fetched only the one in
  its hand is neither done with nor thrown away; a former owner's record has been fetched again.
* `FiguresNeverTooHigh`: `Spec => []FiguresTrue`. `RowsTrue` says that a row is a fact, so a figure of the table is a sum over part of the facts with
  weights no larger (`CountMonotone`, `PiecesMonotone`). A duration needs more: with a row come the rows of all that preceded it in its order, or an
  event of the order is a dead letter or was thrown away (`HistoryKept`). This holds if the topics show the history of each order as it was, which is the theorem's
  hypothesis `BacklogInOrder`. The hypothesis is not vacuous (the instance of the run satisfies it, `MCBacklogInOrder`) and not free: finding 3 is a way to break it,
  `OrderKeptInTurn` says when it holds. The counts do not depend on it.

`Sums`: totals of a function over a finite set, which is what `MapThenSumSet` computes (`TotalUnfolds`): what they are without one element, whichever (`TotalWithout`), and that
they grow with the set and the weights. `SubsetInduction` is an induction over the subsets of a finite set with a set for the
predicate; it follows from the well-foundedness of inclusion, where the induction theorems of the library take an operator that the provers cannot instantiate.

Checked by TLC only: liveness (`RequestsEnd`, `EventsSettle`, `CacheConverges`, `DeliveriesEndOrStrand`, `CreatedOrdersSettle`,
`OrdersLearnTheEnd`, `SummaryConverges`), which needs `ENABLED` of the fair actions, and the findings, which are counterexamples.

## 7. What is not modelled, and why

* The product list, its cache and prices; positions, distances and routes; ETA values;
  totals and currencies: data that no property distinguishes.
* Read-only endpoints and SSE streams: they change no state.
* api-gateway: a proxy without state. The eta-service's model, the UI, telemetry, health probes and deployment.
* Average ETA figures, and the reporter that copies `DeliverySLO` into two gauges (slo.go; telemetry.go:151 keeps the last ratio when no delivery is completed).
* Kafka itself: a partition is a sequence, a group an owner and an offset; several partitions and the other consumers' handlers are not in Messaging.
* The deadlock of `SetItem` and `DeleteItem` in cart-service: PostgreSQL breaks it, and the aborted transaction is a step not taken. DeliveryLocks shows the like for delivery-service.
* Messaging is not composed with the services: Delivery assumes only that a published event is
  genuine, which `MessagingProofs` proves; Checkout's `Advance` assumes nothing at all; Lifecycle and Analytics have the retry, the dead
  letter and the replay as steps of their own, and in Analytics a former owner of a partition finishes one record instead of its whole fetch.
* Lifecycle has no crash between a handler's commit and its offset: the record is then handled again, and
  `processed` makes that no step, as Messaging proves of the inbox.

## 8. The plan

Done: 1. `Catalog`. 2. `Checkout` with its abstract promise. 3. `Delivery`. 4. `EtaPrediction`.
5. `Messaging` with its abstract promise, `RelayTurns`. 6. `Cart`. 7. `Lifecycle`. 8. `Analytics`. 9. `DeliveryLocks`. 10. Proofs of every safety property
and refinement of the passing runs.

Next: the product cache of catalog-service (the last reads that can be stale); the statements of cart-service with its lock
order, refining `Cart` as DeliveryLocks refines Delivery. Theorems to add with them: that both refine what is proved here.
