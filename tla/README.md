# A TLA+ verification of EventSphere

EventSphere sells seats of events. An API service takes bookings, an Inventory
service owns the seats, and workers joined by Kafka charge, decide and announce
the orders. This directory models the parts where its correctness is decided,
checks them with TLC on small instances, and proves the central facts with TLAPS
for every instance.

## 1. The system

| Component | State | Operations | Meets the others by |
|---|---|---|---|
| Inventory service (`services/inventory/app`) | `event_inventory` rows with a `version`, `reservations` rows without one, a Redis key per event | initialize, adjust, reserve, confirm, release, sweep | gRPC from the API, Kafka from the event service, the reaper |
| Reservation reaper (`workers/reservation_reaper.py`) | none | sweep, then one `RESERVATION_EXPIRED` per reservation | Kafka, keyed by the event |
| Booking service (`api/app/services/booking_service.py`) | `orders` rows, a partial unique index | book, cancel | gRPC to Inventory, `ORDER_CREATED` and `ORDER_CANCELLED`, keyed by the order |
| Payment worker | the charges at the gateway | charge | consumes `ORDER_CREATED`, publishes `PAYMENT_PROCESSED` |
| Order status worker | `orders` rows | on payment: confirm or release, store, announce; on expiry: store | gRPC to Inventory, `TICKET_ISSUED`, `ORDER_CANCELLED` |
| Notification worker | the mails | mail | consumes the announcements |
| Kafka consumer loop (`shared/kafka/consumer.py`) | positions and committed offsets | deliver, handle, commit | runs under every worker |
| Event service, event-sync consumer | `events` rows | create, update, delete; initialize and adjust | Kafka, keyed by the event |
| Authentication (`api/app/services/auth_service.py`) | `users` rows, a Redis key per refresh token | register, login, refresh, logout | in front of every other endpoint |
| Rate limiter (`api/app/core/rate_limit.py`) | a Redis counter per client and minute | admit or refuse | middleware of the API |
| Paginated lists (`shared/pagination.py`, `list_for_user`, `search`) | none | a COUNT and a page | read the `orders` and `events` tables |

The deployment runs three API pods, three or more inventory pods and two pods of
each worker (`infra/kubernetes`), so every pair of these operations can overlap.

What is hard, and what should hold:

* **Inventory.** Each operation is a transaction that reads rows and later writes
  them. Rows of `event_inventory` are guarded by a version, reservations by
  nothing, and the Redis lock may expire under its holder. It is correct when no
  update is lost, seats are only granted if free, the counters equal the
  reservations, no event is oversold, and every call ends.
* **Orders.** Booking, cancellation, payment and expiry work on one order and one
  reservation from four processes, with an await between each two effects, and any
  of them may die there, or be overtaken by another that has the same order in hand.
  It is correct when a settled order holds no seat, nothing
  is sold unpaid, a key makes one order, and no seat is held for ever.
* **Delivery.** Consumers crash, partitions move under a running handler, one
  commit covers several messages. It is correct when no message is passed over
  before a handler has finished with it.
* **Event sync.** An event's capacity lives in two databases; a commit in one is
  announced afterwards on a topic that may redeliver or lose. It is correct when the
  inventory only ever has a capacity that was committed, and has the last one when
  all is quiet.
* **Sessions.** A refresh token is a key in Redis that a refresh reads, deletes and
  replaces in three commands, and a logout deletes. It is correct when a token is
  used once, a session has one token, and a logout ends it.
* **Rate limiter.** The clock, INCR and EXPIRE are read and sent one after the other;
  a request may be late or die between them. It is correct when a window admits its
  limit, refuses nobody earlier, and no key stays.
* **Lists.** A client walks through pages of a table that changes. It is correct when
  the walk shows all that was there, and repeats only what insertions push back.

`PROJECT.json` lists the hazards with their lines.

## 2. The modules

| Module | What it is |
|---|---|
| `Inventory` | the Inventory service, statement by statement |
| `SeatLedger` | what it promises: capacities and holds, changed in single steps |
| `InventoryRefinement` | `Inventory` mapped to `SeatLedger` |
| `InventoryProofs` | theorems about `Inventory` |
| `InventoryRefinementProofs` | the theorem that `Inventory` implements `SeatLedger` |
| `Booking` | an order through API, workers and reaper, with the settlement transactions they start |
| `BookingProofs` | theorems about `Booking` |
| `KafkaConsumer` | `BaseKafkaConsumer` in a consumer group |
| `KafkaConsumerProofs` | theorems about `KafkaConsumer` |
| `EventSync` | an event's capacity from the API over the topic to the inventory |
| `EventSyncProofs` | theorems about `EventSync` |
| `Sessions` | `AuthService`: accounts and refresh-token rotation |
| `SessionsProofs` | theorems about `Sessions` |
| `RateLimit` | `RedisRateLimitMiddleware` and its keys in Redis |
| `RateLimitProofs` | theorems about `RateLimit` |
| `Listing` | the paginated lists and a client that walks through one |
| `ListingProofs` | theorems about `Listing` |
| `MCInventory`, `MCBooking`, `MCKafkaConsumer`, `MCEventSync`, `MCDelivery`, `MCApi` | the instances for TLC; `MCDelivery` holds `KafkaConsumer` and `EventSync`, `MCApi` the last three components side by side, as they share no state |

Operators whose comment begins with *Mutant* are variants with a plausible bug; each
stands before the definition it imitates, is used by no specification, and is what
`PROJECT.json` substitutes to show that a property can fail.

### Inventory

A *call* is a gRPC request, a message of the event-sync consumer or one sweep.
`inv` and `res` are the two tables, `rows` and `seen` what a call's session has
read of them, `lock` the Redis keys, `pc` and `tries` the place of a call and the
failed rounds of its current retry loop. A reservation is named by the call that
made it.

Postgres runs at READ COMMITTED and an updated row stays locked until its
transaction ends. So each SELECT is a step of its own (`ReserveRead`, `SettleFind`,
`SettleLoad`, ...), and flush with commit is one step (`ReserveCommit`,
`SettleCommit`, ...), guarded by `Current`: the `WHERE version = :expected` of
SQLAlchemy. A sweep loads the row of each event once (the identity map) and commits
all releases together; one stale row undoes all (`SettleStale`). Only `reserve`
retries after a conflict; `confirm`, `release`, `adjust` and the sweep pass it on.
`LockExpire` may happen at any time, also under a live holder; `Unlock` is the
`finally` block with the compare-and-delete script, whose failure is swallowed.
`Abort` is any other exception, `Crash` the death of a process.

`Spec` leaves everything free. In `SerialSpec` no two calls have one reservation
in their sessions at the same time. Nothing in the service enforces that; it is the
condition under which the ledger's promise holds, and the run `inventory_oversell`
shows that it is needed.

### Booking

One variable per place where an order leaves a trace: `book` for its request, `order`
and `resv` for the two rows, `created`, `payments`, `expiries` and `notes` for its
messages, `charge` and `charged` for the payment worker. Everything that settles an
order is a process with a place (`pc`): cancel requests (`Cancels`), runs of the status
worker's handlers (`Handlers`) and replicas of the reaper (`Reapers`), as many at a time
as the instance says and any two of them on the same order. `job` is the order and the
message a caller is at, `batch` the reservations in a reaper's hand.

`ConfirmReservation` and `ReleaseReservation` are three steps, as in `Inventory`: the
SELECT of the reservation (`SettleRead`), the SELECT of the row (`LoadRow`), flush and
commit (`SettleCommit`). Only the row has a version: a commit sends every session that
had loaded the row to `stale` (`Outdated`), and overwrites the status of the reservation
whatever it has become since it was read. A sweep is `SweepFind`, `LoadRow` and
`SweepCommit`, or `SweepStale`, which undoes all of it. `ReserveSeats` is one step, since
the version check makes it one. Both settlement calls answer success whatever the status
was, and the client looks at no answer. Stores into `orders` are unconditional, as that
table has no version either.

`twice` is a history variable: the reservations that were freed and then settled again by
a session that had read them before. That is the race of `inventory_oversell`, started by
the callers of this module. It is not excluded; a confirm that overtakes a release leaves a
cancelled order with a confirmed seat, and the properties name it as their one exception.

`Faults` switches on everything that fails: requests that die; calls whose caller died or
timed out and that go on without it (mode `left`); commits of offsets that are lost (the
message comes again); handlers that raise (the message may come again, or be passed by a
later commit, as `KafkaConsumer` shows); partitions that move to another member while a
handler runs on (mode `revoked`, after `Rebalance`), so that two handlers have one
message; a reaper that dies before or after its commit. The expiry message has another key
than the payment message of the same order, so the two are handled at once even without
faults. Every order is for one seat of one event, which is neither created nor deleted
here.

### KafkaConsumer

`fetched[p]` moves when a message is delivered, `offset[p]` when a member
commits. aiokafka's `commit()` without arguments commits the positions of all
partitions the member has at that time, so `Commit` changes several. `Revoke`
takes a partition away while its message may be in the handler; the old owner goes
on, and its commit no longer covers the partition. The broker, the group protocol
and aiokafka's positions are external and modelled from how `consumer.py` uses them.

### EventSync

One event. `row` is its `total_seats` in the API's database, `capacity` the
`total_capacity` in the inventory's, `topic` its messages. An update is `UpdateLoad`,
`UpdateStore`, `Publish`: whether seats changed is decided against what was read, the
commit writes the column if it changed, the message carries the request's own value.
An UPDATE of a row that is gone raises; a DELETE may meet orders that refer to the
event; no message tells of a deletion. On the other side, `Applied` is what the two
cases of `_handle_message` do to the inventory row, with `Raises` for the
`NotFoundError`. Messages are delivered again after `Restart`, passed over after
`HandlerRaises` and `OtherCommit`, and applied late by a former owner of the partition
(`Rebalance`, `ZombieHandles`).

Two history variables record what no table keeps: `stored`, all values ever committed,
and `clean`, which turns false when an update begins while another change is not yet
announced, when a committed change is not announced, when a handler fails on a message,
or when a former owner applies one.

### Sessions

A call to an `/auth` endpoint is `idle`, then past its first await (`checked`, `got`)
or about to store a token (`issue`), then `done`. What a call makes (an account, a
token, a session) carries its name, as each has a fresh uuid. `live` are the tokens
with a key in Redis, `minted` those a client has, `expired` those `decode_token`
refuses. `RefreshGet`, `RefreshDel` and `Issue` are the GET, DEL and SET of a refresh;
`CallDies` ends a call between any two of them. The passwords, signatures and access
tokens are not there: a wrong password is a `Login` that ends, and a forged token never
reaches Redis.

Two history variables say under which condition rotation keeps its promise. `raced` are
the sessions in which a refresh passed its GET while another was between GET and DEL:
there, both get a new token and the session has forked. The comment "Rotate: the old
token is single-use" (`auth_service.py:59`) makes no such exception; as it stands it is
`OldTokenIsSingleUse`, which `sessions_reuse` refutes. `ended` are the sessions that were logged out with
their current token while no refresh was under way: a logout during a refresh deletes a
key that is already gone, and the refresh then stores its new one.

### RateLimit

The clock is `win` (the minute) and `tick` within it; a TTL counts ticks. A request
takes its window from the clock (`Stamp`), counts (`Incr`), and, if it was the first,
sets the TTL (`Expire`); time passes between any two steps. `late` are the requests
counted after their window. One clock is assumed: the API pods' clocks agree, and
Redis measures a TTL at the same pace.

### Listing

`pos` is the place of each row in the ordered result, `len` its length. `Insert` puts a
row anywhere: events are ordered by `starts_at`, orders by `created_at`, which is the
time a transaction began and not when it committed. `Remove` and `Move` happen to
events only, and so do ties of `starts_at`, whose order may differ between two queries;
they set `disturbed`, and nothing is claimed of a walk during which they happened.
`Count` and `Fetch` are the two statements of an answer; the client follows
`total_pages` of the latest answer.

## 3. Model checking

| Run | Instance | Result |
|---|---|---|
| `inventory_races` | `Spec`, all operations, 3 calls on 1 event, capacities {1, 2}, lock timeouts, aborts, crashes | pass |
| `inventory_serial` | `SerialSpec`, the same operations; a sweep may take two reservations | pass |
| `inventory_liveness` | `FairSpec`, 3 reservations contending for 2 seats | pass |
| `inventory_oversell` | `Spec`, reserve, confirm, release, 4 calls | **violated** |
| `booking_faults` | `ReaperSpec`, 1 order, 1 cancel request and 2 handlers at a time, 1 reaper, faults | pass |
| `booking_keys` | `FairSpec`, 2 requests with 1 key, the same processes, no faults | pass |
| `booking_reaped` | `Spec`, 1 order, 1 process of each kind, no faults | **violated** |
| `delivery` | 2 members, 2 partitions, 2 messages each, 2 mishaps, with `ConsumerFairness`; 3 requests for an event, 2 capacities, 2 faults, with the `Fairness` of `EventSync` | pass |
| `eventsync_overlap` | `Spec`, 3 requests, no faults | **violated** |
| `consumer_skips` | `ConsumerSpec`, 1 member, 1 partition, 2 messages | **violated** |
| `api_components` | 6 calls and 1 address; 4 requests of 2 clients with a limit of 2 in 2 windows of 2 ticks; 4 rows in pages of 2 | pass |
| `sessions_reuse` | `SessionsSpec`, 4 calls, 1 address | **violated** |

What the passing runs show:

* `VersionIdentifiesRow`, `AdmissionSound`: the version column does what
  `EventInventory` claims of it for `reserve`, whatever the lock does.
  `HolderKeepsLock`: a holder that outlived its lock never deletes its successor's.
  `ConflictCostsCommits`: failed attempts of `reserve` are never spent on a row that
  nobody changed; it counts the versions of the row since it was inserted, so it bounds
  the lost races from below only.
  `NoSeatLost`: when settlements of one reservation race, its seats may leave
  `reserved_count` twice, but no seat stays counted that nobody holds.
  `CallsRunDown`: with each of its steps, retries included, a call has fewer left.
* `LedgerExact`, `ImplementsLedger`: under serial settlement the counters are right
  and each transaction is atomic as seen through the two tables.
* `NeverOversold`: reservations alone never oversell an event, which is also a theorem
  without any condition on the callers. With settlements and sweeps it is a theorem
  under serial settlement, and `inventory_oversell` shows that it is false without.
* `CallsEnd`: bounded retries and the key's timeout suffice.
* `SettledOrderHoldsNoSeat`: the order of effects in `cancel_order` and in the status
  worker, free first and store later, leaves a cancelled or expired order without a seat,
  except through a settlement in `twice`: one that had read the reservation before it was
  freed and committed afterwards. `SeatsAddUp`: apart from those, calls left alone,
  sweeps undone and handlers run twice leave the counters exact; with them, the counters
  fall short and never exceed what is held.
  `SoldIsPaid`: repeated and late messages never sell what nobody paid.
  `OneOrderPerKey`: the index decides the race that the lookup loses.
* `SeatsNotLeaked`: the TTL and the reaper are the backstop that `BookingService`
  describes, also where no order row was written and although a sweep is undone by any
  other commit on the event. `EveryOrderDecided`, `TicketMailed`: without failures the pipeline
  always finishes.
* `CommittedWasHandled`, `CommitsMoveForward`, `EveryMessageHandled`: at-least-once
  delivery.
* `CapacityWasStored`: commit before publish does its work, under all failures.
  `SyncedWhenQuiet`, `InSyncAtLast`: redelivery is harmless, since the messages after
  it are redelivered too; the ways to disagree are requests that overlap, messages that
  are lost or passed over, and a former owner of the partition that applies one late.
* `OneAccountPerEmail`: the unique index decides the race that the lookup loses.
  `SingleUse`, `OneTokenPerSession`, `LogoutEndsSession`: without overlapping refreshes
  rotation is sound, with deaths between DEL and SET and expiry of either key or token.
* `WindowLimit`: a TTL as long as the window, set at any time after the first INCR,
  never lets a key expire within its window; so a client gets at most twice the limit
  across a boundary, as the class comment says. `RefusedOnlyWhenFull`: the late and the
  slow do no harm to others. `KeysExpire`: the only leak is the death of a first request
  between INCR and EXPIRE.
* `WalkCovers`, `RepeatsCostInserts`: insertions push rows back, never forward, so
  a walk may repeat rows but misses at most as many as were inserted between the
  last COUNT and its page query.

What the violated runs show (`findings` in `PROJECT.json`):

1. `inventory_oversell`: a confirm and a release of one reservation both read it as
   PENDING. The first commits, and only then does the second read the inventory row.
   Its version is current, its idea of the reservation is not; both apply, the seats
   leave `reserved_count` twice, and the next reservation oversells the event. In
   `Booking` a payment and a cancellation of one order are such a pair.
2. `booking_reaped`: a payment whose call comes after the sweep confirms an expired
   reservation, is told that it succeeded, and stores CONFIRMED.
3. `consumer_skips`: a message whose handler raised is lost with the next commit.
4. `eventsync_overlap`: an update of a new event is published before its creation and
   passed over; the inventory keeps the first capacity. Two updates can do the same.
5. `sessions_reuse`: two refreshes with one token are both answered by GET before either
   sends DEL; neither looks at what its DEL removed, and each gets a new token.

What the code does and no property catches, as the models show without a run:

* `Charge` has no guard on the order, so a redelivered `ORDER_CREATED` is charged again,
  although `consumer.py:24` says of handlers that they are "safe to run twice".
* A reaper that dies between commit and publish leaves its orders PENDING for good; an
  event whose `EVENT_CREATED` is lost never gets an inventory row. Nothing repairs
  either, and no text says that something does.
* A logout during a refresh of the same session does not end it: the refresh stores its
  new token afterwards. `LogoutEndsSession` is about the other logouts.
* Two sweeps that overlap settle one reservation twice, like the pair of
  `inventory_oversell`. The runs have one reaper; the theorems about `Booking` have any
  number, and their exception `twice` covers this case too.

Bounds. Three calls are enough for two to race and a third to be misled; the
oversell needs four (one made, two settlements, one admitted too many). Calls are
made once, so retries by a client are further calls. `SweepLimit` is 1 in
`inventory_races` (a sweep that leaves a reservation for the next one) and 2 in
`inventory_serial` (a sweep of several); sweeps across events are left to the
theorems. Orders interact only through
keys, counters and sweeps: one order with every fault, and two for a key that may be
swept together, cover their cases. Two handlers are a payment and an expiry at once, or
an old and a new owner of one message; with a cancel request and the reaper that makes
four that can settle one reservation. Two cancel requests at a time, two reapers, and a
second charge (`MaxCharges` is 1) are left to the theorems. Three requests are a create and two more that race;
two faults lose an offset and then the consumer. Two messages per partition let one overtake
another; two partitions let one commit cover both. `MaxMishaps` and `MaxFaults`
bound repetitions. Six calls are a registration, a login and four more: two refreshes
that race and what becomes of their tokens, or a chain of refreshes and a logout. Four
requests pass a limit of two twice over, in one window or across the boundary
(`MaxWindow`). Four rows in pages of two let an insertion push a row over the edge of a
page, and two between a COUNT and its query. Calls, requests and rows are used in the
order of their numbers, which loses nothing as they are interchangeable.

`CHECK_DEADLOCK FALSE` is set where calls, orders and messages are finite in number:
the models stop when all is done.

Fairness. A call that was started is scheduled (`WF` of its steps), Redis expires
keys, a handler that was entered returns or raises, topics are polled for ever, the
reaper sweeps every few seconds, and the pods are restarted when they die
(`TaskGroup` ends the process on an error, Kubernetes restarts it). No user has to
book or cancel, no failure has to happen. `Deliver` is strongly fair: it is disabled
while the member handles a message of another partition, and the fetcher of aiokafka
serves all partitions in turn. A reaper's `LoadRow` and `SweepCommit` are strongly fair:
a sweep is undone when another commit on the event comes between its SELECT and its
flush, or when its process dies, and the next one finds the same reservations; what is
assumed is that this does not happen to every sweep. `EveryOrderDecided` and
`TicketMailed` are claimed only with `Faults = FALSE`: with failures an order may stay PENDING for ever (the
reaper's message lost), which the code accepts.

## 4. Proofs

All theorems hold for every value of the constants under the named `ASSUME`s: finitely
many calls and orders, positive bounds, and a `None` that is none of the values it is
told from.

* `InventoryProofs`. `IndInv` adds to `TypeOK` that requests are well formed
  (`RequestOK`), that sessions hold only what their place in the code allows
  (`SessionOK`), that reservations refer to rows that exist (`ReservationOK`), and
  `VersionIdentifiesRow`, `ConflictCostsCommits` themselves. Versions identify rows
  because every commit that changes a row raises its version above every copy in a
  session. `AdmissionIsSound` follows: a commit with the right version replaces the
  very row whose free seats were counted. `SerialInv` adds `SeenIsCurrent`, that a
  status in a session is still the table's, which is what `SerialSettlement` buys and
  what makes `LedgerExact` inductive. `NeverOversells` then needs only that free seats
  never turn negative (`Fits`), which fails if capacities are cut, hence its
  assumption `"adjust" \notin Ops`.

  Of `Spec`, with no condition on the callers, three more things are proved.
  `UnsettledIsSerial`: where nothing is settled, sessions hold no reservations and
  `SerialSettlement` is true of itself; `ReservationsNeverOversell` follows, for any
  locks that expire and calls that race or die. `NoSeatIsLost`: a settlement takes the
  seats of all reservations it has read out of the counters, and out of the table those
  that are not settled yet; `confirm` moves seats between the counters and may even
  bring a freed reservation back (`SettleLosesNoSeat`). So the counters can fall short of
  the reservations and never exceed them. `HolderKeeps`: only `Unlock` of the
  holder and `LockExpire` free a lock.

  `CallsRunDownHolds` is the half of `CallsEnd` that needs no fairness. The rank
  `StepsLeft` counts what a call can still do: turns at the lock, two steps for each
  round left of its retry loop, rows that a settlement has still to load (`Unread`).
  Each step of the call lowers it (`MoveCounts`) and no step of another call touches it
  (`OthersWait`). It needs `TriesOK`: a call about to try again has a round left.
* `InventoryRefinementProofs`. `ServiceImplementsLedger`: under `SerialInv` each commit
  is a step of `SeatLedger`, one lemma for each: `InsertOpens`, `AdjustResizes`,
  `ReserveGrants`, `CommitSettles`; all else leaves the two tables alone
  (`TableSteps`). That a reservation fits into the abstract ledger is `LedgerExact`
  together with the version check: the row whose `available` was read is the current
  one, and its counters are the holds, counted (`FreeSeats`). A capacity must differ
  from `None`, which marks an event that was not initialised.
* `BookingProofs`. The invariant has five parts besides `TypeOK` and the properties.
  `Causality`: no order row without a reservation, and no caller or reaper with an order
  or a reservation that is not there. `AtWork`: a caller has a job unless it is idle, and
  each job belongs to its kind of process. `InHand`: while a handler owns its partition
  its queue is not empty, and no second owner has a message of that queue (`Owner`,
  `Queued`, `SameQueue`). `FreedFirst`: whoever is about to store CANCELLED or EXPIRED,
  and every expiry on its way, belongs to a reservation that was freed (`WasFreed`): it is
  in `Freed` or, settled again since, in `twice`. That `WasFreed` stays true is the heart
  of `SettledOrdersFree`. `ReportsAreTrue`: a message or a job that reports success
  reports a charge. For `CountersAddUp`: a commit over a reservation that is held takes as
  many seats from the counters as the reservation stops to hold; a commit over one that
  is not enters `twice`, and may only lower the counters or bring a hold back.
  The proofs go through one lemma for each group of variables a step can move
  (`TablesMove`, `OrderMove`, `BookMove`, `CallerMove`, `QueueMove`, `ChargeMove`,
  `BatchMove`), and then show what of the invariant survives a move of that shape.
  `OverbookedByRaceOnly` adds that `Reserve` never takes the counters above the capacity.
* `EventSyncProofs`. `RequestOK` (the event is made once, before all else),
  `AnnouncedWasStored` (no message carries an uncommitted value) and, while `clean`
  holds, `TopicFollowsRow` (one request at most has something to announce; otherwise
  the last message has the row's value) and `CapacityFollowsTopic` (once all messages
  were given to the consumer, the last one was applied last, whatever was repeated).
  `CapacityFollowsTopic` is not inductive without its clauses on topics of one message
  and on positions above zero: they say what a redelivered `EVENT_CREATED` finds.
* `KafkaConsumerProofs`. `DeliveredWasHandled`: all that the owner of a partition was
  given has been through a handler, but for the message in its hand. A member that
  commits has none in a handler, hence `AtLeastOnce`; positions are never behind the
  committed offset, hence `CommitsAreMonotone`.
* `SessionsProofs`. `Holds(x)`: token x has a key, or call x is about to set one.
  `OneHolder` (a session without a race has one holder at most) is only inductive with
  `OneRefresh` (a refresh past its GET is alone in its session, and the holder, if there
  is one, is its own token). `UsedUp` (past the DEL of a token nobody else can pass its
  GET) gives `SingleUse`, and `Over` (an ended session has no holder and no refresh)
  gives `LogoutEndsSession`; `Started` says what a call has left behind by its step.
* `RateLimitProofs`. A TTL set within a window outlives it (`KeyOutlivesWindow`), so
  while its window lasts a key counts everybody who was counted on it (`CountsKept`),
  and the numbers that timely requests were given are all different (`Different`): at
  most `Limit` of them are admitted. `NoneSkipped` (each smaller number was given to
  somebody) gives `RefusedOnlyWhenFull`, also for keys that expired and began anew.
* `ListingProofs`. `Places` (rows have places of their own), `Ahead` (what was not shown
  lies beyond the pages asked for) and `Paid` (each row that was shown and lies ahead
  again has been paid for by an insertion). `LastPage` is the arithmetic of
  `total_pages`: its last page ends at or after the last row counted.

Only model-checked: the liveness properties, as fairness and `ENABLED` are out of the
prover's reach (`CallsEnd`, `SeatsNotLeaked`,
`EveryOrderDecided`, `TicketMailed`, `InSyncAtLast`, `EveryMessageHandled`).

## 5. Not modelled

* Routing, serialisation, configuration, logging, health checks, and the start and stop
  of the processes (`main.py`, `KafkaEventProducer.start`): wiring without protocol state.
* `generated/`, `inventory.proto`, migrations, deployment files: generated code and data.
  The constraints of the schema that decide a race (primary keys, the two unique
  indexes, the missing `version` of `reservations` and `orders`) are in the modules.
* Password hashing, JWT signatures, roles and ownership checks: libraries, or one
  comparison on data that no step changes.
* Reads that change nothing and are not paged (`get_availability`, `get_order`, `get`).
  `refresh` never reads the account, so a deactivated user goes on rotating tokens;
  `get_current_user` refuses the access tokens, and no text promises more.
* Which rows match a search, prices and quantities of orders in `Booking`; time outside
  `RateLimit`, which appears as the freedom of timeouts to happen at any moment.

## 6. Plan

Done: `Inventory` with its abstraction and proofs, `Booking`, `KafkaConsumer`,
`EventSync`, `Sessions`, `RateLimit`, `Listing`, each with proofs.

Every safety property that a run finds true is also a theorem.

Left: `Booking` and `Inventory` as one composed module, with quantities and the lock;
runs with two reapers and a second charge, which are too large now; `EventSync` with a
consumer taken from `KafkaConsumer`.
