# Verification of the food-delivery platform

TLA+ models of the platform in this repository: seven Go services that place,
charge, cook and deliver an order by reacting to each other's Kafka events, and
the browser client in front of them. TLC checks small instances; TLAPS proves the
central results for any number of orders, couriers, messages, crashes and failing
calls. Paths are relative to the
repository root (`src/` in `PROJECT.json`).

## 1. Inventory

| Component | State | Operations | Talks to |
|---|---|---|---|
| Event bus (`pkg/kafka`, `pkg/events`) | topic logs, group offsets | `Publish`, `Consumer.Run` (fetch, handle, commit), restart | everybody |
| order-svc (`services/order`) | `orders.status`, `orders.courier_id` | `CreateOrder`, seven consumers: `HandlePaymentProcessed`, `HandlePaymentFailed`, `HandlePreparationFailed`, `HandleDeliveryFailed`, `HandlePaymentRefunded`, `HandleCourierAssigned`, `HandleOrderDelivered` | user-svc and restaurant-svc by HTTP, the bus |
| payment-svc (`services/payment`) | `payments`, one row per order | `HandleOrderCreated`, `HandleRefundRequested` | the bus |
| restaurant-svc (`services/restaurant`) | cooking goroutines (in memory); restaurants and menu | `HandleOrderPaid` and the goroutine that ends in `order.ready`; `Seed`, `validateMenu` | the bus, order-svc by HTTP |
| delivery-svc (`services/delivery`) | `couriers.status`, rides (in memory) | `Seed`, `HandleOrderReady`, `simulateDelivery` | the bus |
| notification-svc (`services/notification`) | the list of sent notifications (in memory) | `HandleEvent` for eleven topics, `List` | the bus |
| a process of any service (`cmd/main.go`, `pkg/config`) | its environment, the step of `main` | read the environment, migrate, seed, start the consumers, serve; `log.Fatalf` at any of them | its database, the bus |
| user-svc (`services/user`), `pkg/auth`, gateway | accounts, tokens | `register`, `login`, `authMiddleware`, `me`, `myOrders`, forwarding | HTTP |
| frontend | session, cart, the order being watched, the list of orders | login, cart, checkout, polling of an order, listing | gateway |
| telemetry | none | | |

### What is hard here

* **No coordinator.** The saga is a choreography: every service sees its own table
  and its own topics. A guarantee such as "nobody cooks an unpaid order" is
  nobody's code.
* **Seven consumers of one table.** order-svc runs a goroutine per topic; each
  reads the order's status, checks it, and writes it with an unconditional
  `UPDATE`. Topics are not ordered with respect to each other.
* **At-least-once delivery.** `CommitMessages` only hands an offset to a ticker of
  one second (`CommitInterval`), so that a restart handles up to a second of
  messages again; and the writer repeats a message whose acknowledgement is lost.
* **At-most-once handling.** `Consumer.Run` commits a message whatever the handler
  returned: a handler that fails halfway is not tried again.
* **Work in goroutines.** Cooking and riding are `time.Sleep`s in memory; what they
  are about (the order is paid, the courier is BUSY) is in a database.
* **A process that is half there.** An error of `FetchMessage` or `CommitMessages` ends
  the consumer's goroutine for good (`kafka.go:82-87`, `104-106`), while the process goes
  on serving; a seed that is interrupted counts as a seed.
* **Writes to a table and to Kafka are not atomic** (`MD/Architecture.md:404`, `:597`).

### What makes each component correct

* *Bus*: offsets never run ahead of what was handled; nothing is passed over; an event
  comes again only after a restart; a topic is append-only.
* *A process*: it serves only what its configuration allows and what is seeded, is
  seeded once, and consumes while it serves.
* *All together*: a failing call either ends one consumer, which holds up every order
  that comes to it from then on, or it harms one order and keeps one courier at most; and
  no chain of events goes on without end.
* *order-svc*: an order is PAID, DELIVERING or DELIVERED only if it was charged, and
  REFUNDED only if the money went back; a cancellation of a charged order leads to
  a refund; every order reaches a terminal status.
* *payment-svc*: an order is charged or declined once, a charge is given back at
  most once and with a reason, and its events say what its table says.
* *restaurant-svc*: cooks only what was charged; never both cooks and refuses.
* *delivery-svc*: a courier carries one order at a time, is BUSY while riding, and
  comes back.
* *notification-svc*: the list holds exactly what this process has handled, and no
  event is left out by a process and a consumer that go on.
* *order creation*: an order that is stored is what the request asked for, at the
  prices of the menu; nobody is told that an order is placed, and no cart is emptied for
  one, that was not announced. (The list of orders shows those as well: PENDING for good.)
* *cart and cart page*: one restaurant per cart, one call at a time per page, and
  the button comes back.
* *order page*: never shows an order ahead of the payment that was read for the same
  answer; ends up showing how the order ended.
* *accounts and session*: a token opens the only account of its email; the user shown is
  the token's, unless a login has overtaken the page's `getMe`; the orders shown are those
  of the session, or of one that ended while they were shown; no page loads for ever.

`PROJECT.json` lists under `hazards` the places where each of these could go wrong.

## 2. Modules

| Module | Models | Built on |
|---|---|---|
| `EventBus` | `pkg/kafka/kafka.go`, `pkg/events/events.go`, `deploy/kafka-init.sh` | |
| `OrderService` | `services/order`: service, repository, consumers | `EventBus` |
| `PaymentService` | `services/payment`: consumer, repository | `EventBus` |
| `RestaurantService` | `services/restaurant/internal/consumer` | `EventBus` |
| `DeliveryService` | `services/delivery`: consumer, repository | `EventBus` |
| `OrderSaga` | the four services over one bus: specification, fairness, properties | the four |
| `PaymentLedger` | abstract: what payment-svc promises about money and its events | |
| `OrderLifecycle` | abstract: the life of an order and its payment, as a customer may see it | |
| `EventStory` | abstract: which event about an order must come before which | |
| `OrderSagaProofs` | types, and that only paid orders are served | `OrderSaga` |
| `LifecycleProofs` | couriers, causes of events, refunds; the refinements of `EventStory` and `OrderLifecycle`; that orders run out | `OrderSagaProofs` |
| `DamageProofs` | the ledger, the refunds of cancellations, and the damage that a failing call does | `LifecycleProofs` |
| `NotificationService` | `services/notification`; its environment is any `EventStory` | `EventStory` |
| `NotificationProofs` | the list of notifications | `NotificationService` |
| `OrderPricing` | `validateMenu` and the prices of `CreateOrder`: operators only | |
| `Checkout` | cart, cart page, gateway's `createOrder`, order-svc's `CreateOrder` | `OrderPricing` |
| `CheckoutProofs` | carts, submissions, placed orders, and what an order may contain | `Checkout` |
| `OrderPage` | the page of one order and the gateway's `getOrderWithDetails`; its environment is any `OrderLifecycle` | `OrderLifecycle` |
| `OrderPageProofs` | what the page may show | `OrderPage` |
| `Session` | user-svc `register`, `login`, tokens, `authMiddleware`, `me`, `myOrders`, `AuthContext`, the orders page and the router | |
| `SessionProofs` | accounts, tokens, and the sessions of pages | `Session` |
| `GroupDelivery` | abstract: what `EventBus` assumes of a consumer group | |
| `KafkaConsumer` | `Consumer.Run` step by step, with its reader's ticker | `GroupDelivery` |
| `ServiceProcess` | `main` of restaurant-svc and delivery-svc, `pkg/config`, `Seed` | `KafkaConsumer` |
| `ServiceProcessProofs` | the inductive invariant, the theorems and the refinement | `ServiceProcess` |
| `MCOrderSaga`, `MCNotification`, `MCServiceProcess`, `MCCheckout`, `MCOrderPage`, `MCSession` | model values for TLC, symmetry and reductions | |

The abstract modules do three jobs. The saga is checked and proved to
implement them (`ImplementsLedger`, `FollowsLifecycle`, `TellsTheStory`), and the components that
only listen to the saga (`NotificationService`, `OrderPage`) take them as their
environment, so that what is shown about them holds for whatever the saga does,
redeliveries and overtaking consumers included. And what `EventBus` takes for granted
of a consumer group is stated in `GroupDelivery`, which `Consumer.Run` is checked and
proved to implement.

### How the models read the code

* **Bus.** A topic is a sequence; a consumer group has an offset `pos`, and
  `pc[c]` is the step its handler has reached. One step of the code that others can
  observe (a query, an `UPDATE`, a `Publish`) is one action; a handler is the
  disjunction of its steps, named after the Go function. `Receive` is a fetch with
  the first read of the database, which is why the `UPDATE` that follows acts on a
  status that may be stale. `RunReturns` is a fetch or a commit that fails: the consumer
  joins `stopped`, handles nothing more, and only a restart of its process brings it back.
* **Committing.** `Consumer.Run` commits after every outcome, but the client stores
  offsets once a second. The model does not run that ticker: `committed` is what is
  certainly stored, and a restart picks any offset between it and `pos`
  (`StoredOffsets`), which are exactly the outcomes of any timing of the ticker
  between two restarts. `KafkaConsumer` does run it: `next` is the message fetched
  last, `handedOver` what `CommitMessages` was given, `stored` what the ticker has
  stored, and a new process begins at `stored`.
* **Process.** `proc` is the step of `main`; `Fatal` is its `log.Fatalf` at any of
  them. An environment is a record: the value of `APP_ENV`, that of `SEED_DATA`, and
  whether everything else that is required is set. The other services start in the
  same order without a seed, which is `SeedData` being false. A restart ends all
  handlers and goroutines of one process.
* **Errors.** A call fails before or after it took effect; the handler then does
  what the code does, mostly returning, and the message is committed all the same.
  A lost acknowledgement makes the writer repeat the message: the handler stays at
  its publishing step with the message written. A call to the broker that `Consumer.Run`
  itself makes ends that consumer (`RunReturns`).
* **Data.** A message keeps the order, and the courier, `refund_required` or new
  status where a handler or a property tells them apart. Prices are naturals, ids
  model values, passwords stand for their hashes, a token for the number under which
  it was issued.
* **Simplifications.** One partition per topic and one process per service, as
  `deploy/kafka-init.sh` and `docker-compose.yml` set up. `PAYMENT_FAIL_RATE` and
  `KITCHEN_FAIL_RATE` are choices. `time.Sleep`s are actions that may happen late; a
  run that shows a race without faults therefore says that it depends on timing (a
  consumer more than `DELIVERY_DURATION`, 5 s by default, behind another), not that
  it is frequent. The menu is constant: only `Seed` writes it. A browser has one
  tab, in which one login or registration is awaited at a time; one that is abandoned
  by a reload is over. `Checkout` knows of a token only whether there is one.
* **Links.** The links of the header, and the rows of the list of orders, are live at all
  times, also while the router is on its way to another page; following one then discards
  the navigation that is under way. Any stored order, announced or not, can be opened.

## 3. Runs

All deadlock checks of the saga are on (`Quiet` is the only state in which it may
stop). The other modules have users or operators that need not do anything, and bounds
that end what they can do, so their runs switch deadlock off.

| Run | Instance | Shows |
|---|---|---|
| `saga_crash` | 1 order, 2 couriers, 1 crash of any process | type, `ServedOnlyIfPaid`, `CourierCarriesOneOrder`, and the refinements of the ledger and of the story |
| `saga_errors` | 2 orders, 2 couriers; 2 failing calls, consumers that end or lost acknowledgements for one order, 1 with both | `RefundedOnlyIfMoneyBack`, `RefundHasCause`, `DeclinedOnlyCancelled`, `DamageBounded`, `FollowsLifecycle` |
| `saga_contention` | 2 orders, 1 courier, no fault, fairness | `NoChargeKeptSilently`, `NeverBothServedAndRefunded`; every order settles, refunds complete, couriers come back; `OrdersRunOut` |
| `process` | 3 messages, decodable or not, 3 rows, 2 deaths, 2 failing calls, 24 environments, fairness | `NothingSkipped`, `RedeliveredByDeathsOnly`, `SeededOnce`, `HandledUnlessStopped`, and the refinement `ImplementsGroup` |
| `notify` | 1 order, 6 messages, 1 death after which it may stay down, 1 consumer that ends, fairness | `ListIsExact`, `EveryEventNotified` |
| `checkout` | 3 items of 2 restaurants, 2 calls, 2 faults, fairness | `OrderIsWhatWasAsked`, `PlacedIsAnnounced`, `SubmitsOnce`, `CartOneRestaurant`, `SubmissionEnds` |
| `page` | 1 order, 2 overlapping fetches, 2 faults, fairness | `PaymentNotBehind`, `SpinnerEnds`, `DeliveryIsShown` |
| `session` | 2 browsers, 2 emails, 2 passwords, 2 submissions, 1 fault, fairness | `TokenOpensOwnAccount`, `SessionIsWhole`, `NoStrangersOrders`, `LoadingEnds` |
| `saga_lost_update`, `saga_lost_ride`, `saga_failed_after_success`, `page_refund` | as small as the finding allows | violated, see section 5 |

### Bounds, and why they are enough

* `Orders`, `Couriers`: an order never touches the row of another; orders meet only
  at couriers and in the order of a topic. Two orders and one courier make them
  compete; one order and two couriers let a repeated `order.ready` take a second one.
  The proofs cover every number of either.
* `MaxCrashes = 1`: each chain of consumers is replayed from any stored offset. A
  second crash replays messages that a first could have replayed already.
* `MaxErrors = 2`: one error to leave a handler halfway and one to spoil what comes
  after it. `SecondFaultAlone` gives the second to a run with a single order: one
  failing call and a second order are what it takes to see a neighbour suffer, and
  both together are beyond TLC. `LeafFirst` lets a consumer that is about to publish
  what no consumer of the saga reads go before everybody else. Such a step commutes to
  the left of every other one: the messages it appends are read by nobody, the error it
  may use up is there earlier as well, and no property of the run looks at them. Only a
  restart could come between the handler's steps, and this run has none. `StopsAtMessage`
  lets a consumer end only when there is a message for it: ending earlier looks no
  different until a message comes, and where none comes, both sides of `DamageBounded`
  count it. Crashes and errors together exceed six million states for one order;
  `saga_failed_after_success` combines them only until its counterexample, and the
  theorems cover any number of both.
* `process`: two deaths and two failing calls cut a start and the one after it, or end a
  consumer that has been restarted; three messages put an undecodable one between two
  events. The theorems cover every number of each.
* `MaxMessages = 6` is the longest chain of causes (`order.created` to
  `order.delivered`, or to `payment.refunded`); shorter chains leave room for
  repeated messages of one topic. `FewRepeats` has one topic repeat a message, in a story
  that ends one event early, and publishes once what this service does not read: its
  groups are independent of each other but for the list. `MaxDeaths = 1` cuts every group
  at any step of a message, and `MaxStopped = 1` ends one of them in each process, at a
  message (`StopsAtMessage`). The theorems cover every number of each.
* `MaxCalls = 2` with `MaxFaults = 2` (checkout): the order that the customer placed
  twice, each of whose calls may fail or be given up; the requests of other clients
  take the place of one or both. `MaxQuantity` only limits the cart.
* `Fetches` (order page): an interval of three seconds and a gateway that gives up
  after 15 s allow a few; two are what it takes for one answer to overtake another.
* `MaxCalls = 2` (session): two people after one email, or one person who changes
  accounts. `FirstIsE1` fixes what is typed first, because emails and passwords are only
  compared; `OneReadsOrders` keeps one of the browsers off the orders page, because what
  a browser shows depends on the other through the accounts only. For the same reason
  `OneFollowsLinks` has the other one load pages instead of following links, and leaves out
  a link to the page that is already shown where the router is at rest, which changes
  nothing. `LoadingEnds` is about the browser that does both.

### Fairness

* Saga: weak fairness of each consumer that has not ended, of the rest of `CreateOrder`,
  and of each cook and ride: goroutines that the runtime schedules and that block on
  nothing but calls with timeouts. Strong fairness is needed nowhere, and customers,
  crashes and errors have none. Liveness of the saga is claimed without faults only;
  `hazards` names what a fault may leave behind.
* Notifications: weak fairness of each topic's consumer while the process is up and the
  consumer has not ended. Nobody has to start a process that died, and a consumer that
  ended stays so: `EveryEventNotified` speaks of the topics whose consumer runs from some
  point on (`<>[]Runs(t)`), and of their events alone, also those that were half notified
  when the process died or that came while it was down. It says nothing of their order.
* Checkout: a call goes on at its server and its answer arrives. The gateway's
  timeout is a fault, not a fair action.
* Order page: the interval fires and a fetch ends in an answer or an error. The saga
  need not move.
* Session: `getMe` and `listMyOrders` are answered with something, and the router
  arrives. Nobody is promised anything who reloads or follows links for ever.
* Process: the steps of `main`, of `Consumer.Run` and of the ticker go on. Nobody has to
  start a process that died: `docker-compose.yml` has no restart policy for the
  services. `HandledUnlessStopped` therefore allows for a process that is down and for
  a goroutine that has ended.

## 4. Proofs

`OrderSagaProofs` proves, for any number of orders, couriers, crashes and errors:

* `TypeCorrect`: `Spec => []SagaTypeOK`. Offsets stay within their topics, and a
  running handler has a message.
* `PaidBeforeServed`: `Spec => []ServedOnlyIfPaid`. Nothing is cooked, carried or
  shown as paid for an order that was not charged.
* both from `Inductive`: `Spec => []IInv`.

The only assumptions are those that `EventBus` states of its constants:
`NoCourier` is not a courier, and the two bounds are naturals.

`ServedOnlyIfPaid` is not inductive: it does not say that a *message* is about a
charged order, and so allows a state in which the kitchen has an `order.paid` to
read about nobody's money. `IInv` has three parts:

* `Typed`: types and offsets, so that the message at hand is one that was published;
* `AnnouncesPaid`: while payment-svc is about to publish `payment.processed`, it has
  charged the order. This is what ties the table to the first event;
* `PaidWork`: a charged order behind every status, cook, ride, arrival *and every
  published event* on the path from `payment.processed` to `order.delivered`.

The argument follows the chain: a payment that was charged stays charged or is
refunded (`PaidKept`); a message that is read was published (`CurrentMessage`); so
whatever a service does in answer to one of those events is about a charged order
(`OnlyPaidWork`). Restarts only move offsets back to messages that are still there,
and lost acknowledgements only repeat them. Each service has lemmas about the effect
of its steps on the bus and on its table; `NextKeeps` puts them together, one step
per action.

`ServiceProcessProofs` proves, for any topic, seed, set of environments, and number of
deaths and failing calls:

* `ProcessTypeCorrect`, `NothingIsSkipped`, `DeathsBoundRedelivery` and `SeedIsOnce`:
  the four invariants of the run;
* `ProcessImplementsGroup`: `ProcessSpec => ImplementsGroup`. A fetched message that is
  not yet handled does not count as finished; `Handle` and `CommitSkipped` finish it,
  a death resumes between `since` and there, and every other step stutters.

The invariant, `PInv`, adds to the types how the offsets are ordered
(`since <= stored <= handedOver <= Finished`), that a finished event was handled at most
once per death and once more, an unfinished one at most once per death, and what each
step of `main` knows of the rows: some but not all of them means that the seed is under
way or that a start was cut. `NothingSkipped` alone is not inductive: it says nothing of
an offset that was handed over and is not yet stored.
The assumptions are `ConsumerBounds` (bounds are naturals) and `ProcessAssumption`
(there is something to seed).

`LifecycleProofs` goes on from there, again for any number of orders, couriers, crashes
and errors:

* `OneOrderPerCourier`: `Spec => []CourierCarriesOneOrder`. `CourierInv` follows a
  courier through the three steps of an assignment: the one chosen is available before
  `setBusy`, and busy without a ride until the assignment is published. That needs
  the consumer to be the only process that makes a courier busy.
* `WorkHasACause` and `SagaTellsTheStory`: `Spec => TellsTheStory`. Every event that is
  published follows, in the order of the bus, the one that `EventStory` demands.
  `WorkIsCaused` says that of the goroutines and handlers that are still under way,
  which carry no message that could be looked at.
* `MoneyIsBack`, `RefundsAreCaused` and `DeclinedIsCancelled`: the three claims about
  money that `saga_errors` checks.
* `SagaFollowsLifecycle`: `Spec => FollowsLifecycle`, from the same invariant, `LifeInv`.
* `OrdersComeToAnEnd`: `Spec => OrdersRunOut`. An order sets at most 25 steps of the four
  services in motion, and each step that is not itself a fault takes from what is left
  of one order and leaves every other one as it is.

`LifeInv` exists because these are claims about *tables*, and a table changes in answer
to a message that another service published long ago. It therefore says what every
published message stands for: a status that was announced was reached (`Known`,
`Moved`, `AnnouncesMoved`), a refund that is under way or done belongs to a charge
(`MoneyBack`, `RefundsCharged`), one that was requested has a reason that is itself on
the bus (`Requested`).

`OrdersRunOut` is the measure of a termination argument. `MessageSteps` prices a message
by the steps of its handler and the dearest path that the handler's own messages may take
from there (the longest one needs all 25); `WorkLeft` adds up the messages that
wait, the handlers, cooks and rides under way, and the request that is still to come.
A circle of events can have no such price. The proof shows for every handler that what it
goes on to, begins and publishes costs less than the step it was at (`Frugal`,
`HandlerTakes`, `RequestTakes`), and that a ride is paid for by the courier, who carries
one order. A fault may raise the measure by what has to be done again, but faults are
counted; the run has none, the theorem any number. Where no process dies, this and
`DamageIsBounded` leave to fairness only that somebody takes a step while the saga is not
quiet: the steps run out, and then every order that no failing call has harmed is settled.

`DamageProofs` is about what a failing call does, and what holds when none does:

* `LedgerIsImplemented` (`MaxErrors = 0`, any number of crashes): payment-svc implements
  `PaymentLedger`. A failing call between the charge and its event makes it false, which
  is what section 5 is about.
* `CancellationsRefund` (any crashes and errors): a consumer that gives up a paid order
  has `refund_required` set in what it is about to publish, and the consumer of
  `payment.failed` never has.
* `DamageIsBounded` (`MaxCrashes = 0`; any number of orders, couriers and errors):
  `DamageBounded`, the claim that `saga_errors` checks for two orders and two couriers.
  A failing call that ends a consumer is counted by that consumer, and the orders with a
  message left behind it are `HeldUp`: how many they are is not bounded, since every later
  order of the topic is among them. The other failing calls bound the orders that are
  neither settled nor held up, and the couriers that stay BUSY.
* `ChargesAreRefunded` and `NeverBoth` (`MaxErrors = 0`, `MaxCrashes = 0`: the
  instance of `saga_contention` for every number of orders and couriers):
  `NoChargeKeptSilently` and `NeverBothServedAndRefunded`.

The last two follow from the invariant of `DamageIsBounded`, which is built like this.
`Stage(c, o)` is how far consumer `c` is with the message about order `o`: none
published, waiting, one of the steps of its handler, or done. An order is `Clean` when
every consumer, at whatever stage it is, has done to the tables and topics exactly what
that stage asks for, once. Each step of the saga is `About` one order: it leaves every
other one `Untouched`, and keeps this one clean unless it is an error; the end of a
consumer is about none, and leaves all stages as they are. So the orders that are
`Harmed` and the consumers that have ended are together at most as many as the errors so
far; likewise the couriers that are `Lost`, that is busy with nothing to carry and nobody
about to send them off (`DamageInv`, counted with the library's facts on finite sets).
What is left is to see that a clean order is settled once the saga is quiet:
`StatusIsTold` gives its status a published reason, and from there on each stage hands it
to the next, unless a message about it waits behind a consumer that has ended. Where no
call may fail, no order is harmed and no consumer ends. `DamageInv` was checked by TLC
on small instances before it was proved.

The components around the saga:

* `SessionProofs`: `SessionTypeOK`, `TokenOpensOwnAccount`, `SessionIsWhole`,
  `NoStrangersOrders`. `SessionIsWhole` says of the one race that the code loses what it
  may lead to: if a login overtakes `getMe`, the page may show, once that call is answered,
  the user of the token it had found, and no other. `NoStrangersOrders` allows for the
  sessions that ended under the orders page (`former`), because its `listMyOrders` is
  not cancelled: a login that is answered while the orders page is shown, followed by a
  click on its own link before the router has left it, keeps the page and with it the late
  answer for the older token. `SessionInv` knows for every browser what its form, its pending
  `getMe`, its page and its list may hold, and that each is the answer to the token it was
  asked with. The bound on accounts inside `SessionTypeOK` is inductive only with
  `Counted`: users and tokens are at most the submissions, less those that may yet
  create one.
* `OrderPageProofs`: `PageTypeOK` and `PaymentNotBehind`, whatever fails: only an answer
  whose own read of the payment failed is not spoken of, because the gateway drops that
  error and shows the order without a payment. `ReadsAgree` is the state
  between the two reads of a fetch: the status that was read is one that the payment, not
  read yet, is not behind, and the lifecycle only goes forward.
* `NotificationProofs`: `NotifyTypeOK` and `ListIsExact`: entries are counted per topic,
  channel and order (`Times`) against the messages handled, for any number of deaths and
  of consumers that end.
* `CheckoutProofs`: `CheckoutTypeOK`, `PlacedIsAnnounced`, `SubmitsOnce`, `CartOneRestaurant`
  from `CheckoutInv`, whose core is that one page waits for one call (`OneWaits`) and
  that calls which may still place an order are not among those that did
  (`CallsPlaced`). `OrdersAreAsAsked` is all of `OrderIsWhatWasAsked`, for any menu and
  any requests: every item of an order is on the menu of its restaurant, its quantity is
  that of all lines that name it, and the total is what the lines add up to. The loops of
  `validateMenu` and `CreateOrder` are folds over data of any size. `Induction` gets
  the principle for a *set* of numbers from the least element of a set (`LeastNumber`), so
  that no operator has to be passed; with it `FoldExists` shows that the recursive
  function behind a fold exists, and `LeftFoldSteps` and `SumOver` that the sum over the
  lines and the sum over the rows of the menu agree once each item has one line.

### What is assumed

The named assumptions of the modules, as weak as the code allows: `NoCourier` is not a
courier (`CourierAssumption`), bounds are naturals (`BoundsAssumption`, `ConsumerBounds`
and their like), there is something to seed (`ProcessAssumption`), "nobody" is nobody
(`NoneAssumption`), the body of a request is a list of lines with integer quantities
(`RequestsAssumption`), and a menu is finite with prices in cents (`MenuAssumption`).
Nothing else is taken as given; the theorems that need the absence of faults say so in their `ASSUME`.

### What only TLC shows

Everything that must eventually happen: `EveryOrderSettles`, `RefundCompletes`,
`CouriersComeBack`, `HandledUnlessStopped`, `EveryEventNotified`, `SubmissionEnds`,
`SpinnerEnds`, `DeliveryIsShown`, `LoadingEnds`. Liveness under fairness, and with it
ENABLED, is beyond the prover. Every invariant and every action property of the passing
runs is stated by a theorem.

## 5. Where code and documents disagree

| Run | What the run shows |
|---|---|
| `saga_lost_update` | `HandleCourierAssigned` writes DELIVERING over DELIVERED, having read PAID. On the way an order is DELIVERED before it is DELIVERING: the topics are consumed independently. `HandlePaymentProcessed` writes as blindly: a repeated `payment.processed` sets an order under delivery back to PAID. |
| `saga_lost_ride` | A restart of delivery-svc forgets a ride; its courier stays BUSY. |
| `saga_failed_after_success` | A failed read makes payment-svc announce `payment.failed` for a charged order. |
| `page_refund` | A page that has seen CANCELLED stops polling and never shows REFUNDED. |

The lines of the documents are quoted in `PROJECT.json`. What the documents already
concede (a row without its event, a refund that is lost with its event) is listed
under `hazards` and not as a finding.

## 6. Not modelled

* Rebalancing of a consumer group: each has one member as deployed. Several processes
  of one service would need it.
* user-svc's addresses, which nobody else reads; read-only handlers and lists.
* The pages of restaurants and menus, which fetch once and draw.
* Layout, theme, OpenAPI files, tracing, metrics: no state of the system depends on
  them. Generated database code is modelled where it is used.

## 7. Plan

Written in this order, the most important behaviour first: the bus, the four services
and their composition; the ledger and the proofs about it; the story and
notifications; order creation and the cart; the order page; the session; the consumer
and its process in detail; the damage of a failing call; the list of orders; the proofs
about the saga, its refinements, and the components around it; last, the totals of an
order, which needed induction, and the end of every chain of events. Nothing of the plan
is left. Beyond it, `DamageBounded` could be carried over to restarts: a restart
of a service may hit every ride or cook of that service at once, so it has to be counted
by what was under way in it, and not by one.
