# Shri Anandam: a TLA+ verification of the ordering system

Shri Anandam is a shop's ordering system: customers order from a mobile app,
the kitchen and the owner work the orders, and a NestJS API over PostgreSQL
(`services/api`) keeps everything that matters. This directory models the parts
of the system where requests, webhooks, timers, retries and screens meet,
model-checks them with TLC on small instances, and proves all of their
invariants with TLAPS for every value of the constants.

## The system

| Component | State | Operations | Talks to |
|---|---|---|---|
| Inventory (`inventory/`) | `inventory_items`, the ledger `inventory_transactions`, the holds `stock_reservations` | reserve, consume, release, `expireStaleReservations` (a cron job, every minute), create, restock, adjust, wastage | called in the transactions of checkout, webhooks and cancellation; appends `INVENTORY_LOW` to the outbox |
| Checkout (`orders/` `createOrder`) | `orders`, the idempotency key, `order_sequences` | one operation: look up the key, read and price the cart, check the coupon, one transaction | cart, coupons, inventory, payments, outbox |
| Cart (`cart/`) | `carts`, `cart_items` | addItem, updateItem, removeItem, clearCart, read by checkout | checkout deletes it |
| Coupons (`coupons/`) | `coupons`, `coupon_usages` | resolveForCart; usage recorded by checkout; administration | checkout |
| Order lifecycle (`orders/`) | `orders.status`, history, order events | updateStatus, cancelOwnOrder, restockCancelledOrder | inventory, outbox, audit, realtime |
| Payments (`payments/`) | `payments`, `payment_transactions`, `payment_webhooks`, `refunds`, `orders.paymentStatus` | initiatePayment, collect, addManualPayment, handleWebhook, createRefund, recompute | Razorpay (external), inventory, outbox |
| Outbox and notification worker (`outbox/`, `services/notification-worker`) | `outbox_events`, `notifications` | append; claim, send, mark published or failed, retry | every component above; FCM (external) |
| Sessions and login (`auth/`, and each client's `client.ts` or `auth-store.ts`) | `sessions` (refresh tokens), one-time codes in Redis; the token a client holds | code request and check, login, refresh with rotation and reuse alarm, logout, password reset | every client |
| Staff and roles (`staff/`, `roles/`) | `staff`, its roles and branches, the roles' permissions | create, update, deactivate, assign roles or branches, replace a role's permissions; the last-owner rule | permission guard, sessions, audit |
| Catalogue (`products/`, `categories/`, `addons/`, `branches/`, `delivery-zones/`, coupon administration) | rows, the lists that join them, price history | create, update, deactivate, assign | cart, checkout, audit |
| Customers (`customers/`) | the profile, `customer_addresses` | update, deactivate; add, promote, delete an address | checkout |
| Audit log (`audit/`) | append-only entries | record, inside the caller's transaction | every component of the API |
| Realtime gateway (`realtime/`) | connected sockets, in rooms | best-effort broadcast after a commit | the front ends |
| Front ends (`apps/`) | React Query's cache, a token, what is on the screen | poll and listen, press a button, retry with the same `Idempotency-Key` | the API |

What is hard in it:

* **PostgreSQL at READ COMMITTED, and checks made before the transaction that
  relies on them.** Almost every service reads, decides, and only then opens a
  transaction that writes by id. What was read may be stale at the commit.
* **Retries and duplicates.** Customers retry checkouts, gateways redeliver
  webhooks late and in any order, staff press a button twice.
* **Crashes between two commits**, with an external call (the gateway) or a
  second transaction in between.
* **Time.** Holds expire; the sweep races the capture of the same order.
* **Lists that are replaced** by `deleteMany` and `createMany`, and rules over
  several rows (one default address, one active owner at least) that no
  constraint of the database keeps.
* **Clients that cache** what they were told, miss events, lose answers, and
  hold one token in several tabs.
* **Denormalised state**: `stockQuantity` beside its ledger, `orders.status`
  beside its history, `orders.paymentStatus` beside the payments and refunds.

What makes each component correct: stock agrees with its ledger, and is neither
sold twice nor promised twice; an order follows its status table and a
cancellation gives its stock back once; one attempt makes one order and a cart
line is ordered once; an event moves money once, and the summary of an order's
payments agrees with its rows; an outbox event is delivered at least once and
is eventually settled; a refresh token is good for one rotation, and nobody
is logged out for nothing; there is always an active owner; the audit log tells
truly what it records of the catalogue's rows; a cart has what was asked for and
was for sale; a customer has one
default address; a screen catches up with the database. `PROJECT.json` lists the places where these could go
wrong ("hazards"), each with the properties that look there.

## Modules

A database transaction is one step, unless it reads what another transaction
can change before it commits; code that reads, leaves the database and writes
later is two steps with anything in between. A process that dies takes no
further step, or a `Drop`, `Abort` or `Fail` action says what it leaves behind: no
action is forced (only the clock, the sweep and the worker's loop are fair).

| Module | Models | State and actions |
|---|---|---|
| `Inventory` | stock, holds and ledger of one branch | a *line* is one tracked line of an order and stands for its `stock_reservations` row. `PlaceOnline` (createOrder: reserve), `PlaceOffline` (reserve and consume), `CaptureRead`/`CaptureCommit`/`CaptureAbort` (a `payment.captured` webhook, split where the sweep can come between), `Release` (`payment.failed`), `RestoreSales` (cancellation), `Sweep`, `Tick`, and the staff's `CreateItem`, `Restock`, `AdjustCheck`/`AdjustCommit` |
| `OrderStatus` | `order-status.ts` | the status table |
| `OrderMachine` | what an order's status promises | abstract: create, move along the table, or be contended for |
| `OrderLifecycle` | updateStatus, cancelOwnOrder, transition, restockCancelledOrder | `ReadOrder` checks the table and the permission, `CommitMove` writes by id; `inHand` holds the requests in between; `DropMove` gives one up; `Place` and `Capture` are the checkout and the webhook |
| `Checkout` | createOrder with cart and coupons | a request goes `Lookup`, `ReadCart`, `ResolveCoupon`, `Commit`, `Answer`, or `Refuse`s, or `LoseRace`s on the key; the cart's `AddRead`, `AddCommit`, `AddFail`, `RemoveItem`, `ClearCart` |
| `Payments` | the payments of one order | `Initiate`/`SaveOrder` (initiatePayment), `Deliver`/`Redeliver`/`Lookup`/`EventWork`/`EventCommit`/`EventDrop` (handleWebhook), `CollectCheck`, `SplitCheck`, `CallWork`/`CallCommit`/`CallDrop` (collect, addManualPayment), `RequestRefund` to `RefundDrop` (createRefund). Each transaction is a working step, which computes `orders.paymentStatus` from what it can see, and a commit |
| `Notifier` | the notification worker, with the outbox rows and device tokens it reads | each query of a replica is a step: `Claim`/`CommitClaim` (claimPendingEvents), `Resolve`, `InsertNotification`, `Send`, `Record`, `DeactivateDeviceToken`, `Settle`, `Catch` (processOne); `Fault` and `Crash` can strike between any two; the API's `AppendEvent`, `Register`, `Logout` |
| `Outbox` | what the outbox promises of an event | abstract: appended once, pushed at least once to whom it is owed, published when owed to nobody, a failure counted; `Notifier` implements it |
| `Sessions` | the refresh tokens of a deployment and the clients that hold them | the server: `Check`, `ReportReuse`, `Rotate`, `Issue` (rotateRefreshToken and issueTokens, query by query), `ResetPassword`; a client: `LogIn`, `Refresh`, `Store`, `Clear`, `LogOut`/`RevokeLeaving`/`FinishLogOut`; faults: `Abandon` (the answer is lost), `ShutDown`, `Refuse`. A *flight* is the `refreshPromise` callers share |
| `Assignments` | a list that is replaced in one transaction, under READ COMMITTED | `Open` and `Delete` (deleteMany: its snapshot, then its wait), `Insert` (createMany and commit), `RollBack` |
| `StaffAccounts` | staff and roles services, with `Assignments` | `Ask*` (the request is admitted), `Check*`, `CountOwners` (assertNotLastActiveOwner), `Create`, `SetActive`, `Assign`, `DeleteRows`, `InsertRows` |
| `Catalogue` | the admin panel's services, with `Assignments` | per kind of row `Create*`, `Update*`, `Deactivate*`, after `ReadToUpdate` or `ReadToDeactivate` has read the row; `AddVariant`, `UpdateVariant`, `RemoveVariant`; `AssignAddons`, `AssignBranches`, `AssignVariantBranches`; each with the audit entry it writes (`Tell`) of the columns such an entry records (`Recorded`, `RecordedFirst`) |
| `CartLines` | the cart service over a changing `Catalogue` | addItem as `AskItem`, then a step per query: `CheckProduct` and `CheckVariant` (in either order), `ReadCart`, `CheckBranch`, `CheckVariantBranch`, `CheckAddons`, `MakeCart`, `FindLine`, `Raise` or `AddLine`; updateItem and removeItem as a read (`Ask*`) and a write; `ClearCart`; `CatalogueStep` |
| `LiveOrders` | the screens over `OrderLifecycle` and the realtime gateway | `Press`, `Receive`, `Answered`, `Unanswered` (a button and its request); `Broadcast` after `PlaceLive`, `CommitLive`; `Hear` (per event the queries that an app's hook invalidates, `Hears`), `Refetch`, `Serve`, `Arrive`, `FetchFails` (a view of the cache); `Invalidate` restarts the fetch of a view that has data and joins the first fetch of one that has none |
| `CustomerAccounts` | one-time codes and saved addresses of a customer | `AskForCode`, `StoreCode`, `StartCooldown`, `SendCode` (request a code); `TryCode`, then `CountTry`, `BurnCode` or `UseCode` (verify), `LogIn`; `AskToAdd`, `AskForDefault`, `AskToDelete`, then `OpenClear`, `Clear`, `AddAddress`, `SetDefault`, `DeleteAddress`, `FindNext`, `Promote` |

`*Proofs` modules hold the theorems of the module they are named after;
`OrderProofs` those of `OrderLifecycle` and `LiveOrders`, `CustomerProofs` those
of `Catalogue`, `CartLines` and `CustomerAccounts`. `MC*` modules and
configurations are the instances for TLC.

Abstractions that matter. *History variables* record what a request knew when
it checked (`atLookup`, `atCart`, `atCoupon`, `atCheck`, `atRequest`,
`contested`, `unbacked`, `overlapped`, `blended`, `crossed`, `raced`, `lost`,
`tangled`, `sale`, `mixed`, `missed`); the code has no such state and no guard
reads them. With them an invariant can say exactly when a rule may fail:
"only if both calls checked before either committed"; what is left out of the
exception is what the code does guarantee. In `Payments` the
row lock of the first payment is modelled, the shared locks that a foreign key
takes are not, so a few more transactions may overlap than in PostgreSQL.
`Sessions` has no access tokens: any request may find its own expired. A
`LiveOrders` view is one cached query of a mounted, visible screen; pages of a
list are not modelled, and of an order's card only its status (not that of its
payment). A button stays while an error of a background fetch is shown over the
data, which allows more presses than the kitchen's and the customer's pages do.
How React Query treats an invalidation is modelled from the version that
`package.json` asks for (v5), not from a source in the repository. The columns
of a `Catalogue` row are three: those its entries record, those they do not
(`details`), and `isActive`. Contents, prices and names are members of small sets.

## Runs

Every module's type invariant is proved (see Proofs) and not checked again by a run.

| Run | Instance | Shows |
|---|---|---|
| `inventory` | two items, two orders competing for one of them, three lines, two staff requests, clock to 3, time to live 1, two staff operations, one restoration per line | a hold is consumed if and only if it has its one sale; stock is conserved; live holds exceed stock only by what was taken without a live hold; selling down to the threshold is announced; every hold ends, and a settled one stays settled |
| `order_lifecycle` | an offline and an online order, a kitchen that may only advance, an owner and a customer; histories of 6 and 3 rows (6 is the longest path) | the history always tells the status; without contention the order follows the table (refinement of `OrderMachine`) and its stock is restored once |
| `checkout` | an attempt, its retry, a second attempt by the same customer, another customer's; a single-use coupon; carts of three adds | retries agree; a late retry gets its order; a line is ordered twice, a coupon overused, only if the calls overlapped; a line that a checkout clears is ordered unless it was added late |
| `payments` | two gateway orders, a failure and two captures, two collections, one split payment, two refunds, amounts 1 and 2 of a total of 2 | one CAPTURE row per event; every status has its cause; double collection, excess refunds and a wrong summary need overlapping calls |
| `payments_duplicate` | the same | **violated**: a capture whose first handling failed is a "duplicate" for ever |
| `notifier` | two replicas, one event for the owner's two devices, a batch of one, two retries, one disturbance | a published event has reached every device that was its target all along; the notification history is honest; every event is settled for good; the replicas implement `Outbox`, so that a slow replica's late mark never publishes what is owed, and reopens an event only with a counted failure |
| `sessions` | one user with an app (two callers, one flight) and a browser (a tab and a page that loads); four sessions, one disturbance | a password reset ends every session but those of calls it overtook; a token is replaced once, the alarm raised, a client logged out, only for a named cause |
| `staff_accounts` | two members, of whom one exists at first, OWNER and one more role, two requests at a time, three assignments | an active OWNER is left unless removals of two owners passed their checks at once; OWNER keeps `role.manage`; a list is what was assigned last unless assignments of it overlapped |
| `catalogue` | a row of each of the eight kinds, there or not at first, three lists, two requests at a time, two rows and one list written; two values of the recorded columns and two of the others (393,410 states) | the newest audit entries tell every row in the columns they record, and an entry starts from what the ones before it ended with; of a variant the first, and of every row the second, unless two requests changed it at once |
| `cart_lines` | a product in one size, an add-on, two branches that both or one of them sell it; two devices, two lines, two carts, quantities to 2; one row and one list of the catalogue written, under one addItem at a time (`MCNext`, `Bounds`; 877,145 states) | quantities are as asked for unless two requests changed the cart at once; every line is of the cart there is and of its branch; what is added was for sale as a whole at some moment of its request, unless meanwhile one condition was lost and another gained |
| `live_orders` | one order, the kitchen's polled list, which hears both events, and the customer's detail, which hears `order:updated` only and has no poll; three history rows, one failed fetch (946,222 states) | a screen is out of date only while its refresh is under way or for a named cause; the polled screen catches up whatever is lost |
| `customer_accounts` | two requests at a time, six in all, two codes, three addresses, two attempts per code | a code logs in once and takes its limit of attempts; the newest code works until it is used, spent or expired; one default address; each unless writes decided on old reads overlapped |

Why the bounds are enough: each property concerns one row against two
contenders at most, so two of each kind of call plus one bystander exhibit
every order in which they can be interleaved; quantities 1 and 2 separate
"some", "all" and "too much"; the clock runs past the expiry of a hold placed at
any of the first two instants. Only one event is looked at again when redelivered
(`Redelivered`): redelivery of the others changes nothing. `MCPayments` uses symmetry over the two collections and
over the two refunds, and the new configurations over the interchangeable requests,
devices or branches; runs with a liveness property use none. Deadlock is not
checked: every instance has a bounded number of calls and may stop. In
`Notifier` a disturbance is a device that comes or goes, a crash, or a query that
fails, before or after the database did its work. Two devices tell apart "the last
one" from "all"; `MAX_RETRIES` is 2 instead of 5, which leaves one retry that
is counted from a stale claim. In `Sessions` four rows are a login on each client
and a rotation of each, or a chain of three rotations; a lost answer or a reset
is one disturbance. In `Catalogue` two rows written is a change and one that was
decided before it. In `CartLines` an addItem reads each row once, so one change of a
row and one replaced list put a change between any two of its queries, in either
direction; the catalogue rests while both devices ask, whose race is over the cart
alone. In `CustomerAccounts` six requests are enough to
ask for two codes, use up one, and race over three addresses.

Fairness: `Inventory`'s `HoldsEnd` assumes weak fairness of `Tick` (time
passes) and of `Sweep` (`@Cron` runs it every minute,
`inventory-reservation.service.ts:155`). `Notifier`'s `EventsSettle` assumes weak
fairness of each replica's loop: it awaits one query after another and polls
again every `POLL_INTERVAL_MS` (`main.ts:35`); a push has some outcome, none of
which is assumed to recur. `LiveOrders`' `PolledCatchUp` assumes weak fairness of
the fetches of the views that have a `refetchInterval`
(`apps/kitchen-web/src/lib/hooks/use-orders.ts:32`): the next one is asked for,
served and arrives; no event and no failure is assumed away. It is the fairness of a
screen somebody looks at: the interval pauses while its tab is hidden. The screens without
one (the order detail of the customer's app and of the admin panel) are promised
nothing. No request, customer, gateway, device, socket event or fault is
assumed to do anything.

## Findings

One is a run of its own, with the documents it contradicts quoted in
`PROJECT.json`: the webhook's row is committed before the event is applied, so a
failure in between loses the event, and every redelivery is a "duplicate"
(`payments_duplicate`).

The others are the exceptions that the properties name; each really happens in
the model, and would be a counterexample without its exception:

* `adjust` and `recordWastage` ignore live holds, so holds can exceed stock
  (`unbacked` in `HoldsBacked`).
* `transition` does not re-check the status it validated, so a terminal
  order can move again, and stock can be given back twice (`contested`).
* Cancelling an order leaves its holds ACTIVE, so a capture that comes later sells
  the stock of a cancelled order and nothing gives it back (`Capture` has no look
  at the status; `restored` counts only what a cancellation gives back).
* A concurrent retry of a checkout may be told its cart is empty: only a *late*
  retry is promised its order (`LateRetryGetsOrder`).
* Refunds that are still PENDING do not count, so refunds can exceed the payment
  (`RefundsCounted`).
* The claim of outbox events ends before they are processed, so two worker
  replicas may send the same push: at least once, not exactly once.
* Two owners removed at once, each counting the other, leave no owner
  (`crossed` in `SomeoneCanManage`).
* Two refreshes of one token, from two tabs or a page that loads, make two
  sessions or raise the reuse alarm; so does the next refresh after a lost
  answer (`raced` and `lost` in `ReplacedOnce`, `AlarmForCause`).
* Replacing a list while another request does leaves a union of both
  (`blended` in `AsAssigned`).
* Concurrent additions to one cart line lose one (`tangled`); concurrent wrong
  attempts at a code count once (`crossed`); concurrent changes of addresses
  leave none or two defaults (`mixed`); concurrent changes of a row leave the
  audit log with an old value that never was (`raced`).
* The audit log does not record all that is written: of a category or product
  only the columns of `products.service.ts:176-177` and
  `categories.service.ts:96-97`, of a new product three (`:123`), of a variant its
  price when it changes and its removal (`:321-322`). A change of a description, a
  tag, an image or the order leaves an entry that does not show it, or, of a
  variant, none. `LogTellsRows` speaks of the recorded columns only.
* `addItem` reads the product, the variant, the branch's row, the variant's branches
  and the add-ons in queries of their own: when one condition is lost after its query
  and another granted before its own, an item gets into the cart that was for sale at
  no moment (`lost` and `gained` in `AddedWhileSold`). Any item may be withdrawn
  between its last query and the write; checkout looks again.
* An event that reaches a screen during its first load joins the fetch that is under
  way: if the server had read before the change, the screen shows the old status
  (`TooLate`, in `missed`). A poll corrects it; the order detail of the customer's
  app has none, and stays so until it is opened again or another event comes.
* A failure that is delivered after the capture of the same payment sets it from PAID
  to FAILED (`payments.service.ts:269`): `StatusHasCause` asks for a cause, not for
  the newest one.

One the properties do not reach: the comment on `CartService`
(`cart.service.ts:37-40`) says that a cart read reports a branch mismatch among its
`issues`, and `NOT_SOLD_AT_BRANCH` is a code of its type, but `priceCart` never
reports it: a product withdrawn from the branch stays in the cart without an issue.

## Proofs

For every value of the constants allowed by the named assumptions
(`LinesAssumption`, `AmountsAssumption`, `LifecycleAssumption`,
`CheckoutAssumption`, `PaymentsAssumption`, `ActorsAssumption`,
`NotifierAssumption`, `SessionsAssumption`, `AssignmentsAssumption`,
`StaffAssumption`, `CatalogueAssumption`, `CartAssumption`,
`AccountsAssumption`, `ViewsAssumption`): finiteness,
distinct kinds of calls, types of the constant functions, nothing else.

* `InventoryProofs`: types, `SaleIffConsumed`, `StockConserved`, `HoldsBacked`,
  `LowStockAnnounced`, `SettledOnce`. The strengthening is `StatusInv`: a
  hold belongs to a placed order and a tracked item, and an open capture lists
  only its own order's ACTIVE or EXPIRED holds. Without it a capture could consume
  a consumed line again. Quantities are sums over sets of lines, defined as the
  cardinality of a set of units, so the laws of sums (`Quantity` lemmas) follow
  from those of `Cardinality` without recursion.
* `OrderProofs`: of `OrderLifecycle` types, `HistoryTellsStatus`, `HistoryIsPath`,
  `TerminalIsLast`, `RestoredExactly`, `RestoresAccounted`, and the refinement
  `FollowsMachine`. The strengthening `RequestInv` ties a request in hand to an
  edge of the table and a status to the rows written with it; contention is
  what makes the edge stale. Of `LiveOrders` types and `StaleForCause`;
  `ScreensUseService` shows that `LiveSpec` implements `OrderLifecycle`'s `Spec`,
  so that what is proved of the service holds with any screens, polls and lost
  events around it. `FreshReads` strengthens: an answer on its way, like a view,
  is out of date only if an event follows, or if it is a first answer that an event
  came too late for.
* `CheckoutProofs`: types and all five invariants. `AttemptInv` (one order per key, no
  answer before the end), `LineInv` (an ordered line has left the cart; a
  request's snapshot covers its cart up to late lines) and `CouponInv`
  (what a redemption knew when it was checked) are inductive with `TypeOK`.
* `PaymentsProofs`: types and all six invariants. `CallInv` ties an open
  transaction to the progress of its call, and an event to its gateway order.
  `RefundInv` says what a refund was checked with: refunds of the same payment
  that are SUCCESS for good, and together with its own amount no more than the payment.
  `ViewInv` says that a transaction that is alone has computed the
  summary of the rows it will leave, and that nothing which happens until its
  commit (another request's row, an amount not yet paid) changes that summary.
  `CollectInv` shows that a collected offline payment stays PAID, so that no
  later collection passes its check. Sums are cardinalities, as in `InventoryProofs`.
* `NotifierProofs`: types, all three invariants and the refinement `ImplementsOutbox`. `ReplicaInv` says what a
  replica owes the event it works on: unless it will retry, each steady device is
  still among its targets or has been reached, so that nothing is owed when it
  publishes; `ClaimInv` that a claimed retry count is never ahead of the row's.
  `Grows` (pushes, rows and retries are never taken back) is why the steps of other
  replicas cannot disturb either. From the same invariants `WorkerImplementsOutbox`:
  every step of the replicas, the devices and the faults is a step of `Outbox` or a
  stutter; publishing needs `ReplicaInv`, giving up needs `ClaimInv`.
* `SessionsProofs`: types and all four invariants. `ShapeInv` says which tokens exist
  and whose they are; `FreshInv` that a token on its way to its client is nobody
  else's; `ReplaceInv` what a token that is being replaced looks like; `CauseInv` why
  a token that a client still shows is revoked. `FreshInv` and `ReplaceInv` are what
  makes `Store` and `Rotate`, which write by id whatever happened since, harmless.
* `StaffAccountsProofs`: types, `SomeoneCanManage`, `AsAssigned`. `CallInv` ties a
  transaction to its request; `AloneInv` says that one that runs alone has seen
  every row of its list; `OwnerInv` that every removal that passed its check leaves
  another owner.
* `CustomerProofs`: types and all invariants of `Catalogue` (`LogTellsRows`,
  `LogHasNoGaps`, and `AsAssigned` for its lists), of `CartLines`
  (`QuantityAsAsked`, `LinesOfOneBranch`, `AddedWhileSold`) and of
  `CustomerAccounts` (`CodesAreSpent`, `NewestCodeWorks`, `OneDefault`). These
  services decide on what they read in an earlier query, so each strengthening
  says what of that reading still holds at the write.
  `LogInv`: a request that changes a row has seen it as it is unless the row was
  raced for (`SeenInv`), and a transaction that is alone on its list has seen all
  of it (`AloneInv`). `CartInv`: a cart's id is used once, so the branch a request
  compared is still that cart's; nobody else knows a cart that is being made
  (`Alone`); and the quantity found is the line's unless somebody else wrote
  (`Fits`). `SaleInv` follows what a request knows of the catalogue through every
  change (`Tracks`): the conditions it has met hold unless one was lost, and one it
  has not met fails unless the item was for sale as a whole or one was gained; with
  all of them met, these two say that it was for sale once, or that both happened.
  `CodeInv`: the record counts the wrong attempts at its code, and an
  attempt in hand knows that count unless a write came between (`CodeFits`).
  `AddressInv`: exactly one default (`TheDefault`, the set itself, from which
  `OneDefault` follows by cardinality), and a transaction that is alone holds all
  the defaults there are (`AddressFits`).

Some theorems state invariants of the modules that no run repeats: `HistoryIsPath`, `TerminalIsLast`, `RestoresAccounted`,
`IgnoredAreSuperseded`, `FailedOnlyAfterMaxRetries`, `Catalogue`'s `AsAssigned`, and the types.

Model-checked only: `HoldsEnd`, `EventsSettle` and `PolledCatchUp` (liveness under
fairness is beyond the prover), the violated property, and everything about the
instances themselves. Every safety invariant, action property and refinement that
a passing run checks is also a theorem.

## Not modelled, and the plan

Not modelled, with reasons, per component in `PROJECT.json`:

* prices, taxes, discounts and delivery fees: arithmetic on one request's data,
  which unit tests reach; refusals for their sake are in the guards;
* catalog browsing, reports, listings and search: queries without state;
* images and uploads, the organization row, a customer's own profile: single
  statements nothing else depends on;
* signatures, validation, throttling, logging, metrics, health checks: no state of
  their own;
* screens and forms: about half of the repository's lines are React components,
  whose layout has no behaviour to check. What decides their actions (hooks, clients,
  stores, `order-actions.ts`) is in `LiveOrders` and `Sessions`;
* the order in which `createOrder` locks inventory rows: PostgreSQL breaks a deadlock
  by aborting one transaction, which the models allow of any.

Done: `Inventory`, `OrderLifecycle` with `OrderMachine`, `Checkout`, `Payments`,
`Notifier` with `Outbox`, `Sessions`, `Assignments`, `StaffAccounts`, `LiveOrders`,
`Catalogue`, `CartLines`, `CustomerAccounts`, all with their proofs.

What could follow:

1. An abstract webhook ledger that `Payments` implements, and an abstract cart for
   `CartLines` and `Checkout` together.
2. `Fulfilment`: a composition of lifecycle, payments and inventory, for what
   none of them says alone: a late capture of a cancelled order sells its stock.
