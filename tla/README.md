# ScaleCart in TLA+

A model of the parts of ScaleCart whose correctness depends on what several
requests, services and crashes do in between each other, checked with TLC on
small instances and, but for what depends on fairness, proved with TLAPS for every instance. The
code modelled is below `src/`; paths here are relative to it.

Contents: [the system](#the-system), [modules](#modules),
[correspondence](#correspondence-with-the-code), [runs](#runs),
[fairness](#fairness), [proofs](#proofs),
[disagreements](#where-code-and-documentation-disagree),
[limits](#what-is-only-model-checked-and-what-is-not-modelled), [plan](#plan).

## The system

| Component | State | Operations | Talks to |
|---|---|---|---|
| order-service (`services/order-service`) | `orders`, `order_items`, `order_status_history` in PostgreSQL | checkout, cancel, expire-reservations, administrator transitions, reads | cart-service (read and clear the cart), product-service (reserve, release), both over HTTP with a 5 s timeout and no retry of its own |
| product-service, reservations | `product_variants.stock_quantity`, `inventory_reservations` | reserve, release | called by order-service |
| product-service, catalogue | `categories`, `products`, `product_variants`, `product_images` | administrator create/update/archive, public queries | called by cart-service for prices and stock |
| cart-service | one Redis key per cart, with a TTL | read, add, update, remove, clear, merge a guest cart | product-service (live price and stock) |
| user-service | `users`, `roles`, `refresh_tokens`, `addresses` | register, login, refresh, logout, profile, addresses, roles | issues the JWTs the others verify |
| storefront (`apps/storefront`) | cart store, session, idempotency key of a checkout, in the browser | every customer action | all services through nginx |
| payment-service, notification-service | none: shells with health endpoints | none | none |
| `packages/python-common`, gateway, migrations, seeds | none at run time | application factory, health checks, routing, schema | all |

### Where it is hard, and what is right

**order-service and product-service** own one business transaction, "this order
has this stock", across two databases without a distributed commit. A checkout
inserts the order (`reserving_inventory`), commits, locks the row again, asks
product-service for the stock, then commits `pending_payment` and clears the
cart. A cancellation or an expiry asks product-service to release and then
commits the new status. Each of these handlers may end at any await: the call
times out but is still executed, the client hangs up, the process stops, a
later call of the same batch fails. The client retries with its idempotency
key; duplicates, the customer, administrators and the scheduled expiry run
against the same row. Correct means:

* stock is taken and returned at most once for an order, as a whole, never
  below zero, and not lost (`LedgerSpec`, `StockConserved`, `InventoryTypeOK`);
* no order reaches payment without stock having been taken for it
  (`OrdersBacked`), and no cancelled order keeps any (`CancelledReleased`);
* the cart goes only when the order is safe (`ClearedOrdersReserved`);
* what a handler checked of an order still holds when it commits
  (`OneHandlerPerOrder`, `EntryAlongTransitions`), and the audit trail agrees
  with the row (`HistoryEndsInStatus`);
* an abandoned order is expired in the end (`ExpiryCompletes`);
* as the documentation has it: no overselling, no transition outside the graph,
  failures can be retried. The code does not quite keep these three, see
  [below](#where-code-and-documentation-disagree).

**cart-service** applies every change in a Redis WATCH/MULTI loop, but checks
quantities against a variant it read before the loop, and merges a guest cart in
two steps (merge, delete), and asks the catalogue again before it answers. Correct
means: what a transaction stores was computed from the cart it replaces
(`CopyCurrent`, `CartsAtomic`), success is answered only for a change that was made
(`AcknowledgedApplied`; a change that was made may be answered 503), the limits and the currency of a
cart hold after every change (`CartLimits`), its currencies mix by nothing but an
update of a line whose variant changed its currency (`MixedOnlyByUpdate`), requests
do not make each other retry for ever (`SomeRequestEnds`), and, as documented, a
guest cart is merged once; the last does not hold.

**Checkout and cart** meet twice, when the order takes its snapshot and when the
cart is emptied, with no transaction around the two. Correct means: no unit vanishes
from the cart unless it is in a placed order, or was put in behind the snapshot
(`NothingLost`), and what was bought leaves the cart unless a fault came in between
(`BoughtLeavesCart`).

**user-service** rotates refresh tokens under a row lock, but `logout` reads
without one; an address becomes the default by clearing the others first, without a
lock but with a unique index behind it; roles are replaced by a difference to roles
loaded before. Correct means: a login has one token that can be exchanged, and what
is revoked stays so (`OneTokenPerLogin`, `RevokedForGood`), a login that was ended has
no token left (`LogoutEndsLogin`), and a login outlives a logout only where the token
handed in had been exchanged (`SurvivesLogoutOnlyExchanged`); a user has at most one default address and, having
addresses, loses it only to a race (`OneDefault`, `DefaultLostOnlyByRace`), likewise a user the
last role (`RolelessOnlyByRace`); only requests that were let in as an administrator's
leave the service without one (`LastAdminKept`).

**product-service's catalogue** keeps categories acyclic by a walk that locks
nothing, derives the currency of a product from its active variants, and writes from
rows loaded before. Correct means: a cycle is closed only by a race, and the walk ends
on one (`CycleOnlyByRace`, `WalkEnds`); what is on sale is in one currency
(`SoldInOneCurrency`); an archived variant is not put on sale by a change of its price
(`ArchiveSticks`).

**storefront** shows whichever cart answer arrives last. Correct means: spinners stop
(`SpinnersEnd`); a request that was alone leaves the bag as it is stored
(`AloneShowsStored`), and a guest with the cart that was had (`CartKept`); no answer
shows a cart older than the one shown when it was asked for, that of an order whose
cart was not cleared apart (`NeverOlderThanSeen`).

## Modules

| Module | What it is |
|---|---|
| `HoldLedger` | the abstract specification of reservations: `Take`, `Return` and `Restock`, each one atomic step |
| `Inventory` | product-service's `reserve_inventory` and `release_inventory` with arbitrary callers; `LedgerSpec` says that it implements `HoldLedger` |
| `InventoryProofs` | TLAPS: type correctness, answers stay true, `Inventory` implements `HoldLedger`, stock is conserved |
| `OrderService` | order-service on top of `Inventory`: the handlers, their transactions and row locks, their calls |
| `OrderProofs` | TLAPS: type correctness, the ledger under order-service, the inductive invariant and what follows from it |
| `HistoryProofs` | TLAPS: what a step does to one row and its history; transitions, audit trail, cleared carts |
| `CartLines` | what the handlers of cart-service do to the contents of a cart: the closures they pass to `mutate` |
| `AtomicCarts` | the abstract specification of carts: every change one permitted operation, in one atomic step |
| `CartStore` | cart-service's handlers and their Redis commands, one step for each await; `CartsAtomic` says that it implements `AtomicCarts` |
| `CartProofs` | TLAPS: type correctness, optimistic locking, limits, acknowledgement, `CartStore` implements `AtomicCarts` |
| `CheckoutCart` | checkout and the cart: the snapshot, the clear and the shopping in between |
| `Sessions`, `Addresses`, `Roles` | user-service: registration, login and refresh tokens; a user's addresses and the default; the roles administrators assign |
| `CategoryTree`, `ProductVariants` | the catalogue: parents of categories; variants, their currencies and archiving |
| `Storefront` | the cart store in the browser, and the answers of cart-service it waits for |
| `SessionProofs`, `AccountProofs` | TLAPS: one token per login, logout, revocation; the default address, the last administrator and the last role; `MCAccounts` behaves as each of its parts |
| `CatalogueProofs` | TLAPS: cycles and mixed currencies are races, archiving sticks |
| `ShoppingProofs` | TLAPS: checkout loses nothing from the cart and empties it of what was bought; spinners, answers and carts of the storefront; `MCShop` behaves as each of its parts |
| `MCInventory`, `MCOrders`, `MCCarts` | instances for TLC, and the documented statements that fail |
| `MCAccounts`, `MCShop`, `MCLoops` | instances of several modules that share no state: `part` chooses the one a behaviour exercises |

`CheckoutCart` is where the specifications of orders and of carts meet. It repeats of
`OrderService` the outline of checkout and of `CartStore` only that a request changes the
cart in one step, which `CartsAtomic` shows; composing the two detailed modules would
multiply states that neither half reads of the other.

The refinement among the order modules is that of `HoldLedger` by `Inventory` (its
lookups, locks and rollbacks are invisible stutters, its commits are the ledger's
steps), checked by TLC and proved. That `OrderService` calls `Inventory` as `InventorySpec`
allows holds by construction, since it is built from `Inventory`'s own actions and the
callers there are arbitrary; `OrderProofs` uses it as a lemma (`IsInventory`) and no run checks it.

## Correspondence with the code

`PROJECT.json` maps every definition to its lines; this is the reasoning behind
the mapping.

**Steps.** A handler is cut where another transaction can run: at an await on
another service and at a commit. Between two cuts it is one action, because it
holds the row lock it works under (or touches no shared row). `SELECT ... FOR
UPDATE` on a row another transaction has locked waits; the action that contains
it is disabled until `lock[o]` is free. `FOR UPDATE SKIP LOCKED` is the
`Unlocked(o)` in `Expired`. A commit or the end of the session releases the locks
(`Finish`).

**`Inventory`.**

| Code | Action |
|---|---|
| `reserve_inventory` up to the early return (263-275), an unlocked read | `ReserveLookup` |
| the rest (277-316): lock the variants, compare, decrement, insert, commit; on `IntegrityError` roll back and answer from the row | `ReserveCommit`, three alternatives |
| `release_inventory` (319-349), which locks before it reads | `Release`, three alternatives |
| `update_variant` (absolute `stock_quantity`); archive and update of variant, product, category | `SetStock`, `SetSellable` |
| `InventoryClient` (`clients.py:38-66`) | `Send`, `Receive` |
| a request that never arrives or whose handler dies before its commit | `Lose` |

A call is a slot with a state: `sent`, `checked` (past the lookup), then an
answer: `ok`, `conflict` (409), `missing` (404). A caller that gives up leaves the
slot to the environment; the request still runs. Items are constant per order
(`Qty`): order-service always sends the items of the order row, so the
comparison `existing.items != requested_items` is never true and is left out.
An item outside the catalogue is one whose variant is not sellable. The flags of
variant, product and category are one Boolean, since only their conjunction is
read.

**`OrderService`.** `status`, `deadline`, `history` are the columns (only
`from_status` and `to_status` of a history row); `deadline` is NULL, ahead or
passed, and `DeadlinePasses` is time. `cleared` records the orders whose checkout
cleared the cart. `lock` is PostgreSQL's row locks. `worker[w]` is a running
handler: where it is, its order, its call, and for an expiry the orders still to
release. An order stands for its idempotency key: the order is `absent` until
its insert.

| Code (`routes.py`) | Actions |
|---|---|
| `checkout`, no order yet, asks for the cart (193, 208) | `CheckoutMiss` |
| insert and commit (208-271) | `CheckoutInsert` |
| unique key violated, rollback, select again (272-281) | `CheckoutCollide`, then `CheckoutReread`: the row as it is |
| select again after its own insert (282-291) | `CheckoutRelock`: the row is locked, but the handler keeps the object it inserted (`expire_on_commit=False`, `database.py:14`; no `populate_existing`), hence goes on whatever the status is by now |
| checkout finds an order (193-206) | `CheckoutResume` (still reserving), `CheckoutReplay` (answered from the row) |
| `_finalize_checkout`, stock taken, commit (139-173) | `ReserveOk`, which frees the row |
| `_finalize_checkout`, clear the cart (174-177) | `ClearCart`: the cart cleared or not, by a handler that holds no lock |
| `_finalize_checkout`, stock refused (153-166) | `ReserveRefused` |
| `cancel_order` (342-370) | `CustomerCancel`, `CancelCommit` |
| `update_order_status` (409-435) | `AdminCancel`, `CancelCommit`; `AdminTransition` for the targets that call nobody |
| `expire_reservations` (373-406) | `ExpireBegin`, `ExpireNext` for each further order, `ExpireCommit` for the single commit |
| any handler that ends early: 5xx, timeout, disconnect, crash | `Abort`, at any point |

`_transition_order` is `Transition(os, from, to)`: status, deadline and history
together. Its `from` is what the handler has in memory, which is the row except
after `CheckoutRelock`. A customer may cancel any order here; the code checks
access first. An empty or unavailable cart ends the checkout before it writes
anything, which is an `Abort`.

**`CartStore`.** `cart[k]` is what Redis holds under a key; a missing key and a
cart without lines are the same to every handler. Of a line the quantity and the
currency are kept, of a catalogue variant its stock and its currency; a variant
that is gone is one without stock, which every closure treats alike. `catalog`
changes at will within `Infos`.

| Code | Action |
|---|---|
| the call, validation of its body (`routes.py`) | `Start` |
| `RedisCartStore.read` (`store.py:17-22`), GET and EXPIRE as one step, for `get_cart` | `Read` |
| `_to_response` (`routes.py:37-72`), which asks the catalogue for every line before the request is answered, so that 503 can follow what was applied | `Answer`, or an `Abort` in `answering` |
| `catalog.get_variant`, before the transaction (100, 134-137) | `Lookup` |
| `merge_guest_cart`: read the guest cart (184), ask for its variants (185, concurrently) | `MergeRead`, `MergeLookup` |
| `mutate` (`store.py:24-40`): WATCH; GET and the closure; EXEC | `Watch`; `Get`; `Exec`, `ExecConflict` |
| the connection breaks: the client library turns that into a `WatchError` while a key is watched, so that the loop goes round, after EXEC ran or before | `ExecUnanswered`, `ConnectionBreaks` |
| delete of the guest cart (217), `clear_cart` | `MergeDelete`, `Clear` |
| `ex=`, `EXPIRE`: the key's time runs out | `KeyExpires` |
| the closure raises; 503 of the catalogue, timeout, disconnect, crash | the `failed` of `Get` and `Lookup`; `Abort`, at any point |

`Touch` is Redis: a write, a deletion, an expiry or an `EXPIRE` marks every
connection that watches the key, and EXEC does nothing on a marked one. `Watch`
starts unmarked because `finally: pipeline.reset()` unwatches. The closures are pure
operators (`MayAdd`, `Added`, ... in `CartLines`), so that the abstract and the
detailed specification share them and differ only in when they are applied, and
to which cart. `AtomicCarts` gives requests no identity: it says what a change may be, not that
a request makes one only, and `ExecUnanswered` does apply an addition again.

**`CheckoutCart`.** The cart is a set of units that are put in at most once, so that it
can be said of each what became of it; `shopping.put` and `removed`, and of an order
`known` (what had been put in by its snapshot), `reached` and `unheard`, are kept for that
and are in no store. A handler holds the lock of the order's row in `reserving`.

| Code (order-service) | Action |
|---|---|
| requests of the customer on the cart; its expiry | `PutIntoCart`, `TakeOutOfCart` |
| checkout looks for its order (`routes.py:193-206`) | `FindOrder` |
| reads the cart (208-213; `clients.py:13`), inserts (214-271) | `ReadCart`, `InsertOrder` |
| locks the row again, its own or the one that was first (272-291) | `RelockOrder`, `RereadOrder` |
| `_finalize_checkout` (139-177) | `OrderReserved`, `OrderRefused`, `SendClear` |
| the DELETE runs, perhaps after its caller gave up, or is lost | `CartCleared`, `ClearLost` |
| cancellation, expiry | `OrderCancelled` |

**`Sessions`.** `token` has the rows of `refresh_tokens`; `origin` and `login` are not
columns, they tell which request issued a token and at which login its chain begins;
`loggedOut` notes that a logout with it was answered 204.
A token that exists may be presented at any time by anyone, which covers clients that
repeat a request whose answer was lost.

| Code (user-service, `routes.py`) | Action |
|---|---|
| `register`: check, hash; insert and commit, or 409 by the unique index | `RegisterCheck`; `RegisterCommit` |
| `login` | `Login` |
| a token arrives; `decode_token` (`security.py`) refuses an expired one, and `refresh` compares with a `now` taken before it waits for the row (134) | `Present` |
| `refresh`: `FOR UPDATE`; rotate and commit | `RefreshLock`; `RefreshCommit` |
| `logout`: read without a lock, 204 for a revoked token; update and commit | `LogoutRead`; `LogoutCommit` |

**`Addresses`** is the finest of the models, since the default depends on what PostgreSQL
does under READ COMMITTED. A statement sees what is committed when it starts, and waits
for a row another transaction has written, then takes it as it is (`ClearStart`, `ClearRow`
row by row). `draft` is what a transaction has written and not committed. The partial
unique index `uq_addresses_one_default_per_user` is `IndexBusy` (wait for the other
transaction) and `IndexAllows` (or be rolled back). `create_address`, `update_address` with
`is_default`, and `delete_address` with its promotion are `CreateAddress`, `PreferAddress`,
`UnsetAddress`, `DeleteAddress` and the writes that follow; `seen` is what the session
loaded first and, by its identity map, goes on seeing.

**`Roles`.** `require_admin` reads the caller's roles (`RequireAdmin`), `assign_roles` loads
the user's (`LoadRoles`) and writes the difference to the roles asked for
(`AssignRoles`). `rights` are the caller's roles as they were read when the request was
let in; of one who asks for themselves the session has them already (`Loaded`). `SeedAdmin` is the bootstrap script. Users are not deactivated anywhere
in the code, so that `is_active` is left out.

**`CategoryTree`.** One turn of the loop of `_validate_parent` is `WalkUp`, since each is a
query of its own; `read` keeps what it saw of each parent, to say what has changed since.
**`ProductVariants`.** A request loads and compares in one step (`CreateVariant`,
`UpdateVariant`, `ArchiveVariant`) and commits in another; SQLAlchemy's UPDATE has the
columns that differ from the loaded row (`MergedColumns`). Which active variant comes
first is left open, as the relationship has no order.

**`Storefront`.** Every action of `cart-store.ts` is a request before its `await` and an
answer behind it. Of a cart it matters which one it is and how many changes were made to
it. `shown` and `alone` are kept to speak about what the customer saw. `Header` and
`Remembered` are the two halves of the cart identifier in `api.ts`; `OrderedUncleared` is an order whose
clear failed, after which the bag is empty all the same: `clear` and `completeCheckout`
empty the bag that they find and leave its identifier, of whatever cart it is by then
(`Shown`).

## Runs

| Run | Instance | Shows |
|---|---|---|
| `inventory` | 2 orders over 2 variants that compete for one unit, 3 concurrent calls, one variant that may be deactivated | `InventoryTypeOK`, `AnswersHold`, `StockConserved`, `LedgerSpec` |
| `orders` | 1 order, 3 handlers, 3 calls, every administrator target, stock rewritten to 0 or 1 at any time | `TypeOK`, `OrdersBacked`, `CancelledReleased`, `ClearedOrdersReserved`, `EntryAlongTransitions` |
| `batch` | 2 orders for one unit, 2 handlers, 2 calls, batches of up to 2 | `HistoryEndsInStatus`, `OneHandlerPerOrder`, `IInv` |
| `expiry` | 2 orders, 2 handlers, 1 call, with fairness | `ExpiryCompletes` |
| `oversell`, `lifecycle`, `stranded` | the smallest instance with the counterexample | the three documented statements of `MCOrders` that the code violates |
| `carts` | a customer's and a guest cart, 3 variants of which one sells out and changes its currency, at most 2 lines and 2 units, 2 requests at a time out of read, add (three), update, remove, clear, merge | `CartTypeOK`, `CopyCurrent`, `CartLimits`, `MixedOnlyByUpdate`, `AcknowledgedApplied`, `CartsAtomic` |
| `retries` | 2 variants, add, read, clear, merge; 3 categories, 2 administrators; with fairness | `SomeRequestEnds`, `WalkEnds` |
| `accounts` | 3 requests, 3 tokens of one user; 2 requests, 3 addresses; 2 users and 2 administrators' requests | `AccountsTypeOK`, `OneTokenPerLogin`, `LogoutEndsLogin`, `SurvivesLogoutOnlyExchanged`, `RevokedForGood`, `OneDefault`, `DefaultLostOnlyByRace`, `LastAdminKept`, `RolelessOnlyByRace` |
| `shop` | 3 categories; 2 variants in 2 currencies; 2 units, 2 orders and 2 checkouts at once; 2 carts, 2 variants and 2 requests in flight | `ShopTypeOK`, `CycleOnlyByRace`, `SoldInOneCurrency`, `ArchiveSticks`, `NothingLost`, `BoughtLeavesCart`, `SpinnersEnd`, `AloneShowsStored`, `NeverOlderThanSeen`, `CartKept` |
| `merge` | a guest cart filled by one request, merges asked for twice | the documented `MergedOnce`, violated |

**Bounds.** No counter is bounded artificially: orders go through their lifecycle
once, except that the stale copy of `CheckoutRelock` can take an order back once
per inserting handler, of which there is one per order, so histories are finite.
The bounds are the sizes of the sets.

* `Calls`, `Workers`: three calls about one order are two concurrent duplicates
  past the lookup and a release; three handlers are a checkout, its duplicate
  and an administrator, customer or expiry. The races of the code are between
  two transactions on one row and calls left behind by a third.
* `Orders`: handlers interact through a row, or through stock, and for both two
  orders are enough to have one win and one lose; batches need two.
* `Stock` is one unit, so that every pair of orders competes; `StockLevels` are
  the values administrators write: 0 and 1 in `orders`, none elsewhere, since stock written
  by hand makes the sum of `StockConserved` meaningless; `Delistable` the variants they
  deactivate. That an administrator's number may be out of date is not a property
  of any run: the write is absolute by design, and nothing records what was seen.
* `AdminTargets` are the statuses an administrator asks for in an instance. The
  two-order runs keep `confirmed`, since the statuses behind it only add
  length; `orders` has them all.
* `BatchLimit` is 2 with two orders: batches of one and of two occur, the
  former when the other order is locked or not expired.

* Carts: a conflict needs two handlers on one key, and a handler sees others only
  through the mark on its key, so a third adds no new kind of step. Two lines of
  three variants and two units of three in stock make both limits bite, by
  addition and by merging. The
  one variant that changes its currency is also the one that is updated.
* `accounts`: a chain of three tokens has a token that was rotated twice over, and
  three requests are two refreshes and a logout of one token. Three addresses let a
  deletion choose between two, while another request inserts.
* `shop`: three categories are the least for a walk of more than one query under
  another move; two orders of one cart with the same or another key; two units tell what
  the snapshot had from what came after. `MaxClears` is two, so that a clear of an
  order and of its duplicate can both be late; `MaxChanges` is two, so that answers can
  be older by one and by two.

Workers, calls and (without liveness) orders are symmetric sets, as are the handlers
of carts, the two requests that `AccountSymmetry` exchanges in all parts, and tokens;
`expiry` and `retries` use no symmetry. Deadlock is checked in every run: a finished order can always be
replayed.

## Fairness

`ExpiryCompletes` is checked under `LiveSpec`. Assumed are: product-service
answers requests that stay in its hands, and answers nobody reads disappear
(`WF` of `ProductServes` and `OrphanEnds`, an event loop and a socket); time
passes (`DeadlinePasses`); a handler with an answer in its hand continues (`WF`);
the one that waits for a row lock gets it although others take it in between
(`SF`, PostgreSQL queues lock waiters); and expire-reservations is called again
and again (`SF` of `ExpireBegin`), which is the "scheduled caller" that
`docs/architecture/order-service.md:44-45` assumes. `SF` rather than `WF`, because an
expired order is not in a batch's reach while another handler has it locked.

Not assumed: that a customer retries, cancels or pays, that an administrator
does anything, or that calls are not lost. The property itself has the premise
`FaultsCease`: from some time on no handler is aborted. Without it an order could
fail to expire for ever, in the code as in the model. Any number of faults may
come before.

`SomeRequestEnds` and `WalkEnds` are checked under `LoopSpec`. `RequestFairness`: a request
whose Redis or catalogue answer has come goes on (`WF` of `Serve`); `CategoryFairness`: a
query of the walk is answered and the walk goes on (`WF` of `WalkUp`). Both are what an
event loop gives a coroutine that is ready. Nothing is assumed of who wins a
conflict, hence the property is about some request ending, not every one. Its
premise is that connections stop breaking; a loop on a connection that breaks for
ever does not end, in the code as in the model. `WalkEnds` needs no premise: it holds
however others rearrange the categories, because the walk remembers what it visited.

## Proofs

All are for every value of the constants under the named assumptions:
`NoOrderAssumption`, `NullAssumption` (the null values are no orders, handlers,
calls), `QtyAssumption`, `StockAssumption` (quantities and stock are natural
numbers), `LimitAssumption` (`limit` is at least 1, `ge=1` in `routes.py:378`). No set
of the order modules needs to be finite or non-empty. Otherwise assumptions are
of three kinds. Null values are none of the values they stand beside (`NoTokenAssumption`,
`NoCategoryAssumption`, `StorefrontAssumption`), and the bounds are natural numbers
(`MaxAddressesAssumption`, `CheckoutAssumption`, `StorefrontAssumption`). What the code
names exists: the roles `admin` and `customer` (`RoleAssumption`), the default currency and
a variant to speak of (`VariantAssumption`), an idempotency key (`CheckoutAssumption`).
Handlers, users, tokens, units and carts may be any number, infinitely many included.

`InventoryProofs`. `InventoryTypeOK` is inductive by itself. `AnswersHold` needs
that reservations only move forward (`ReservationForward`): none, reserved,
released. `InventoryImplementsLedger` maps each alternative of `ReserveCommit` and
`Release` to `Take`, `Return` or a stutter. `StockIsConserved` counts the units that orders
hold (`HeldUnits`) instead of adding quantities up: a `Take` makes a disjoint union, a
`Return` undoes one (`DisjointUnion`, `UnitsOfOrder`). `Balanced` adds that the units held are
finitely many, of however many orders. Its premise, `StockLevels = {}`, is that no
administrator writes `stock_quantity`, which sets the balance anew.

`OrderProofs`. `OrdersBacked` and `CancelledReleased` are not inductive: whether a
handler may write `cancelled` depends on the answer it holds. `IInv` adds

* `AnswersHold`, inherited from `Inventory`: an `ok` is still true
  when it is read;
* `CallsOwned`: the call a handler waits for is its own, and asks about its order
  what its place in the code says; a release is never answered 404 for an order
  past `reserving_inventory` (otherwise `cancel_order`, which takes 404 for
  success, would cancel an order whose stock was never returned);
* `RowsLocked`: a waiting handler holds the lock of its rows, and their status is
  still what it checked;
* `BatchReleased`: the `pending_payment` orders a batch is done with are released.

The cases group by what a step does to locks and calls: it commits and goes on without
a lock (`UnlockStep`) or ends (`FinishStep`), begins a call (`LockAndCallStep`), goes on to the next order of a
batch (`ExpireNextStep`), serves a call (`ProductServesStep`), or touches no locked
row (`QuietStep`). `IInvStep` puts them together; `OrdersAreBacked`,
`CancelledAreReleased` and `HandlersAreSerialised` follow.

`HistoryProofs`. `RowStep` describes what a step does to the row and history of one
order: nothing, the insert, or one transition with its entry, which for
fulfilment and cancellation is along `TRANSITIONS`. From it and `IInv` follow
`EntriesAreTransitions`, `HistoriesEndInStatus` and `ClearedOrdersAreReserved`; the last
speaks of the orders about to be cleared as well, which makes it inductive: histories
only grow and reservations only go forward, whatever others do before the clear.

`CartProofs`. What `AcknowledgedAreApplied` shows is one direction, success only for what was
applied. The assumptions are `CurrencyAssumption` (finitely many
currencies), `CartLimitsAssumption` (finitely many variants, natural limits),
`InfosAssumption` and `RequestAssumption` (there are requests, and none merges a cart into itself). `CartTypeOK`
is not inductive: that a stored quantity is within its limit depends on the copy
the handler computed from. `CartInv` adds `CopyCurrent`, and what each handler has
checked before its transaction (`Sound`: an update its quantity, a merge the
variants of all guest lines). Its preservation has three shapes: a step of one
handler (`GoStep`), a step that also marks watchers (`TouchStep`, `MarkedStep`), a
change of the catalogue. `MutationCart` says that what a closure returns is a cart
within the limits; `CartStep` that a cart changes only by such a mutation applied
to it as it is, or to nothing. From these follow `CartsAreLimited`,
`CartsImplementAtomic` and `MixedByUpdatesOnly`, the last with one lemma for each closure:
an addition or a merge that is allowed leaves a cart of one currency so
(`AddedOneCurrency`, `MergedOneCurrency`), an update does when the line keeps its currency
(`UpdatedOneCurrency`).

`SessionProofs`. `OneTokenPerLogin` depends on locks, and `LogoutEndsLogin` on
`OneTokenPerLogin`: the token that a logout revokes is the only one left to revoke.
It is about a token that was not rotated yet when the logout came; of the others
`LogoutOutlivedByExchange` says that the exchange of the token handed in is the only way a
login goes on, since what was answered 204 is revoked (`LoggedOutRevoked`). `SessionInv` adds
that a token being rotated is still valid and is rotated by one handler
(`HandlersSound`, `LockedOnce`). That is where the row lock of `refresh` enters: the
update of a logout, which read without a lock, waits for it.

`AccountProofs`. `OneDefault` is what the partial unique index promises, and the index is
modelled by what a transaction may write and must wait for; to show that the promise
follows takes `OneDraftedDefault` (one transaction at a time has a default written and not
committed) and that such a transaction sees no other (`DraftSound`). `DefaultLostOnlyByRace`
goes further: `CreationSound` and `DeletionSound` say of a request in the middle of its
statements what its draft makes of the rows that it has loaded. `Sound` is the conjunction
for one request, so that a step of another one is covered by a single lemma on what a
commit changes. The choice of the address to promote is a least number
(`WellFoundedInduction`). For `Roles` the invariant is the types and `Lawful`: a request that is under
way was let in as an administrator's or is the account's own, asks for at least one role and
writes roles that exist. Without the check of `require_admin` it does not hold of the first
step, and `LastAdminStays` fails.

`CatalogueProofs`. `WalkSound`: what the walk has read leads from one visited category to
the next, up to where it stands. When none of it has changed since, a set of categories
that has all its new parents inside had one before the write as well: itself, or, if the
category that moves is in it, the part of it that the walk has visited (`CheckedMove`).
Hence `CyclesAreRaces`, for hierarchies of any size. For variants `CheckedSound` keeps that
the row to be written is in the currency of what the request has loaded, and `InsertsApart` that two requests never insert
one row; `OneCurrency` compares that with the rows at the commit.

`ShoppingProofs`. What checkout relies on is `Covers`: of what had been put into the cart by
a snapshot, what is still in the cart is in the snapshot. It holds when the snapshot is
taken and no later step breaks it, since a unit is put in once. `RequestsSound` carries it
from the snapshot to the insert, `OrdersSound` from there on, and adds that a DELETE is in
flight only for an order that was placed; so a clear takes what its order covers or what
came later, which is `NothingLost`. For `BoughtLeavesCart` a step either leaves the clear of
an order under way, or notes that it was not heard of (`StillClearing`).

The storefront's `StoreInv` says that the bag, where there is one, is of the remembered cart,
and of a request (`FetchSound`) that its answer is of the cart
that it named and not older than what was shown when it was sent, and of one that no other
overlapped (`AloneSound`) that it is the only one in flight, still has the remembered
identifier, and when answered shows what is stored. Steps are of three shapes: a
request is sent (`RequestSent`), an answer written (`AnswerWritten`), a request ends
(`FetchEnds`). The action properties follow because only `ReceiveAnswer` ends an answered
request (`AnswerEnds`).

`AccountParts` and `ShopParts` show that the instances behave as each of their parts, which
makes the theorems about the parts theorems about what the runs `accounts` and `shop`
check. `AddressInv`, `CheckoutInv` and `StoreInv` were model-checked on instances of the size
of those runs before they were proved.

## Where code and documentation disagree

1. **`lifecycle`**: the checkout that inserted an order works on its own copy
   (`routes.py:283`). Between its commit and its re-lock a duplicate can finish the
   checkout and an administrator confirm; the stale handler then reserves again
   (answered `ok`, the reservation exists) and writes `pending_payment` over
   `confirmed`. The deadline stays NULL, so the order is out of reach of expiry.
   The documented graph has no such edge. What still holds is `EntryAlongTransitions`:
   fulfilment and cancellation are entered correctly.
2. **`oversell`**: release first, commit later (`routes.py:361`, `394`). A handler
   that ends in between leaves a `pending_payment` order without stock, which can
   be confirmed and shipped while its unit is sold again.
3. **`stranded`**: a retried reserve may be refused because its own first attempt
   took the stock (`product-service/app/routes.py:296` compares stock before the
   insert finds the duplicate), or the reserve may run after the release it should
   precede. The order ends in `checkout_failed`, the reservation stays `reserved`
   and nothing releases it.
4. **`merge`**: two requests to merge one guest cart, or one repeated after a
   crash, both read it before either deletes it, and the customer's cart gets its
   lines twice (`cart-service/app/routes.py:216-217`); "merged once" is not ensured
   by anything.

What follows has no run of its own; the properties named are weaker than what is
documented, by exactly the case described.

5. `docs/architecture/cart-service.md:39` says that a cart contains one currency. `update_item`
   (`cart-service/app/routes.py:143`) stores the variant's currency of now without comparing
   it (`MixedOnlyByUpdate` excepts this). The catalogue lets a currency change when every
   variant of a product is archived, because the product then counts as one in ZAR
   (`product-service/app/models.py:93`). order-service adds up what such a cart holds.
6. Two administrators who move categories at the same time can close a cycle
   (`CycleOnlyByRace`); two who change variants can leave a product on sale in two
   currencies (`SoldInOneCurrency`); two who remove each other leave no administrator
   (`LastAdminKept`, which excepts a request let in before its sender lost the role); two who replace a user's roles leave none (`RolelessOnlyByRace`).
7. A user can be left with addresses and no default when two requests overlap
   (`DefaultLostOnlyByRace`), and by `is_default: false`.
8. A logout that reads its token before a refresh of it commits is answered 204 while the
   successor lives on. `SurvivesLogoutOnlyExchanged` says that this is the only way, and
   `LogoutEndsLogin` that a logout which did revoke is final.
9. A cart stays full when the process stops between the commit of its order and the clear
   (`BoughtLeavesCart`); what is added between snapshot and clear is lost (`NothingLost`).
   The storefront empties its bag also when the clear failed (`AloneShowsStored`).
10. The first requests of a guest, if they overlap, are given a cart each, and the answer
    that comes last decides which is kept (`CartKept`).

## What is only model-checked, and what is not modelled

Only checked by TLC: `ExpiryCompletes`, `SomeRequestEnds` and `WalkEnds`, which are liveness
under fairness, and, of course, the violations. Every other property of a passing run is
a theorem.

Not modelled: texts, prices, images and slugs of the catalogue, totals and shipping,
profiles, and what an order or a line is made of, because no step of a handler that is
modelled depends on them; access control, which guards requests but changes no state;
listings, searches and pages, which read; the other pages of the storefront, several tabs,
and a customer who is logged in there; the shells, common package, gateway, migrations and
seeds, which have no behaviour of this kind (but the bootstrap administrator is
`SeedAdmin`).

Abstractions a reader should know of: `GET` and the `EXPIRE` after it are one step,
which only moves the mark on other watchers; flags of product and category are read
without a lock inside the reserving transaction and are taken as read at its
commit; an `IntegrityError` and the read that follows it are one step, which has
the same outcomes as a release in between; `SetStock` is the effect of
`update_variant`, whose unlocked read of the variant matters only for columns a
reservation does not read. `create_address` counts the user's addresses
(`user-service/app/routes.py:208`) and loads none of them; `CreateAddress` notes the rows in
`seen` when they are counted, which no later step of a creation reads, so that
`DefaultLostOnlyByRace` can say what has changed since the count. A bag that the storefront
empties though it shows another cart than the one cleared, or one whose clear failed, is
shown as a cart with no change made (`Shown`).

## Plan

Done: every module of the table above with its runs; the proofs of every safety and action
property of the passing runs.

Next, in this order:

1. `CheckoutCart` as an abstraction of `OrderService`: the status of an order there is a
   function of the status here, so that the outline of checkout it repeats is a refinement
   step by step instead of a reading of the same lines.
2. Pure functions: shipping amount, cart totals, access to an order.
