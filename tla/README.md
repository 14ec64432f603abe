# A verification project for the marketplace service

The program is an HTTP service in Go over PostgreSQL: users order products that
sellers offer, with promo codes and a rate limit. These modules model the order
service working on the database while the catalogue changes under it, the
sessions of users, and the way of one request from the router to its answer,
check them with TLC on small instances, and prove part of them with TLAPS for
instances of every size.

## 1. Inventory

| component | state | operations | talks to |
|---|---|---|---|
| `service/orders.go` OrderService | none of its own; the local variables and the open transaction of every request | Create, Get, Update, Cancel | PostgreSQL, `time.Now` |
| `service/products.go` ProductService | none | Create, GetByID, Update, Delete (archives), List | PostgreSQL, one statement at a time |
| `service/promo.go` PromoService | none | Create | PostgreSQL |
| `service/auth.go` AuthService | none | Register, Login, RefreshTokens, issueTokens | tables users and refresh_tokens, JWT |
| `migrations/`, `db/queries/` | tables users, refresh_tokens, products, promo_codes, orders, order_items, user_operations with their CHECK, UNIQUE and foreign keys | the SQL statements of the services | - |
| `handler/` | none | roles, validation, mapping of errors to answers | the services |
| `middleware/` | the context of a request | token check, logging | handlers |
| `app/`, `cmd/`, `config/`, `db/db.go` | the pool, the HTTP server | routing, migrations, shutdown | everything |

All state is in the database. The Go code holds no mutex and shares no variable
between requests: every request runs in its own goroutine, and requests meet
only in the rows they read, lock and write. Order operations are transactions
of 8 to a few dozen statements at READ COMMITTED; catalogue operations are one
statement each. What is hard is therefore

* reads that decide and are not protected: the rate limit and the order row are
  read *before* BEGIN, the active order and (in Create) the promo code inside
  the transaction but without a lock;
* `DELETE ... WHERE order_id = $1`, which removes what is committed when it
  starts, not what is there at COMMIT;
* row locks taken in the order of the request body, or of random row ids;
* half-done work: stock is given back and taken again in one transaction that
  may be refused, cut off or aborted as a deadlock victim at any statement;
* AuthService uses no transaction: a refresh is a SELECT, a DELETE whose result
  is ignored, and an INSERT, and requests with the same token interleave;
* numbers cross four representations (JSON, int, int32, NUMERIC(12, 2)), and
  what the validator lets pass may be cut or refused by the next one;
* an error passes the service, a switch of its handler and one of three error
  handlers before it is an answer.

What makes each component correct:

* OrderService: units of stock are neither lost nor made; uses of a code equal
  the orders that carry it; a user has one active order; operations of a user
  are spaced; the amounts of an order are those of its rows; canceled orders
  stay as they are; orders are written for what is on sale, at its price; every
  request is answered.
* ProductService, PromoService: changes of a row do not slip between the read
  and the commit of an order.
* AuthService: every session goes back to the password of its user; the role in
  a token is the one in the table; a session ends by its lifetime or by an exchange
  that broke off, and by nothing else; one refresh token does not buy an open
  number of pairs.
* Handlers and middleware: success is only answered when the service succeeded;
  an error arrives with a status and a code that the API lists; a product that
  the validator accepts, and whose numbers fit its columns, meets the CHECKs and
  is stored with the stock that was sent. (The validator does not look at the
  status of an update: `gone` passes it and is refused by the enum.)
* Amounts: total and discount add up to the lines, to the cent; no percentage
  takes more than 70 %.

`PROJECT.json` lists the hazards at their lines, with the property that covers
each, or the reason why none does.

## 2. Modules

| module | models | extends |
|---|---|---|
| `Store` | tables, constraints, row locks, clock | - |
| `Catalog` | ProductService, PromoService: their writes | `Store` |
| `Orders` | OrderService | `Store` |
| `Marketplace` | the server: both over one database; the properties | `Catalog`, `Orders` |
| `Inventory` | what orders promise of stock, abstractly | - |
| `MarketplaceInv` | the five inductive invariants | `Marketplace` |
| `MarketplaceProof` | the theorems for any clients, and their proofs | `MarketplaceInv`, TLAPS |
| `SerialProof` | the theorems under `Serial = {"caller", "order"}` | `MarketplaceProof` |
| `SetLemmas` | lemmas on cardinalities and on sums over finite sets | TLAPS |
| `AccountingProof` | that stock and codes are accounted for, and the refinement of `Inventory`, under the same `Serial` | `SerialProof`, `SetLemmas` |
| `BoundsProof` | the three bounds on orders, for any clients | `MarketplaceProof`, `SetLemmas` |
| `Auth` | AuthService, and whom its tokens admit | - |
| `AuthProof` | the theorems and their proofs | `Auth`, `SetLemmas` |
| `Pricing` | int32, decimals, CHECKs, `calcDiscount` | - |
| `PricingProof` | lemmas on rounding, and that amounts add up | `Pricing`, TLAPS |
| `Api` | one request: middleware, decoding, roles, validation, answers | `Pricing` |
| `ApiProof` | the theorems and their proofs | `Api`, `PricingProof` |
| `MCMarketplace`, `MCAuth`, `MCApi` | the instances that TLC checks | - |

`Marketplace`, `Auth` and `Api` are three specifications of their own, because
what they describe meets nowhere: no order statement reads `users` or
`refresh_tokens`, and requests share nothing before they reach the database.
`Api` therefore follows one request and leaves the database open, while the
other two follow many requests and leave their outer layers out. In the
following, up to *The environment*, the first of them is described.

### How state corresponds

`product`, `promo`, `orders`, `items` and `ops` are the committed rows of the
tables; an operation in `ops` keeps its primary key (`key`, a number that no other
operation has), so two that a user records in one tick are two rows. `lock[k]`
is the request whose transaction holds the lock of a product
or a promo code. `now` is one clock for server and database. `supplied` is the
only history variable: the units sellers have put on sale, by product; PUT
replaces the stock of the row, so it counts the difference.

A *worker* is a request in flight. `pc[w]` names the statement it runs next,
`call[w]` is its validated body, `tx[w]` its local variables and what its open
transaction has written. Uncommitted writes are visible to nobody else, so they
stay in `tx[w]` (`delta` by product, `uses` for the promo code) and reach the
tables in the step that commits.

Some data are abstracted:

* A total and a discount are represented by the rows they were computed from
  (`billed`). `Gross(billed)` is total plus discount. The discount itself, its
  70 % cap and its rounding are in `Pricing`.
* `promo_codes.active` is left out: no statement sets it to FALSE.
* `ORDER BY id` sorts rows by a random key, so the order in which Update and
  Cancel restore stock is arbitrary; it is settled row by row, in `next`.
* `GetLastUserOperation` is asked whether *some* operation is younger than the
  limit, which is what the newest one decides.

### How actions correspond

One action per SQL statement that reads what another transaction may change, or
waits for it: `GetOrderByID`, `CheckRateLimit`, `GetActiveOrder` (with BEGIN),
`GetOrderItems`, `IncrementStock`, `GetProductForUpdate`, `DecrementStock`,
`GetPromoCodeByCode`, `IncrementPromoUses`, `GetPromoCodeForUpdate` (with the
refund that may follow under the same lock), `DecrementPromoUses`,
`DeleteOrderItems`, and `CommitCreate`, `CommitUpdate`, `CommitCancel`. `Refuse`
collects the early returns, with the guard of each in `Refused`. `Abort` is the
request cut off at any statement: the client gone, an error of a statement,
the process killed; `DeadlockAbort` is the victim of PostgreSQL's detector.

`CommitX` merges the statements after the last wait for a product or a promo
code: the write of the order row, the INSERTs, `CreateUserOperation`, COMMIT.
They may wait for locks on the order row and, in the DELETE, on its old rows,
but whoever holds those has nothing left to wait for except another one that is
about to commit, and none of these statements reads anything that decides. So
their order among transactions is the order of the commits, and no circle of
waits runs through them. The DELETE is a step of its own because what it sees
when it starts matters. A deadlock or an error in `GetPromoCodeByIDForUpdate`
and `DecrementPromoUses` is ignored by the Go code, but the transaction is
already dead in PostgreSQL: the next statement fails. This is `Abort`.

A catalogue operation is one statement, hence one action. The read of
ProductService before its UPDATE looks only at `seller_id`, which never
changes. The UPDATE needs the lock of the row to be free.

### The environment

`Requests` and `Edits` say which operations clients call, `LineLists` and the
other input sets which bodies they send. `Serial` says which of the clients'
requests never overlap: those of one `"caller"`, those about one `"order"`, or
(`{}`) none. It is an assumption on clients, not on the code. The properties of
`Marketplace` are grouped by what they need: the ones under `Serial =
{"caller", "order"}` fail for clients that send two requests at once, and the
runs that expect a violation show four such failures.

### The abstract specification

`Inventory` knows no requests, transactions or locks: an order is not made yet,
open or closed, and holds units; each step moves all the units of one order
between it and the shelf. `Marketplace` implements it (`UnitsMoveAtOnce`, which
is `Abstract!Spec`) with `shelf[p]` the committed stock of p, `stage[o]` read
off the row of o, `held[o]` the units in its committed rows, and `supplied` the
history variable. Every statement but the commits and the sellers' updates is a
stutter, so what holds for clients at `Inventory` holds between any two
statements of a request. It needs `Serial = {"caller", "order"}`; without it
the runs `double_cancel` and `stale_amounts` show what breaks.

### Auth

`users` and `refresh` are the tables; a token stands for its hash and an email,
which is UNIQUE, for the user. `pc`, `call` and `who` are a request in flight,
its body, and the user id and role it has read; `pairs` collects the pairs of
tokens that clients have received, each with the request that it answers. A
row that was deleted stays in `refresh` marked `spent`, where no query sees it
(`Stored` says whether the table has the row), so that the properties can speak
of it. `cut` is a history variable: the tokens that were presented to a refresh
which broke off behind its DELETE, because the INSERT failed or the answer was
lost.

| action | statement |
|---|---|
| `StartRegister`, `StartLogin`, `StartRefresh` | a request arrives; refresh presents a token that some client was given |
| `CreateUser` | INSERT INTO users; the CONFLICT is `Refuse` |
| `GetUserByEmail` | the SELECT, and bcrypt's comparison in `Known` |
| `GetRefreshToken` | the SELECT with `expires_at > NOW()`, joined with the user |
| `DeleteRefreshToken`, `DeleteFails` | the DELETE; `RefreshTokens` ignores its error |
| `CreateRefreshToken`, `AnswerLost` | issueTokens: the INSERT, and whether the client gets the answer |
| `Refuse`, `Fail` | the early returns; a statement that fails |
| `Tick` | time, for `exp` and `expires_at` |

`time.Now` is read when issueTokens begins (`who.at`), so the lifetimes of both
tokens start before the INSERT. The middleware has no step: `Admits` is what it
would answer to a pair now. Signatures, hashes and random tokens are taken to
be sound. DeleteUserRefreshTokens and GetUserByID are not called by anything.

### Api and Pricing

`stage` is how far the request has come, and there is one action per place that
may answer it: `Log`, `Authenticate` or `RejectToken`, `Decode` or
`RequestErrorHandler`, `requireRole` or `RefuseRole`, `Validate` or
`RefuseBody`, then the service (`Write` or `Fail`) and the answer (`Respond`,
`AnswerKnown`, `ResponseErrorHandler`, `mapOrderCreateErr`). `result` is what
the service returned: a code and the row it tried to write. `Fail` offers every
error that the service of the operation knows, and an internal one; `Write`
succeeds when the tables take the row. `Switch` is the table of codes that each
handler names. Bodies hold what the code looks at: the numbers, and for texts
whether they keep to their lengths. The text of answers is left out.

`Pricing` computes in cents, and in parts of 1/10000 cent where the Go code has
exact decimals. `Cents` rounds as NUMERIC(12, 2) does, half away from zero;
`Wrap` is the conversion of an int to int32, and int32 arithmetic.

## 3. Runs

`auth` checks `MCAuth`; `api` and `silent_failure` check `MCApi`. The other runs
check `MCMarketplace`, with two workers, an ordinary user and an administrator
(who may change and cancel any order, and owns the catalogue); in `open_stock` and
`liveness` the owner of the catalogue is a seller, who may not order.

| run | clients | checks |
|---|---|---|
| `serial` | one request at a time per caller and order; create, update, cancel; two products, two orders, lines of one and two units, stock 3, clock 0..2, limit 2 | `Conservation`, `OneActiveOrder`, `OrderSpacing`, `BilledIsItems`, `CanceledFrozen`, `UnitsMoveAtOnce` |
| `promo` | the same, with one code of one use, window 0..1, minimum 2, and lines worth 1 or 2 of two products; clock 1..2 | `PromoAccounting`, `CodeKept` |
| `open_caps` | any requests; create and cancel; from the empty database; three orders, one code | `TypeOK`, `OverdraftBound`, `ActiveBound` |
| `open_stock` | any requests of one user; two orders; create and update of two lines; the seller reprices, restocks and archives; clock 0..1, limit 2 | `StockCheckSuffices`, `RateBound`, `SoldAsListed` |
| `liveness` | any requests of one user, one at a time per order; two orders, all four operations; item lists that name two products in both orders; one code | `Answered` |
| `auth` | two emails, two passwords, four tokens, two requests at a time; lifetimes of one tick, clock 0..1, one failed DELETE per token | `TypeOK`, `ClaimsCurrent`, `Rooted`, `ReuseBound`, `CanGoOn` |
| `api` | every operation, header and form; bodies at the limits of their numbers | `TypeOK`, `AnswerFits`, `ValidationIsEnough`, `BilledRight`, no deadlock |
| `two_active` | any | `OneActiveOrder` is violated |
| `double_cancel` | any | `Conservation` is violated |
| `promo_cap` | one at a time per caller and order | `PromoCap` is violated |
| `stale_amounts` | any | `AmountsMatch` is violated |
| `silent_failure` | as `api` | `SuccessIsReal` is violated |

`open_caps` starts from the database that the migration leaves and has the
catalogue created by actions. The other runs start with the catalogue filled
(`StockedInit`, at time `opens`), which is a state that those actions reach.

Bounds. Two requests in flight are enough for every race of two, and the third
order id lets one be created after two have raced. Two products are what a
circle of locks needs. In `serial` two orders of two units are more than the
stock, any other two fit; in `open_stock` a seller may set the stock to zero
while an order is being made, and its two requests both pass the rate limit and
record two operations in one tick, which is the bound. A code with one use is
the smallest that can be overdrawn; its window closes at the second tick of `promo`, while an order
carries it, and its minimum of 2 lets an update fall below it. A rate limit of
2 on a clock 0..2 makes a second order of a user come too early at 1 and in
time at 2.

`MaxTime` caps the clock, `IdLeft` caps the orders: a request that creates an
order starts only while an id is left for it. Because of these two bounds an
instance may stop where the server would go on, so CHECK_DEADLOCK is FALSE; that the server
itself does not get stuck is what `Answered` says. Symmetry (`Workers`,
`OrderIds`) is used for safety only.

In `liveness` the second order id is what lets a create meet another live
request: the run reaches circles of two creates, of a create and an update or a
cancel, and of two updates, two cancels or one of each.

In `auth` two requests are a race for one token. `Reserved = 2` of the four
tokens are only drawn by requests to refresh, so that after one session has
begun its token can be presented again and again. One tick ends the lifetimes
that began before it, also between the SELECT and the INSERT of one request. A
request starts only while a token is left for it (`TokensLeft`), and the clock
stops at `MaxTime`, hence CHECK_DEADLOCK FALSE; requests of `Auth` never wait
for each other. A body may name no role or ADMIN, which the code takes as sent.

In `api` int32 is cut down to 8 bits and NUMERIC(12, 2) to less than 1500.00;
the operators do not depend on the width. Bodies have values on both sides of
every limit: of the validator, the CHECKs, the columns, and of what wraps (a
stock of 261 becomes 5, page 7 of 20 has offset 140 and wraps). Prices of 1, 3
and 4 cents and percentages with two places make both halves of an amount fall
on half a cent. Every request ends answered and then stutters (`Done`), so
deadlock is checked: no request is left without a step.

## 4. What the violations show

* `two_active`: `GetActiveOrderByUserID` (`orders.go:58`) takes no lock and no
  unique index backs it; the rate limit is read outside the transaction too.
  Two POSTs of one user that overlap leave two active orders, which
  `ORDER_HAS_ACTIVE` (README.md:181, openapi.yaml:916) is there to refuse.
* `double_cancel`: the status is read before BEGIN (`orders.go:357-371`) and the
  UPDATE does not look at it again. Two overlapping cancels both return the
  stock; README.md:333 and the test at `e2e_test.go:462` expect the second to
  be refused.
* `promo_cap`: `GetPromoCodeByCode` (`orders.go:114`) reads without a lock, so
  two orders can share the last use. It takes different products: orders for
  the same product are kept apart by the lock of its row. No discipline of
  single clients prevents it, and `OverdraftBound` says how far it can go.
* `stale_amounts`: the DELETE of one update does not see the rows of another
  that commits while it waits for stock. Three overlapping updates of one order
  leave rows that its amounts do not include.
* `silent_failure`: `mapOrderCreateErr` (`handler/orders.go:75`) returns nil for an
  error that it does not know, the generated server writes nothing, and the
  client reads 200, which `openapi.yaml:271` does not list; a total beyond
  NUMERIC(12, 2) is one way to get there. The other handlers answer 500 with
  the one format of errors (`openapi.yaml:907`).

Some answers differ from the API description without a run of their own. The
model makes them, and `AnswerFits`, which is about requests within the schemas
of the API, leaves them out:

* A promo code that exists already is answered 409 with the code
  `PROMO_CODE_INVALID` (`handler/promo.go:48`). `openapi.yaml:446` lists the
  status, but `README.md:185` and `openapi.yaml:920` say that this code is a 422.
* Bodies outside the schema that no validator sees (register, promo codes, the
  status of a product update) reach the database. What its enum, CHECKs or
  columns refuse is answered 500 `INTERNAL_ERROR`, where `openapi.yaml:48`,
  `228` and `440` promise 400 (`Taken`).
* `isUniqueViolation` (`auth.go:140`) searches the text of an error for `unique`. A
  role or a discount type of that name, which the enum refuses and quotes, is
  answered 409 as if the email or the code were taken (`RefusalCode`), where the
  same lines promise 400.
* `page * size` wraps in int32 (`products.go:147`): page 6 of size 100 starts at
  row 88 in `MCApi`, and is answered as page 6, where `openapi.yaml:132` counts
  pages from 0. A size above 100 is served, against the maximum of `openapi.yaml:141`.

What no text of the repository speaks of: one refresh token buys a pair for each
request that read it in time (`ReuseBound` says how many); a client whose answer
is lost after the DELETE has to log in again (`CanGoOn`); a stock beyond int32
is cut before it is stored.

## 5. Fairness

`Answered` assumes strong fairness of `Serve(w)`, the statements of a request,
and weak fairness of `DeadlockAbort`. The goroutine of a request runs until it
returns, and PostgreSQL keeps a queue of the transactions that wait for a row,
so one that gets its turn again and again is served: this is the strong
fairness. The deadlock detector runs in every waiting backend after
`deadlock_timeout`. Nothing is assumed of `Abort` (clients need not go away), of
the clock, or of requests to come. The run has requests that wait for each
other's rows in a circle, and its property fails when a transaction keeps its
locks after an early return.

## 6. Proofs

### Marketplace

`MarketplaceProof` proves, for any number of accounts, products, codes, orders
and requests in flight, any inputs and any `Serial`:

* `TypeCorrect`: `Spec => []TypeOK`. Its content is that `stock` and
  `current_uses` are natural numbers in every committed state.
* `StockCheckIsEnough`: `Spec => []StockCheckSuffices`.
* `OnSale`: `Spec => SoldAsListed`, an action property.

All three follow from `Invariant`, `Spec => []IInv`. None is inductive alone:
that a commit leaves the stock natural needs that the row has not changed since
it was compared, which needs that its lock is still held, which needs to know
where in its statements each request is. `IInv` (module `MarketplaceInv`) says
this for each worker:

* `IdleClean`: a request that is over holds nothing;
* `Reaches`, `Progress`, `Restores`: which operation can be at which statement,
  and what it knows by then;
* `Snapshot`, `StockAsRead`: rows read under a lock are as they were read, and
  distinct lines find their stock;
* `StockLocked`, `PromoLocked`: uncommitted changes are made under the lock of
  the row and leave it valid;

and `References` says that rows name products and codes that exist.

The proof of `IInv /\ [Next]_vars => IInv'` goes by what a step does to the
requests that do not take it. `Frame(v)` lists it: v's own state, its locks and
the rows under them stay, and no row disappears. `FrameInv` shows that this is
enough for v. `LocalStep`, `LockStep`, `ReturnStep`, `CommitStep` and
`CatalogStep` then reduce each kind of action to what it does for the request
that takes it, and there is one lemma per action.

`SerialProof` proves, for any constants with `Serial = {"caller", "order"}`
(hypothesis `OneAtATime` of each theorem): `AtMostOneActive` (`OneActiveOrder`),
`OperationsSpaced` (`OrderSpacing`), `AmountsOfRows` (`BilledIsItems`) and
`NeverAfterCancel` (`CanceledFrozen`, an action property). They follow from
`SerialInvariant`, `Spec => []SerialInv`. The service checks the rate limit, the
active order and the status before or without a lock, and writes many
statements later. `Decided(w)` says what w has concluded and that it is still
so: no operation of the caller is too young, no other order is active, the
order is not canceled, the rows it read are the ones there are. Nothing in the
tables keeps it so; what does is that the commits that would undo it belong to
requests with the same caller or the same order, and `Disjoint` says that none
is in flight. `Undisturbed(v)` is what v needs of the tables, and `DecidedStays`
that it suffices; `QuietStep`, `GoOnStep`, `EndStep` and `CommitStepSerial`
reduce a step to the request that takes it. The run `two_active` shows the
first conclusion failing without `OneAtATime`.

`AccountingProof` proves, under the same hypothesis, `StockConserved`
(`Conservation`), `UsesCounted` (`PromoAccounting`) and `ImplementsInventory`
(`UnitsMoveAtOnce`: the marketplace implements `Inventory`). `Conservation` says
something of committed rows only, and so is not inductive: what a commit will do
to the stock was decided statements ago. `AccountInv` adds, for each request at
each statement, what its open transaction owes:

* `Restoring`: which rows of the order have been given back, each once, and how
  many lines have been taken;
* `StockOwed`: `delta` is exactly the units of the rows given back less those of
  the lines taken;
* `PromoOwed`: the code it read is still the code of the order, and `uses` is +1,
  -1 or 0 as the row it is about to write says;
* `FiniteTables`, without which a sum says nothing, and `Unlisted`: nothing of a
  product is supplied before it exists. The refinement needs the latter, since
  `Inventory` has no units of a product that is not on the shelf yet.

That `StockOwed` survives the steps of others, which may commit to the same
rows, is again `Disjoint`; `IInv` has the locks, and `SerialInv` that the rows
given back are those the commit replaces. At a commit the sums over rows and
over orders change by exactly `delta` (`HeldMore`, `HeldOther`, `HeldLess` and
`CommitConserves`). For the refinement, every statement but a commit and a
seller's step stutters (`InitMaps`, `NextMaps`), and the three commits are
`Allocate`, `Exchange` and `Release` of the lines that the transaction has
collected.

`BoundsProof` makes no assumption on clients: `OverdraftBounded`
(`OverdraftBound`), `ActiveOrdersBounded` (`ActiveBound`) and `OperationsBounded`
(`RateBound`). Requests that have
passed the check of a code or of the active order act on what may be outdated;
`CountInv` counts them with what is committed. `UsesBelow` says that the uses of a
code and the requests about to add one (`Claimants`) exceed its maximum by less
than the number of workers; `OrdersBelow` that the active orders of a user and
the requests about to make one (`Creators`) are no more than the workers. A
request that enters has just seen room, so the others that are inside are all
there can be above it; a commit moves one from the requests to the tables.
`CreatesCount` says that only Create counts a use. `RateInv` does the same with
the rate limit: the operations of a user and a kind whose times lie in a span of
`RateLimit` ticks (`Recorded`), and the requests that may still record one in it
(`Recorders`), are no more than the workers. A request enters by finding nothing
younger than the limit, so at that moment the span is empty.

`SetLemmas` has what these proofs and those of `Auth` need of finite sets: how
many elements there are when one joins or leaves, and that a sum
(`SumFunctionOnSet` of the community modules) adds up its parts in any order. The
definition of a sum is recursive, over a set whose next element CHOOSE picks.
That there is such a function, and that it does not depend on the picks, is
proved by induction with a *set* of numbers in place of a predicate
(`EveryNat`, from the well-foundedness of <), which needs no theorem with an
operator parameter. So `Held` and `UnitsOf` are written as sums over functions.

### Auth

`AuthProof` proves `AuthTypeCorrect` (`TypeOK`), `Admitted` (`ClaimsCurrent`),
`SessionsRooted` (`Rooted`) and `SessionsEnd` (`CanGoOn`), for any number of
emails, tokens and requests, any lifetimes, and any statements that fail. They
follow from `AuthInvariant`, `Spec => []AuthInv`. `Rooted` alone is not
inductive: that the pair an INSERT completes is rooted needs to know what the
request has read, two statements ago, of a row that is deleted since.
`WorkerInv(w)` says what w knows at each statement, `PairRight(q)` what holds of
a pair for ever, `References` that rows of refresh_tokens name users that
exist. What makes them stable is `Grow`: no step changes a user, nor the owner
and the expiry of a token, nor takes a pair back. `FrameWorker` and `FramePair`
show that `Grow` is all that requests and pairs need which a step does not
touch; `StepInv` reduces a step to the request that takes it and to the row and
the pair that it adds.

`ReuseIsBounded` (`ReuseBound`) is proved from `ReuseInvariant`. `ReuseBound` counts
pairs that clients have; `ReuseInv` keeps the whole bill of a token. While its
row is there, the pairs bought with it (`Bought`) and those about to be issued
(`Issuing`) are no more than the DELETEs that failed. The first DELETE that
succeeds finds at most one request per worker before its own DELETE (`Deleting`),
and from then on these three together are no more than the failures and the
number of workers, because nobody reads the row any more.

### Pricing and Api

`PricingProof` proves where `Cents` rounds to (`CentsBounds`), how large
`calcDiscount` is (`DiscountBounds`), and from both `AmountsAddUp`, for all
prices and codes. `ApiProof` carries this over to answers: `Billed`
(`BilledRight`) and `Sized` (`ValidationIsEnough`), for all bodies, prices, codes and limits of the columns. The invariant `ApiInv`
keeps the row in `result` tied to the request that `Write` served, and
says that it was validated before. `ApiTypeCorrect` (`TypeOK`) follows from `Shape`,
and from `StatusOfCode` and `SwitchFits`, which go through the tables of codes
once. `ErrorsMapped` (`AnswerFits`) follows from `Mapped`: an error that waits for
its answer is an internal one or one that the switch of its handler names
(`Mappable`, `FailuresNamed`). `SwitchFits` goes through the switches and finds
every pair of them in the list of codes and in the statuses of the operation,
both taken from the API description and not from the code;
`ConformingIsValid` says that the validators refuse nothing that the schemas
allow.

### Assumptions, and what is left to TLC

`StoreAssumption`, `CatalogAssumption` and `OrdersAssumption` type the
constants, keep `None` apart from real values, and say that item lists are not
empty and hold positive quantities (`Handler.CreateOrder`, `UpdateOrder`).
`AuthAssumption` types the bounds and keeps `None` apart from rows and from what
a body names. `PricingAssumption` says that the two limits are positive,
`ApiAssumption` that prices and promo codes in the tables meet their CHECKs and
that numbers in bodies are integers. TLC evaluates them in every run.

`Workers` is finite (`StoreAssumption`, `AuthAssumption`): the server has a finite
number of goroutines at any time, and the four bounds count them.

What is proved covers every invariant and action property of the passing runs,
and the refinement, but for two. Only model-checked: `Answered`, because liveness
and ENABLED are outside this prover's reach, and `CodeKept`, an action property of
updates, which has no proof yet. Fairness plays no part in any theorem.
`MCMarketplace` extends `MarketplaceInv`, so that TLC can try an inductive
invariant before it is proved: `AccountInv` holds on the instances of `serial` and
`promo`, `CountInv` on those of `open_caps` and `open_stock`. `RateInv` quantifies over
all spans of time and is only proved.

## 7. Not modelled, and the plan

Not modelled:

* The connection pool: one call to pgxpool. A request holds at most one
  connection, so requests cannot wait for connections in a circle.
* Configuration, migrations, start and shutdown: read once, or behaviour of
  golang-migrate and net/http. A request that is cut off by a shutdown, or a
  crash, is `Abort` in `Orders` and `Fail` in `Auth`.
* The log line, which is output only. That the logger cuts bodies is in `Api`.
* The router's own refusals (404, 405, 415), `Recoverer`, CORS.
* Which rows a page of products holds, and the fields of answers. GET of an
  order reads the order and its rows in two statements; both are steps of
  `Orders`, but their answer is not kept.
* Stock near 2^31, where giving units back overflows INTEGER.
* Generated code (`internal/api`, `internal/db/sqlc`), which is not in the
  repository; it is modelled from its callers and the SQL.

Order of work; what is left is proofs:

1. *done*: `Store`, `Catalog`, `Orders`, `Marketplace`, and their invariant.
2. *done*: `Inventory` and the refinement, checked; `Pricing`; `Auth`; `Api`;
   the proofs of sections Auth, Pricing and Api.
3. *done*: `OneActiveOrder`, `OrderSpacing`, `BilledIsItems` and `CanceledFrozen`
   under `Serial` (`SerialProof`).
4. *done*: `Conservation` and `PromoAccounting` (`AccountingProof`), with lemmas on
   sums (`SetLemmas`).
5. *done*: each step of `Marketplace` is a step of `Inventory` or a stutter
   (`ImplementsInventory`).
6. *done*: the bounds, by counting requests with what they have committed
   (`BoundsProof`, `AuthProof`).
7. *done*: the types and answers of `Api`.
8. *done*: `RateBound`, with operations that have keys; `CanGoOn`; `AnswerFits`
   against the lists of the API description.
9. A proof of `CodeKept`: that the row of the code is as the update read it, under
   its lock, and that `Gross` of new rows does not depend on their batch, which
   needs lemmas on `MapThenSumSet`.
10. `Inventory` for itself: that its invariants hold of every system that implements
   it, so that they follow for `Marketplace` from the refinement.
