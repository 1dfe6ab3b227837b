# Verification of the microservice shop

TLA+ models of the shop in this repository (a GraphQL gateway in front of the
order, catalog, account, auth, mail and logger services), the TLC runs that check
them on small instances, and the theorems TLAPS proves about them for every
instance. Paths below are relative to the repository; the `map` of
`PROJECT.json` gives the lines behind every definition.

Contents: 1 the system, 2 the plan, 3 the modules, 4 the runs, 5 fairness,
6 the proofs, 7 what the runs found in the code, 8 what is not modelled.

## 1. The system

Every service is a container of its own with a gRPC server (one goroutine per
call) and, but for the gateway and the mail service, a database of its own;
`src/docker-compose.yml` restarts a service that dies. Nothing is transactional
across services, no call is retried, no service compensates what another one
did. Deadlines are set by the gateway only and travel with the call.

| component | state | operations | talks to |
|---|---|---|---|
| **order** (`src/order`) | tables `orders`, `order_products`; one goroutine per simulated order status | `PostOrder`, `GetOrdersForAccount` | account and catalog by gRPC, PostgreSQL, NATS |
| **catalog** (`src/catalog`) | index `catalog` of Elasticsearch: stored documents and the searchable copy; one goroutine per embedding | create, delete (soft), restock, deduct (`UpdateStockAndSold`), reads by id, list, search, suggest, AI suggest | Elasticsearch, embedding service |
| **account** (`src/account`) | table `accounts` with `token_version`, `is_active` | create, look up, increment version, password, (de)activate, delete | PostgreSQL, NATS |
| **auth** (`src/auth`) | table `refresh_tokens`; in memory, the map `loggedInUsers` under a mutex | signup, login, refresh, verify, logout (one or all), reset password, (de)activate, delete | account by gRPC, PostgreSQL |
| **mail** (`src/mail`) | none; a NATS subscription | render and send a job of `emails.send` | NATS, SendGrid |
| **gateway** (`src/gateway`) | none; per subscription a channel of ten updates and a cleanup goroutine | resolvers, validation, authentication middleware, `orderStatusUpdated` | all services, NATS |
| **logger**, **embed** | none that others read | format log lines; compute a vector | |

What is hard in each, and what makes it correct:

* **Placing an order** is a saga without compensation: account check, lookup,
  one deduction per product, one transaction, one email, one goroutine. Other
  orders and administrators run between the steps, the stock compared is the
  stock of the lookup, each call may fail or outlive its caller, the gateway's
  30 s may pass at any point, the process may die. Correct when an order that
  exists holds exactly what was deducted for it, when nothing is announced that
  does not exist, when a success reported is a success, and when every caller is
  answered.
* **The catalog** checks existence and writes in two calls, writes scripts on
  documents others script too, keeps a searchable copy that lags behind, adds
  the embedding from a goroutine seconds later, and passes numbers through
  uint32, int32 and back. Correct when an acknowledged delete or restock is what
  every read sees, when `sold` counts what was deducted, when no unit of a
  deleted product is sold, when counters stay in range.
* **Sessions** (auth and account): the token version lives in one database, the
  refresh tokens in another, the logged-in map in memory. Logout, refresh, login,
  reset and delete overlap. Correct when after a logout no older token verifies,
  neither directly nor through a refresh that overlapped, and when nobody loses a
  session for another reason.
* **Order status**: a goroutine publishes four updates fifteen seconds apart; a
  NATS callback per subscriber pushes them into a channel of ten, dropping what
  finds no room; a cleanup goroutine closes that channel when the client leaves.
  Correct when a client sees the statuses of an order in order and none twice,
  when what it misses is only what the network lost or a full channel refused,
  when a slow client holds up nobody, and when one client's leaving ends one stream.
* **Mail**: core NATS delivers at most once and only to who is subscribed; a job is
  taken one at a time, and its outcome is whatever SendGrid said. Correct when nobody
  gets an email twice, when a failing job does not hold up the next, and when a
  client is told Ok only of an email SendGrid has seen.
* **Order history**: rows of a join are grouped into orders. It never gets there
  (section 7).

`PROJECT.json` lists the hazards line by line, each with the properties that
cover it, or the reason why none does. Mistakes that a single call shows, such as
those of the queries, are not hazards; section 7 names the ones met.

## 2. The plan

Ordered by how much of the system hangs on it.

1. *(done)* `ProductStore`, the documents; `OrderSaga`, order placement with its
   failures; `StockLedger`, what it promises, with the refinement; proofs of both.
2. *(done)* `Catalog`: the administrator's calls against the store, the searches
   and the semantic search, the embedding goroutine, the int32 boundary; proofs.
3. *(done)* `Sessions`: accounts, refresh tokens, token versions, the in-memory
   map; the operations of auth step by step; proofs.
4. *(done)* `LossyFeed`, what core NATS between two services promises, and its two
   implementations: `OrderStatus` (publisher, delivery, callback, channel, cleanup)
   and `MailJobs` (publishers, subscriber, gRPC handler, SendGrid); proofs of all three.
5. *(done)* Proofs of the remaining invariants, `RestockedIsListed` and
   `OmittedLinesWereShort`.
6. *(done)* An e-mail registered again after its account was deleted, in `Sessions`.
7. *(done)* What is counted: the sums behind `SoldIsDeducted` and `OrdersAreCounted`,
   the lemmas about sums they need, and their proofs; what a global logout does
   guarantee; that a revoked token stays revoked; that every handler ends.
8. *(open)* The pages of accounts, products and current users, as functions.

`OrderSaga` and `Catalog` share `ProductStore`; `Sessions` could give `OrderSaga`
its account check, which today may answer or fail at any time.

## 3. The modules

**`ProductStore`** – the Elasticsearch documents as `src/catalog/repository.go`
uses them. A document is `[found, stock, sold, out_of_stock]`; name, price and
description are read by no operation. `IndexDocument`, `DeductStock`,
`SoftDelete` and `Restock` are the four writes, with the scripts' conditions and
the wrap-around of a Java int; `Readable` is what a read by id accepts
(decodable into uint32 fields, not flagged) and `MultiGet` the lookup of
`ListProductsWithIDs`. A script takes effect whole or not at all, which is what
Elasticsearch gives a single-document update. The script of the deduction also
writes a field `outOfStock` that nothing reads: it is left out.

**`OrderSaga`** – `createOrder` and `PostOrder`, a request per call.
`pc[r]` says before which remote call the handler stands; `cart`, `snap`, `idx`
and `lines` are its locals `req.Products`, `products`, the loop index and
`orderedProduct`. Actions follow the code's STEP comments: `AccountFound`,
`RefuseEmptyCart`, `Lookup`, `SkipProduct`/`DeductLine` (one round of the merge
loop, the first fitting line wins because of the `break`, a zero quantity is
deducted but not appended), `CreateOrder` (the transaction, whose primary key
refuses a product twice), `PublishEmail` (email, status goroutine and return:
nothing between them can fail). Failures: `CallFails` at every remote call,
leaving in `late[r]` the effect the abandoned call may still have, which
`LateDeduction` and `LateCommit` carry out; `Timeout` (the client's deadline
passes, the handler goes on until a call notices); `Crash` (all handlers and
status goroutines gone). `Admin` interleaves the administrator's scripts.
`taken` is a history variable: units deducted per request and product; `UnitsTaken`
and `UnitsOrdered` are the sums over requests and over rows that the two properties
about counting compare, and `StepsLeft` bounds what a handler still has to do.

**`StockLedger`** – the abstract specification: reserve free units, place once
and all of them, never give back. `OrderSaga` implements it under the mapping
`free = doc[p].stock`, `held = taken`, `units = rows` (`RefinesLedger`).

**`Catalog`** – the catalog's own operations, call by call: `Submit` (gateway
validation and the fresh id), `CheckExists`, `Write`, `Refreshed`,
`CallFails`/`LateWrite`/`Crash`, `Respond`; `Embed`/`EmbedFails` for the
goroutine; `Deduct` for the order service, whose quantity fitted at some earlier
time and is therefore unconstrained here; `Refresh`, Elasticsearch's own refresh.
`view` is the searchable copy; `Listed` and `Suggested` are what the searches
return of it. A create does not wait for a refresh, a delete or restock does.
`vectors` and `viewVectors` are the products with an embedding in the document and
in the searchable copy: the script of AISuggest, `AISuggested`, fails as a whole
on an indexed product without one, and filters nothing. `missed` is the history of
products left without an embedding by a failed call, a crash or a late create.

**`Sessions`** – auth over account. `account` is the table `accounts` (version
and active flag), keyed by account id; `email` gives each id its e-mail address and
never changes, so that a signup takes an unused id of the e-mail it is for, as
ksuid does, and is refused while a `Holders` of that e-mail exists (UNIQUE). A
deleted id does not come back, its e-mail may, under another id; an instance has as
many ids for an e-mail as it may be registered times. `rows` is the table
`refresh_tokens`, `logged` the map. A call of auth has its operation `op`, its
user `target`, the step before which it stands `pc` and, once it has read a
version, its `token`. `First` and `After` are the order of the steps in
`auth/service.go`: login, for one, is `GetEmailForAuth`, sign, `StoreRefreshToken`,
track (the map's entry). `Effect` is what a step does to the databases; `Write`
performs it, and after `CallFails` or `Crash` a `LateEffect` may. Access and
refresh token of a call carry the same version and are one record; its `root` is the call that read that version from the
account, so that a session is a root with the tokens refreshed from it, and
`expires` orders rows as `expires_at` does. A token has the id and the
version of the account it was made for; it `Verifies` when the account that now has
its e-mail has its version, whatever the id; expiry is left out, so that fewer tokens verify in the
system than here. A client has a token only when its call was answered in time
(`Respond`); the one made by a password reset is dropped by the gateway and only
reachable through a refresh. The global logout ranges over the map without the
lock: `StartRange`, then `NextUser` for each user the loop still produces (Go
leaves open whether it produces entries added meanwhile, and `Track` chooses),
then `ClearMap`. A write and an iteration of the map at the same time make the
Go runtime stop the process: `Crash`. The gateway's validation requires a user id in a logout, so
that the global logout comes from other clients of auth's gRPC port.
`before`, `told`, `listed`, `over` and `switched` are history variables.

**`LossyFeed`** – the abstract specification of what core NATS between two
services is used for: messages are announced, each reader is handed some of them,
in that order and none twice. It knows no connections, queues or callbacks.

**`OrderStatus`** – order tracking. `simulating` and `published` are the goroutine of
`simulateOrderStatus` (`src/order/server.go`), `log` the updates published on
`order.status.changed`. A subscription `s` is an invocation of `OrderStatusChanged`
(`src/gateway/graphql/subscription_resolver.go`): `wants[s]` is its optional order
id, `queue[s]` what NATS has under way or pending for it, `callback[s]` the update
its callback holds between the filter and the end of the select, `channel[s]` its
`ch`, `got[s]` what the websocket took. `Dispatch` hands over the next message and
applies `shouldSend`; `Send`, `Abandon`, `Drop` and `SendOnClosed` are the outcomes
of the select, each with the condition under which Go may choose it. `Leave`
cancels `ctx`; then the cleanup goroutine runs `Unsubscribe`, which does not wait for
a running callback, and `CloseChannel`. A send on the closed channel panics in a
goroutine of the NATS client, so that the process and all its streams end;
`GatewayRestart` follows. `Spread` lets every publication reach any part of the
subscribers; `OrderServiceCrash` forgets the goroutines, which are in no table.
`lost`, `dropped` and `since` are history variables. It implements `LossyFeed` under
`feed = got`.

**`MailJobs`** – emails. `Publish` and `PublishFails` are the ends of `PostAccount` and
`PostOrder`; `TakeJob` and `CallbackReturns` the subscriber's callback
(`src/mail/service.go`), one at a time; `RenderTemplates` and `Send` the body of
`SendEmail`, shared with the gRPC handler (`CallSendEmail`, `Respond`), whose client
may give up (`GiveUp`) without the handler noticing. `Send` posts once and has four
outcomes: accepted, refused, accepted with the answer lost, not reached; `Result`
is what SendEmail makes of them, with its nil for a refusal. `Crash` drops what is
pending and may have a post accepted. `answer` is what publishers and clients are
told, `posted` the order of the posts of jobs. It implements `LossyFeed` with
SendGrid as the only reader.

**`MCOrderSaga`**, **`MCCatalog`**, **`MCSessions`**, **`MCOrderStatus`**,
**`MCMailJobs`** give the constants small values; the properties
are in the modules they are about. Operators named after a mistake (`WriteUnrefreshed`,
`CanDeductUnchecked`, ...) precede the operator they would replace; they are the
mutants that show each property can fail.

**`ProductStoreProofs`**, **`OrderSagaProofs`**, **`CatalogProofs`**,
**`SessionsProofs`**, **`OrderStatusProofs`**, **`MailJobsProofs`** hold the proofs
about the module they are named after, **`PromiseProofs`** those about the two
abstract specifications `StockLedger` and `LossyFeed`, and **`Sums`** facts about the
community modules' sum over a finite set (section 6).

## 4. The runs

Deadlock checking is off everywhere: when all calls are answered and the bounds
used up the system has nothing left to do.

| run | instance | what it shows |
|---|---|---|
| `order_contention` | 2 requests, 2 products, carts `<A,B>` and `<B,2A>`, 3 administrator operations, stock 1..2 | orders equal deductions, announcements are true, success is complete, omitted lines were short, `sold` is the sum of deductions and what orders and orderless requests took, and the refinement of the ledger |
| `order_edges` | 2 requests, empty cart, a product twice, a quantity that became 0; fair scheduling | exact orders at the edges, type correctness, that no handler goes on for ever, and that every call is answered |
| `catalog_admin` | 3 calls, 1 product, int32 of 3 bits, amounts 2, 4, 8, quantities 0..2, 5 units deducted | an acknowledged delete hides the product from searches and reads, a restock shows it in the listings; `sold` wraps and never resets; no sale while deleted; only a failure leaves the semantic search without an embedding |
| `session_calls` | 2 account ids, of two e-mails or of one, 3 calls of any operation, 2 faults; 6.3 million states, about two minutes | type correctness, a revocation or deletion that answered ends the sessions before it, a global logout those of the users on the map, no token verifies again, a deactivation keeps logins out, nobody is logged out unasked |
| `session_reset` | 1 user, 4 calls (login, refresh, reset, deactivation), no fault | counterexample: a reset overtakes a deactivation (section 7) |
| `session_global` | 1 user, 2 calls (signup, global logout), 1 fault | counterexample: the global logout misses a session (section 7) |
| `status_tracking` | 2 orders of 2 statuses, 1 subscription to one or all, channel of 2, any losses and restarts | what a client sees is in order, what it misses is accounted for, it holds nobody up and is cleaned up; the refinement of the feed |
| `status_close` | 1 order of 1 status, 2 subscriptions | counterexample: one client's leaving ends another's stream (section 7) |
| `mail_jobs` | 3 jobs, 1 direct call, 1 crash | nobody gets an email twice, Ok means SendGrid answered, no job holds up the next; the refinement of the feed |
| `order_leak`, `order_empty`, `catalog_flag` | 1 request, 2 calls | counterexamples to three statements the code makes about itself (section 7) |

Bounds and why they are enough:

* *Requests, products.* The steps of one request touch one product at a time and
  meet other requests only in the documents; two requests with carts in opposite
  orders over two products give every relative order of lookups, deductions and
  commits. Products are independent in `Catalog` (the index has one shard, so a
  refresh copies all): one product, three calls, so that a delete, a restock and
  a late write of a third call can overlap.
* *`MaxAdmin` = 3*: create, then delete or restock twice between the calls.
* *Carts*: duplicates, opposite orders, zero and emptiness are the cases the merge
  loop and the primary key tell apart.
* *`WordHalf`* stands for 2^31. It is 64 where no counter comes near it and 4 in
  `catalog_admin`, where amounts 4 and 8 become -4 and 0 as an int32 and five
  units deducted take `sold` past 3. `MaxDeducted` bounds the history counter.
* *Calls of auth.* Three suffice for every property checked in `session_calls`:
  one that opens a session, one that refreshes it, one that revokes; two ids,
  so that an operation could hit the wrong one and the global logout has a loop.
  Their e-mails are chosen in `Init`: with one for both, a login, a deletion and a
  signup make the second id the first one's successor.
  The reset that overtakes a deactivation takes a fourth. `MaxFaults` = 2 allows
  a failed call with its late effect and a restart in one behaviour.
* *Statuses.* An order has four statuses and a channel ten places; the run keeps
  what matters of that, a channel that holds all updates of one order and not those
  of all orders, with two and two. Subscriptions meet only when the gateway goes
  down, which `status_close` shows with two; one is enough for the other properties,
  and the theorems hold for any number.
* *Jobs.* Three, so that one can be lost, one being posted and one pending; a crash
  between them; the direct call takes the handler's way through `SendEmail`.
* *Symmetry* over calls is used in `catalog_admin` and the session runs, in the
  latter over e-mails too, without liveness and with formulas that treat all calls
  and e-mails alike.
* A created product's id is fresh (a ksuid): each product is created once.

## 5. Fairness

Three runs check liveness.

* `order_edges`: `FairSpec` of `OrderSaga` has weak fairness on each request's
  handler steps (a runnable goroutine runs; a remote call ends at the latest with
  the gateway's 30 s deadline, which the model shows as `CallFails`) and on
  delivering the result. Clients, administrators, late effects and crashes owe
  nothing: `Timeout` is allowed but never relied on.
* `status_tracking`: weak fairness on each subscription's `Dispatch` (the NATS
  client's goroutine), `Select` (the callback, which never blocks: `default`) and
  cleanup goroutine. A client need not read or leave, the order goroutine need not
  go on, the gateway need not be restarted.
* `mail_jobs`: weak fairness on `TakeJob`, `CallbackReturns` and `SendEmail`.
  SendGrid answers or the connection to it breaks; the code sets no timeout of its
  own, so that a connection that does neither would stop the subscriber.

## 6. The proofs

All theorems hold for every value of the constants under the named assumptions:
`WordHalf` positive; finitely many requests (a sum over them is meant to be a
number; their number is arbitrary), carts are sequences of lines with natural quantities; stock
levels are integers; in `Catalog` at least one product, amounts positive (what
the gateway validates), quantities natural, `NoCall` not a call; in `Sessions` at least one
id and one e-mail, finitely many calls, `NoCall` not a
call, any bound on faults; in `OrderStatus` at least one status per order and a
channel with room for all statuses of one order (4 and 10 in the code); in
`MailJobs` jobs and direct calls are different emails.

**`ProductStoreProofs`** – what the four writes leave in each field, that they
keep documents documents, and three facts about `Int32`: its range, that it
fixes its range, and `Int32(Int32(a) + q) = Int32(a + q)` (wrapping early or late
is the same), which is proved from division with remainder.

**`Sums`** – `SumFunctionOnSet` of the community modules is a fold, that is, a
recursive function on subsets. Its defining equation (`SumStep`) needs such a function
to exist and to be unique (`SummingExists`, `SummingUnique`); from it come the sum
without an element, of a sum with one value changed, of a set in two parts, of a
renamed index set. All are inductions over subsets. The library's
induction theorems take an operator as parameter, so that no prover here can use
them; `SubsetInduction` says the same of a *set* `Good` of subsets, by a smallest
counterexample in the well-founded order of strict inclusion.

**`OrderSagaProofs`** – `TypeCorrect`; `OrdersAreDeducted`;
`AnnouncementsAreTrue`; `OkAnswersAreComplete`; `OmissionsAreShortages`;
`SoldIsSumOfDeductions`; `BooksBalance`; `LookupHasOneAnswer`; `HandlersEnd`;
`SagaRefinesLedger`. The property
`OrderIsDeducted` is not inductive: it speaks of committed orders, and a commit
stores `lines`, about which it says nothing. The invariant `SagaInv` adds
`MergeInv` (while a request may still be stored, every unit taken is on a line,
and if no product is on two lines each line's quantity is what was taken),
`ControlInv` (a placed request can neither be placed again nor have a late
effect pending; where the handler stands tells what it has stored and
announced) and `RowsInv` (rows belong to stored orders). The proof has one step
per action; control steps go through `QuietStep`, deductions through
`DeductionKeepsOrders`, commits through `InsertKeepsOrders`. `OmissionInv`, on top of it, follows
the merge loop through the snapshot: what its index has passed was put on a line or
did not fit, and the lines of a stored order are its rows.
`SoldIsDeducted` is not inductive either: an administrator's create sets `sold` to
zero, so that `SoldInv` adds that nothing was taken of a product not yet created; a
deduction moves the counter and the sum alike (`DeductionCounts`), wrapped early or
late. `BooksBalance` splits the requests into those with an order and those without
(`SumPartition`) and renames the sum over rows into one over requests, which
`OrderIsDeducted` makes possible: a request has one row for each product it took
(`OrderedWasTaken`). `LookupHasOneAnswer` is about the operator `MultiGet`, a set of
answers described by the order of their positions: a finite set of numbers has
exactly one enumeration in order. `HandlersEnd` is the part of
the liveness argument that is not temporal: each step of a handler lowers
`StepsLeft`, which no other step raises; `LoopInv` keeps the index within the loop
and `AnswerIsNotLonger` says that the loop is no longer than the cart. The refinement maps
`DeductLine` and `LateDeduction` to `Reserve`, `CreateOrder` and `LateCommit` to
`Place`, `Admin` to `Supply`, all others to stuttering.

**`CatalogProofs`** – `CatalogTypeCorrect` (counters never leave the int32
range), `SoldCountsDeductions`, `DeletedProductsAreHidden`,
`DeletedProductsAreNotSold`, `RestockedProductsAreListed`, `SemanticSearchIsKept`.
The invariant `CatalogInv` adds `CounterInv` (a
product not yet created has no deductions, so creating it with `sold = 0` agrees
with the history), `FlaggedInv` (a flagged document has stock zero, so only zero
units fit) and `WriterInv` (the last writer of a product is past its write; a
late writer has failed; an acknowledged call is done; and what a delete wrote is
in the document, and in the search copy once the call is done). The effects of
`Write` and `LateWrite` share `EffectKeepsDocs` and `EffectKeepsWriters`. `RestockInv` says that
the document of a product last written by a restock can be listed, and, once the call
is done, the search copy; `VectorInv` that a product
in the index has its vector, waits for it, or was missed.

**`SessionsProofs`** – `SessionsTypeCorrect`, `LogoutIsFinal`,
`DeactivationHolds`, `TokensAreKept`, `GlobalLogoutHolds`, `TokensStayRevoked`, all
from `SessionsInvariant`. The
properties speak of answered calls and tokens clients have; the invariant speaks
of every call. `ControlInv` ties where a call stands to whether it has read a
version; `TokenInv` says a token has its root's user and version, and that its
account has reached that version; `RowInv` that stored rows are such tokens,
which is what a refresh relies on; `HistoryInv` that the histories name sessions
and ended calls. The argument is that versions only grow and a deleted id
does not return (`NextGrows`), that a token keeps its session
(`NextSessions`: a step either keeps every session, begins one with the current
version or continues one), hence that an outdated session stays outdated
(`OutdatedStays`). Outdated is said of a token's own account (`Valid`), while
`Verifies` asks for whichever account has the e-mail: `EmailsUnique` bridges the two,
an outdated token verifying only when its account is gone and a successor holds the
e-mail (`OutdatedFails`), which is the exception the properties name. `DeletedInv`
says that past its first step a deletion has deleted. `RevokedInv` follows from the increment (`IncrementOutdates`):
a refresh between the deletion of the rows and the increment may store a row
again, but one of the old version. `SwitchInv` adds that the account is inactive
while a deactivation stands, so that a login that reads it fails. `KeptInv` has a
lemma of its own, `RevokedBySomebody`: who makes a token stop verifying is a
revoking call of that user's that had not ended, or whose effect came late.
`ListedInv` is about the global logout, which `RevokedInv` says nothing of: a session
its answer should have ended is outdated, or waits for it (`Waits`: the loop has yet
to come to its user), unless another revoking call has interfered (`Interferes`). That
exception is needed: a logout of the same user, or another global logout, takes the user off
the map, which the loop then never reaches, while its increment came before the session; TLC finds the
counterexample without it. `TokensStayRevoked` says the same of one step as `OutdatedStays` of a
session, but of what a client can observe: a token that fails is outdated
(`FailingIsOutdated`), stays so, and verifies only by a successor of its account.
`NextMoves` and `NextEffect` reduce the sixteen actions to what one call does.

**`PromiseProofs`** – `LedgerSafe`: the abstract ledger has the two
properties it is there to express; `FeedIsOrdered`, the same for the feed.

**`OrderStatusProofs`** – `StatusTypeCorrect`, `ClientsSeeOrder`,
`FollowersLoseNothing`, `UpdatesAreAccountedFor`, `TrackingRefinesFeed`, all from
`StatusInv`. `LogInv` says that the log has each order's statuses once and in order,
none beyond `published`. `PipeInv` is the argument about order: what a client got,
what is in its channel, at its select and in its queue are positions of the log
that ascend from one end of the pipe to the other; a callback per message would
break it. `WantedInv` says everything past the filter is wanted, `RoomInv` that
the i-th update in the channel of a client of one order has at least status i, so
that an update that finds the channel full would be beyond the last status. `ControlInv` ties the phases to what is
left in the pipe. In the refinement `PublishStatus` is `Announce`, `Read` is `Hand`.

**`MailJobsProofs`** – `MailTypeCorrect`, `NobodyGetsItTwice`, `OkMeansAnswered`,
`MailRefinesFeed`, from `MailInv`: a job is in the log once (`LogInv`); posted,
being worked on and queued ascend (`PipeInv`); a job not yet posted has not been
accepted, and a nil result was answered (`ResultInv`). In the refinement `Publish`
is `Announce`; `Send`, and a `Crash` while a post is on its way, are `Hand`.

Only model-checked: `EveryRequestAnswered`, `UpdatesAreHandled`,
`LeaversAreCleanedUp`, `JobsAreHandled`. Liveness under fairness is outside the prover;
of the first, `HandlersEnd` proves that a handler cannot go on for ever, and what
remains is that it does not stand still. Every invariant, action property and
refinement that a passing run checks is also the statement of a theorem.

## 7. What the runs found

* `order_leak` – a deduction followed by a failure is never returned, nor one that
  takes effect after its own call was reported failed: the units belong to no order
  (`src/order/server.go:168`).
* `order_empty` – an order without products is stored, confirmed by email and
  tracked when every requested product is skipped, although an empty request is
  refused (`src/order/server.go:190`).
* `catalog_flag` – selling the last unit sets `outOfStock`, which nothing reads,
  instead of `out_of_stock` (`src/catalog/repository.go:407`).

* `session_reset` – a password reset that overlaps a deactivation rereads the
  account after the deactivation's increment, without looking at `is_active`
  (`src/auth/service.go:424`); a refresh of the token it stores verifies although
  the deactivation has answered. `DeactivatedNeedsReset` says that sessions begun by
  a reset are the only ones a standing deactivation leaves with a token that verifies,
  but for a successor of the account, and is proved.
* `status_close` – `Unsubscribe` does not wait for a callback that is running; one
  that has passed the filter reaches its select with the channel closed, and the
  send panics in a goroutine of the NATS client, where nothing recovers it
  (`src/gateway/graphql/subscription_resolver.go:83`): the gateway ends with all
  its streams. `UpdatesAreAccountedFor` says what the others see until then.
* `session_global` – the global logout revokes the users of the in-memory map
  (`src/auth/service.go:332`): sessions from before a restart of auth, or of a
  login that has not entered the map yet, go on.

Seen while modelling, without a run: the gateway never reaches its own global
logout, because the validation of its input requires a user id
(`src/gateway/graphql/internal/validation/mutation.go:42`); and the login's check
"user already logged in" (`src/auth/service.go:115`) looks up an e-mail among ids.
AISuggest fails for every query once one product has been left without an embedding
(`src/catalog/embed.go:68`, `src/catalog/repository.go:681`), and shows deleted
products. `VerifyToken` looks the account up by e-mail and compares versions, not
ids (`src/auth/service.go:280`): a token of a deleted account, also one revoked by
a logout before, verifies again once the e-mail is registered anew and the new
account's version is the token's, and passes as the old id; this is the exception
in `LogoutEndsSessions`, and the theorem says there is no other. `src/readme.md:71` and `:202` name NATS JetStream for reliable delivery,
but its lines in `src/order/server.go:65` are commented out and everything goes
through core NATS, which is what `LossyFeed` describes. The queries dereference
inputs the schema makes optional (`src/gateway/graphql/query_resolver.go:39`), as the
documented `products(query: ...)` does not give (`src/readme.md:390`). Listing an
account's orders fails on the first row: seven destinations for six columns
(`src/order/repository.go:146`). The page of current users counts skipped users before
the role filter and taken ones after it (`src/auth/service.go:384`).

What holds in spite of that is what `order_contention`, `catalog_admin`,
`session_calls`, `status_tracking` and `mail_jobs` show: an order that exists is exact, the units that leak are never
sold twice, a logout that answered is final as long as the account exists, statuses come in order,
emails once, and the books of catalog and orders differ by what failed requests took, no more.

## 8. Not modelled

*Open in the plan*: paging.
*Left out for good*: the logger (nothing reads what it writes), the embedding
service (a stateless call: it answers or fails), start-up retries (a bounded
loop before serving), the gateway's queries (no state changes; what they show of
the catalog is in `Listed`, `Suggested`, `AISuggested`), the heartbeat of a
subscription (it only logs). The order history stops at its first row
(section 7), so that there is no result to compare with anything. Generated code
and vendored libraries are about 15,300 of the repository's 21,900 lines of Go and
SQL (`src/gateway/graphql/generated.go` alone 8,545, the rest `*.pb.go`): they carry
no logic of the shop.
*Abstracted*: names, prices, descriptions and scores of products; the contents
of emails; the account check of `PostOrder`, which succeeds or fails freely;
paging of searches; the expiry of tokens, passwords and roles; two tokens of the
same second being the same string. A NATS message may be lost for any reason, which
includes the client library's limit for slow consumers; messages of these publishers
can always be decoded. The gateway's process ends in `OrderStatus` by the panic only:
any other end leaves the same state. In `OrderSaga`, `mails` are messages given to the
client library.
