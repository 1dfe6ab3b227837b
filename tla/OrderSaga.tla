------------------------------ MODULE OrderSaga ------------------------------
(***************************************************************************)
(* Placing orders, from the gateway's createOrder through the order        *)
(* service's PostOrder to the catalog, the orders database and NATS.  A    *)
(* request is one call of createOrder; requests run concurrently, and the  *)
(* steps of a request are the remote calls it makes, in the code's order.  *)
(* A call may fail, and one given up on (its deadline passed, its          *)
(* connection broke, its caller crashed) may still take effect later.      *)
(***************************************************************************)
EXTENDS ProductStore, Functions

CONSTANTS
    Request,        \* calls of createOrder
    Carts,          \* product lists a request may carry: sequences of [id, qty]
    StockLevels,    \* stock an administrator creates or restocks a product with
    MaxAdmin        \* bound on the administrator's operations

Line == [id : Product, qty : Nat]           \* a line of a request
OrderLine == [id : Product, qty : Nat \ {0}] \* a line of an order

ASSUME RequestAssumption == IsFiniteSet(Request)
ASSUME CartsAssumption == Carts \subseteq Seq(Line)
ASSUME StockLevelsAssumption == StockLevels \subseteq Int
ASSUME MaxAdminAssumption == MaxAdmin \in Nat

VARIABLES
    pc,         \* where PostOrder stands for the request
    cart,       \* req.GetProducts()
    snap,       \* the catalog's answer to the lookup: products with their stock
    idx,        \* index of the merge loop over snap
    lines,      \* orderedProduct
    late,       \* the effect a call that was given up on may still have
    answer,     \* what the client of the gateway has been told
    placed,     \* the orders table: the requests whose order is committed
    rows,       \* the order_products table
    mails,      \* confirmation emails handed to NATS
    tracked,    \* orders whose status simulation goroutine runs
    taken,      \* history: units each request deducted from each product
    adminOps    \* administrator operations so far

handler == <<pc, cart, snap, idx, lines, late>>
tables == <<placed, rows>>
events == <<mails, tracked>>
store == <<doc, taken>>
vars == <<handler, answer, tables, events, store, adminOps>>

PC == {"idle", "account", "lookup", "merge", "publish", "done", "failed"}

TypeOK ==
    /\ DocTypeOK
    /\ pc \in [Request -> PC]
    /\ cart \in [Request -> Seq(Line)]
    /\ snap \in [Request -> Seq([id : Product, stock : Nat])]
    /\ idx \in [Request -> Nat \ {0}]
    /\ lines \in [Request -> Seq(OrderLine)]
    /\ late \in [Request -> {"none", "deduction", "commit"}]
    /\ answer \in [Request -> {"none", "ok", "error"}]
    /\ placed \subseteq Request
    /\ rows \subseteq [order : Request, id : Product, qty : Nat \ {0}]
    /\ mails \subseteq Request
    /\ tracked \subseteq Request
    /\ taken \in [Request -> [Product -> Nat]]
    /\ adminOps \in 0..MaxAdmin

Init ==
    /\ DocInit
    /\ pc = [r \in Request |-> "idle"]
    /\ cart = [r \in Request |-> <<>>]
    /\ snap = [r \in Request |-> <<>>]
    /\ idx = [r \in Request |-> 1]
    /\ lines = [r \in Request |-> <<>>]
    /\ late = [r \in Request |-> "none"]
    /\ answer = [r \in Request |-> "none"]
    /\ placed = {}
    /\ rows = {}
    /\ mails = {}
    /\ tracked = {}
    /\ taken = [r \in Request |-> [p \in Product |-> 0]]
    /\ adminOps = 0

-----------------------------------------------------------------------------
(* The request. *)

\* The gateway's createOrder sends the request on, under a 30 second deadline.
Submit(r) ==
    /\ pc[r] = "idle"
    /\ \E c \in Carts : cart' = [cart EXCEPT ![r] = c]
    /\ pc' = [pc EXCEPT ![r] = "account"]
    /\ UNCHANGED <<snap, idx, lines, late, answer, tables, events, store, adminOps>>

\* STEP 1: the account service knows the account.
AccountFound(r) ==
    /\ pc[r] = "account"
    /\ pc' = [pc EXCEPT ![r] = "lookup"]
    /\ UNCHANGED <<cart, snap, idx, lines, late, answer, tables, events, store, adminOps>>

\* STEP 2: a request without products is refused.
RefuseEmptyCart(r) ==
    /\ pc[r] = "lookup"
    /\ cart[r] = <<>>
    /\ pc' = [pc EXCEPT ![r] = "failed"]
    /\ UNCHANGED <<cart, snap, idx, lines, late, answer, tables, events, store, adminOps>>

\* STEP 3: the catalog returns the readable products among those asked for.
Lookup(r) ==
    /\ pc[r] = "lookup"
    /\ cart[r] # <<>>
    /\ \E found \in MultiGet([i \in DOMAIN cart[r] |-> cart[r][i].id]) :
          snap' = [snap EXCEPT ![r] = found]
    /\ pc' = [pc EXCEPT ![r] = "merge"]
    /\ UNCHANGED <<cart, idx, lines, late, answer, tables, events, store, adminOps>>

\* STEP 4: the merge loop is at a product of the answer ...
AtProduct(r) == pc[r] = "merge" /\ idx[r] <= Len(snap[r])

\* ... whose requested lines that fit the stock of the answer are these.
FittingStrictly(r) ==
    {j \in DOMAIN cart[r] : /\ cart[r][j].id = snap[r][idx[r]].id
                            /\ cart[r][j].qty < snap[r][idx[r]].stock}

Fitting(r) ==
    {j \in DOMAIN cart[r] : /\ cart[r][j].id = snap[r][idx[r]].id
                            /\ cart[r][j].qty <= snap[r][idx[r]].stock}

\* None fits: the product is left out of the order.
SkipInPlace(r) ==
    /\ AtProduct(r)
    /\ Fitting(r) = {}
    /\ UNCHANGED <<handler, answer, tables, events, store, adminOps>>

SkipProduct(r) ==
    /\ AtProduct(r)
    /\ Fitting(r) = {}
    /\ idx' = [idx EXCEPT ![r] = @ + 1]
    /\ UNCHANGED <<pc, cart, snap, lines, late, answer, tables, events, store, adminOps>>

\* The catalog's deduction for line j of the request, and its history.
TakeUnits(r, j) ==
    /\ DeductStock(cart[r][j].id, cart[r][j].qty)
    /\ taken' = [taken EXCEPT ![r][cart[r][j].id] = @ + cart[r][j].qty]

\* The first line that fits is deducted from the stock, then added to the order
\* unless its quantity is zero.
DeductAndOrderAllStock(r) ==
    /\ AtProduct(r)
    /\ \E j \in Fitting(r) :
          /\ \A k \in Fitting(r) : j <= k
          /\ TakeUnits(r, j)
          /\ lines' = [lines EXCEPT ![r] =
                Append(@, [id |-> cart[r][j].id, qty |-> snap[r][idx[r]].stock])]
    /\ idx' = [idx EXCEPT ![r] = @ + 1]
    /\ UNCHANGED <<pc, cart, snap, late, answer, tables, events, adminOps>>

DeductAndOrderZero(r) ==
    /\ AtProduct(r)
    /\ \E j \in Fitting(r) :
          /\ \A k \in Fitting(r) : j <= k
          /\ TakeUnits(r, j)
          /\ lines' = [lines EXCEPT ![r] = Append(@, cart[r][j])]
    /\ idx' = [idx EXCEPT ![r] = @ + 1]
    /\ UNCHANGED <<pc, cart, snap, late, answer, tables, events, adminOps>>

DeductLine(r) ==
    /\ AtProduct(r)
    /\ \E j \in Fitting(r) :
          /\ \A k \in Fitting(r) : j <= k
          /\ TakeUnits(r, j)
          /\ lines' = IF cart[r][j].qty = 0 THEN lines
                      ELSE [lines EXCEPT ![r] = Append(@, cart[r][j])]
    /\ idx' = [idx EXCEPT ![r] = @ + 1]
    /\ UNCHANGED <<pc, cart, snap, late, answer, tables, events, adminOps>>

\* STEP 5: every product is merged and the order is to be stored.
AtCreate(r) == pc[r] = "merge" /\ idx[r] > Len(snap[r])

\* The transaction inserts the order and a row per line; the primary key
\* (product_id, order_id) admits a product once.
InsertOrderWithoutKey(r) ==
    /\ placed' = placed \cup {r}
    /\ rows' = rows \cup {[order |-> r, id |-> lines[r][i].id, qty |-> lines[r][i].qty] :
                             i \in DOMAIN lines[r]}

InsertOrder(r) ==
    /\ \A i, k \in DOMAIN lines[r] : lines[r][i].id = lines[r][k].id => i = k
    /\ placed' = placed \cup {r}
    /\ rows' = rows \cup {[order |-> r, id |-> lines[r][i].id, qty |-> lines[r][i].qty] :
                             i \in DOMAIN lines[r]}

CreateWithoutEmail(r) ==
    /\ AtCreate(r)
    /\ InsertOrder(r)
    /\ pc' = [pc EXCEPT ![r] = "done"]
    /\ UNCHANGED <<cart, snap, idx, lines, late, answer, events, store, adminOps>>

CreateOrder(r) ==
    /\ AtCreate(r)
    /\ InsertOrder(r)
    /\ pc' = [pc EXCEPT ![r] = "publish"]
    /\ UNCHANGED <<cart, snap, idx, lines, late, answer, events, store, adminOps>>

\* The confirmation email goes to NATS, the status simulation starts and the
\* handler returns the order.
PublishBeforeCommit(r) ==
    /\ pc[r] = "publish" \/ AtCreate(r)
    /\ mails' = mails \cup {r}
    /\ tracked' = tracked \cup {r}
    /\ pc' = [pc EXCEPT ![r] = "done"]
    /\ UNCHANGED <<cart, snap, idx, lines, late, answer, tables, store, adminOps>>

PublishEmail(r) ==
    /\ pc[r] = "publish"
    /\ mails' = mails \cup {r}
    /\ tracked' = tracked \cup {r}
    /\ pc' = [pc EXCEPT ![r] = "done"]
    /\ UNCHANGED <<cart, snap, idx, lines, late, answer, tables, store, adminOps>>

\* NATS refuses the email: the handler returns an error, the order stays.
PublishFails(r) ==
    /\ pc[r] = "publish"
    /\ pc' = [pc EXCEPT ![r] = "failed"]
    /\ UNCHANGED <<cart, snap, idx, lines, late, answer, tables, events, store, adminOps>>

-----------------------------------------------------------------------------
(* Failure. *)

\* What the call the request is waiting for would do.
Pending(r) ==
    CASE AtProduct(r) /\ Fitting(r) # {} -> "deduction"
      [] AtCreate(r) -> "commit"
      [] OTHER -> "none"

\* The request is waiting for a remote call.
Calling(r) ==
    \/ pc[r] = "account"
    \/ pc[r] = "lookup" /\ cart[r] # <<>>
    \/ AtProduct(r) /\ Fitting(r) # {}
    \/ AtCreate(r)

CallRetried(r) ==
    /\ Calling(r)
    /\ late' = [late EXCEPT ![r] = Pending(r)]
    /\ UNCHANGED <<pc, cart, snap, idx, lines, answer, tables, events, store, adminOps>>

\* The call fails for the handler, which returns an error at once: refused, or
\* out of time, its effect lost or still to come.  Nothing is undone.
CallFails(r) ==
    /\ Calling(r)
    /\ late' = [late EXCEPT ![r] = Pending(r)]
    /\ pc' = [pc EXCEPT ![r] = "failed"]
    /\ UNCHANGED <<cart, snap, idx, lines, answer, tables, events, store, adminOps>>

\* Elasticsearch runs the script of a deduction nobody waits for any more.
LateDeduction(r) ==
    /\ late[r] = "deduction"
    /\ \E j \in Fitting(r) : (\A k \in Fitting(r) : j <= k) /\ TakeUnits(r, j)
    /\ late' = [late EXCEPT ![r] = "none"]
    /\ UNCHANGED <<pc, cart, snap, idx, lines, answer, tables, events, adminOps>>

\* PostgreSQL commits a transaction whose commit nobody waits for any more.
LateCommit(r) ==
    /\ late[r] = "commit"
    /\ InsertOrder(r)
    /\ late' = [late EXCEPT ![r] = "none"]
    /\ UNCHANGED <<pc, cart, snap, idx, lines, answer, events, store, adminOps>>

\* The handler's result reaches the client.
Respond(r) ==
    /\ answer[r] = "none"
    /\ \/ pc[r] = "done" /\ answer' = [answer EXCEPT ![r] = "ok"]
       \/ pc[r] = "failed" /\ answer' = [answer EXCEPT ![r] = "error"]
    /\ UNCHANGED <<handler, tables, events, store, adminOps>>

\* The client's deadline passes first.  The handler learns of it only when a
\* call it makes fails; publishing to NATS does not look at the deadline.
Timeout(r) ==
    /\ answer[r] = "none"
    /\ pc[r] # "idle"
    /\ answer' = [answer EXCEPT ![r] = "error"]
    /\ UNCHANGED <<handler, tables, events, store, adminOps>>

Running(r) == pc[r] \notin {"idle", "done", "failed"}

\* The order service's container dies and is started again: running handlers
\* and status simulations are gone, the clients see a broken connection.
Crash ==
    /\ (\E r \in Request : Running(r)) \/ tracked # {}
    /\ pc' = [r \in Request |-> IF Running(r) THEN "failed" ELSE pc[r]]
    /\ late' = [r \in Request |-> IF Running(r) THEN Pending(r) ELSE late[r]]
    /\ answer' = [r \in Request |->
                     IF pc[r] # "idle" /\ answer[r] = "none" THEN "error" ELSE answer[r]]
    /\ tracked' = {}
    /\ UNCHANGED <<cart, snap, idx, lines, tables, mails, store, adminOps>>

-----------------------------------------------------------------------------
(* The administrator, whose mutations the gateway sends to the catalog.  Only *)
(* their scripts matter here: module Catalog models them call by call.        *)

Admin(p) ==
    /\ adminOps < MaxAdmin
    /\ adminOps' = adminOps + 1
    /\ \/ \E n \in StockLevels : IndexDocument(p, n)
       \/ \E n \in StockLevels : Restock(p, n)
       \/ SoftDelete(p)
    /\ UNCHANGED <<handler, answer, tables, events, taken>>

-----------------------------------------------------------------------------
\* A step of the handler goroutine.
HandlerStep(r) ==
    \/ AccountFound(r)
    \/ RefuseEmptyCart(r)
    \/ Lookup(r)
    \/ SkipProduct(r)
    \/ DeductLine(r)
    \/ CreateOrder(r)
    \/ PublishEmail(r)
    \/ PublishFails(r)
    \/ CallFails(r)

LateStep(r) == LateDeduction(r) \/ LateCommit(r)

Next ==
    \/ \E r \in Request : Submit(r)
    \/ \E r \in Request : HandlerStep(r)
    \/ \E r \in Request : LateStep(r)
    \/ \E r \in Request : Respond(r)
    \/ \E r \in Request : Timeout(r)
    \/ Crash
    \/ \E p \in Product : Admin(p)

Spec == Init /\ [][Next]_vars

\* A goroutine that can run does, every call it waits for ends by the deadline,
\* and a result is delivered.  Clients, administrators and crashes owe nothing.
Fairness == \A r \in Request : WF_vars(HandlerStep(r)) /\ WF_vars(Respond(r))
FairSpec == Spec /\ Fairness

-----------------------------------------------------------------------------
(* Properties. *)

RowsOf(r) == {row \in rows : row.order = r}

\* A committed order (the rows of CreateOrder's transaction) holds exactly the
\* units its request deducted from the catalog: whatever failed, timed out or
\* crashed in between, nothing is sold without being deducted and no order that
\* exists leaks stock.
OrderIsDeducted ==
    \A r \in placed :
        RowsOf(r) = {[order |-> r, id |-> p, qty |-> taken[r][p]] :
                        p \in {q \in Product : taken[r][q] > 0}}

\* PostOrder sends the confirmation email and starts the status simulation only
\* for an order the database holds, also when the handler crashes, the commit
\* is late or the client has given up.
AnnouncedOrdersExist == mails \cup tracked \subseteq placed

\* A client that createOrder answered without an error has its order stored and
\* its confirmation email handed to NATS.
OkIsComplete ==
    \A r \in Request : answer[r] = "ok" => r \in placed \cap mails

\* The merge loop leaves a requested product that the catalog returned out of an
\* order only when its stock, as the lookup saw it, was short.  (A quantity of
\* zero, which the loop's break lets shadow a later line, is left aside.)
OmittedLinesWereShort ==
    \A r \in placed : \A j \in DOMAIN cart[r], i \in DOMAIN snap[r] :
        /\ snap[r][i].id = cart[r][j].id
        /\ \A k \in DOMAIN cart[r] : cart[r][k].qty > 0
        /\ \A row \in RowsOf(r) : row.id # cart[r][j].id
        => cart[r][j].qty > snap[r][i].stock

\* The units of p that these requests together have deducted, and those on the
\* rows of committed orders.
TakenBy(requests, p) == SumFunctionOnSet([r \in Request |-> taken[r][p]], requests)

UnitsTaken(p) == TakenBy(Request, p)

UnitsOrdered(p) ==
    LET rowsOfProduct == {row \in rows : row.id = p}
    IN  SumFunctionOnSet([row \in rowsOfProduct |-> row.qty], rowsOfProduct)

\* A product's sold counter is what all requests together deducted from it, as
\* an int32: no script of the administrator resets it, no deduction is counted
\* twice or lost.
SoldIsDeducted == \A p \in Product : doc[p].sold = Int32(UnitsTaken(p))

\* The books of two databases that share no transaction balance, at any moment
\* of any number of calls: what Elasticsearch counts as sold is on an order in
\* PostgreSQL, or was deducted by a request without an order, and nothing is
\* counted on both sides; until the counter wraps.
OrdersAreCounted ==
    \A p \in Product :
        UnitsTaken(p) < WordHalf
            => doc[p].sold = UnitsOrdered(p) + TakenBy(Request \ placed, p)

\* Every call of createOrder that reaches the order service is answered, under
\* any interleaving with other requests, failures and crashes.
EveryRequestAnswered ==
    \A r \in Request : pc[r] # "idle" ~> answer[r] # "none"

\* The steps a handler has left at most: remote calls, rounds of the merge loop
\* and the publication, the lookup answering with no more than was asked for.
StepsLeft(r) ==
    CASE pc[r] = "account" -> Len(cart[r]) + 4
      [] pc[r] = "lookup" -> Len(cart[r]) + 3
      [] pc[r] = "merge" -> Len(snap[r]) - idx[r] + 3
      [] pc[r] = "publish" -> 1
      [] OTHER -> 0

\* PostOrder comes to an end whatever its calls answer: each of its steps leaves
\* it fewer, and nothing that happens meanwhile (other requests, administrators,
\* late effects, a passed deadline, a crash) gives it more.
EveryHandlerEnds ==
    [][\A r \in Request : pc[r] # "idle" =>
          /\ StepsLeft(r)' \in 0..StepsLeft(r)
          /\ HandlerStep(r) => StepsLeft(r)' < StepsLeft(r)]_vars

\* Stock seen as a ledger: a deduction is a reservation, a committed order takes
\* all its request reserved and reserves nothing more.
Ledger == INSTANCE StockLedger WITH
              Client <- Request,
              Level <- StockLevels \cup {0},
              free <- [p \in Product |-> doc[p].stock],
              held <- taken,
              units <- rows

\* PostOrder, with all its failures, implements the stock ledger.
RefinesLedger == Ledger!LedgerSpec

\* Claimed by the comment "first update the db and then add it to the order":
\* stock that a finished request deducted is in its order.
DeductedStockIsOrdered ==
    \A r \in Request :
        pc[r] \in {"done", "failed"} /\ late[r] = "none" /\ r \notin placed
            => \A p \in Product : taken[r][p] = 0

\* Claimed by the check "Product list is empty": no order without products.
NoEmptyOrder == \A r \in placed : RowsOf(r) # {}
==============================================================================
