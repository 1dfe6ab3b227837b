----------------------------- MODULE StockLedger -----------------------------
(***************************************************************************)
(* What placing orders promises about stock, with no mention of services,  *)
(* calls or failures.  Units of a product are free until a client reserves *)
(* them; a client that places an order does so once, its order holds       *)
(* exactly the units the client has reserved, and it reserves nothing      *)
(* more.  Reserved units need never be placed and are never given back.    *)
(***************************************************************************)
EXTENDS Integers

CONSTANTS
    Client,     \* the orders being placed
    Product,
    Level       \* the stock levels a supplier may set

VARIABLES
    free,       \* free[p]: units of p anybody may reserve
    held,       \* held[c][p]: units of p that c has reserved so far
    placed,     \* the clients whose order is placed
    units       \* the placed order lines

ledgerVars == <<free, held, placed, units>>

LedgerTypeOK ==
    /\ free \in [Product -> Int]
    /\ held \in [Client -> [Product -> Nat]]
    /\ placed \subseteq Client
    /\ units \subseteq [order : Client, id : Product, qty : Nat \ {0}]

Holding(c) == {[order |-> c, id |-> p, qty |-> held[c][p]] :
                  p \in {q \in Product : held[c][q] > 0}}

LedgerInit ==
    /\ free = [p \in Product |-> 0]
    /\ held = [c \in Client |-> [p \in Product |-> 0]]
    /\ placed = {}
    /\ units = {}

\* The supplier sets the level of a product.
Supply(p, n) ==
    /\ free' = [free EXCEPT ![p] = n]
    /\ UNCHANGED <<held, placed, units>>

\* A client reserves units that are free.
Reserve(c, p) ==
    /\ c \notin placed
    /\ \E q \in 0..free[p] :
          /\ free' = [free EXCEPT ![p] = @ - q]
          /\ held' = [held EXCEPT ![c][p] = @ + q]
    /\ UNCHANGED <<placed, units>>

\* A client turns all it holds into an order.
Place(c) ==
    /\ c \notin placed
    /\ placed' = placed \cup {c}
    /\ units' = units \cup Holding(c)
    /\ UNCHANGED <<free, held>>

LedgerNext ==
    \/ \E p \in Product, n \in Level : Supply(p, n)
    \/ \E c \in Client, p \in Product : Reserve(c, p)
    \/ \E c \in Client : Place(c)

LedgerSpec == LedgerInit /\ [][LedgerNext]_ledgerVars

\* Every order holds exactly what its client reserved.
OrderIsHolding ==
    \A c \in placed : {u \in units : u.order = c} = Holding(c)

\* Nobody's units appear in an order before it is placed.
UnitsArePlaced == \A u \in units : u.order \in placed
==============================================================================
