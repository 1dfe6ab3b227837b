---------------------------- MODULE ProductStore ----------------------------
(***************************************************************************)
(* The "catalog" index of Elasticsearch as catalog/repository.go uses it:  *)
(* one document per product, read in real time by id and changed by        *)
(* scripts that Elasticsearch runs one at a time on a document (an update  *)
(* takes effect whole or, on a version conflict or a thrown exception, not *)
(* at all).  Names, prices and descriptions are left out: no operation     *)
(* below reads them.                                                       *)
(***************************************************************************)
EXTENDS Integers, Sequences, FiniteSets

CONSTANTS
    Product,    \* product ids (ksuids)
    WordHalf    \* 2^31: a stock or sold value is an int32, here -WordHalf..WordHalf-1

ASSUME WordHalfAssumption == WordHalf \in Nat \ {0}

VARIABLE doc    \* the stored document of every product id

\* int32(n), the two's complement conversion of the client stubs and of the
\* script's integer arithmetic.
Int32(n) == ((n + WordHalf) % (2 * WordHalf)) - WordHalf

\* The fields the operations read.  The deduction script also sets a field
\* outOfStock when it takes the last unit; every reader looks at out_of_stock,
\* nothing reads outOfStock, and it is left out.
Document == [found : BOOLEAN, stock : Int, sold : Int, out_of_stock : BOOLEAN]

Missing == [found |-> FALSE, stock |-> 0, sold |-> 0, out_of_stock |-> FALSE]

NewDocument(n) == [Missing EXCEPT !.found = TRUE, !.stock = n]

DocTypeOK == doc \in [Product -> Document]
DocInit == doc = [p \in Product |-> Missing]

-----------------------------------------------------------------------------
(* Reads. *)

\* json.Unmarshal into the uint32 fields fails on a negative number.
Decodes(d) == d.stock >= 0 /\ d.sold >= 0

\* What a read by id, a listing or a search returns: decodable, not flagged.
Readable(d) == d.found /\ Decodes(d) /\ ~d.out_of_stock

\* The positions of S in their order: a set of one function.
InOrder(S) == {f \in [1..Cardinality(S) -> S] :
                  \A a, b \in 1..Cardinality(S) : a < b => f[a] < f[b]}

\* ListProductsWithIDs: a realtime multi-get, in the order of the ids and with
\* their repetitions, that skips what is not readable.  (The set of its one
\* answer.)
MultiGet(ids) ==
    {[k \in DOMAIN f |-> [id |-> ids[f[k]], stock |-> doc[ids[f[k]]].stock]] :
        f \in InOrder({i \in DOMAIN ids : Readable(doc[ids[i]])})}

-----------------------------------------------------------------------------
(* Writes: the document after the operation. *)

\* CreateProduct.  The id is fresh; the stock is a uint32 and the index maps it
\* as an integer, so a value beyond int32 is rejected.
IndexUnmapped(p, n) ==
    /\ ~doc[p].found
    /\ doc' = [doc EXCEPT ![p] = NewDocument(n)]

IndexDocument(p, n) ==
    /\ ~doc[p].found
    /\ n \in 0..(WordHalf - 1)
    /\ doc' = [doc EXCEPT ![p] = NewDocument(n)]

\* The deduction script throws on insufficient stock.
CanDeductUnchecked(p, q) == doc[p].found
CanDeduct(p, q) == doc[p].found /\ doc[p].stock >= q

\* UpdateStockAndSold.
DeductStock(p, q) ==
    /\ CanDeduct(p, q)
    /\ doc' = [doc EXCEPT ![p] = [@ EXCEPT !.stock = doc[p].stock - q,
                                       !.sold = Int32(doc[p].sold + q)]]

\* DeleteProductByID: a soft delete.
SoftDeleteFlagOnly(p) ==
    /\ doc[p].found
    /\ doc' = [doc EXCEPT ![p] = [@ EXCEPT !.out_of_stock = TRUE]]

SoftDelete(p) ==
    /\ doc[p].found
    /\ doc' = [doc EXCEPT ![p] = [@ EXCEPT !.out_of_stock = TRUE, !.stock = 0]]

\* RestockProduct: the new stock replaces the old one, whatever was deducted
\* since the caller read it.
RestockAnew(p, n) ==
    /\ doc[p].found
    /\ doc' = [doc EXCEPT ![p] = NewDocument(n)]

RestockStockOnly(p, n) ==
    /\ doc[p].found
    /\ doc' = [doc EXCEPT ![p] = [@ EXCEPT !.stock = n]]

Restock(p, n) ==
    /\ doc[p].found
    /\ doc' = [doc EXCEPT ![p] = [@ EXCEPT !.stock = n, !.out_of_stock = FALSE]]
=============================================================================
