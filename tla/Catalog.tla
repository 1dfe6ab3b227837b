------------------------------- MODULE Catalog -------------------------------
(***************************************************************************)
(* The catalog service: the administrator's createProduct, deleteProduct   *)
(* and restockProduct from the gateway to Elasticsearch, the embedding     *)
(* goroutine, the deductions of the order service, and what the searches   *)
(* see of all that.  Elasticsearch answers a read by id from the stored    *)
(* documents and a search from the copy of them its last refresh took;     *)
(* the "catalog" index has one shard, so a refresh copies all of them.     *)
(***************************************************************************)
EXTENDS ProductStore

CONSTANTS
    Call,       \* calls of the three mutations
    NoCall,     \* stands for no call
    Amounts,    \* stock and newStock arguments the gateway's validation admits
    Quantities, \* quantities the order service deducts
    MaxDeducted \* bound on the units deducted from a product

ASSUME ProductAssumption == Product # {}
ASSUME NoCallAssumption == NoCall \notin Call
ASSUME AmountsAssumption == Amounts \subseteq Nat \ {0}
ASSUME QuantitiesAssumption == Quantities \subseteq Nat
ASSUME MaxDeductedAssumption == MaxDeducted \in Nat

VARIABLES
    pc,         \* where the handler of the call stands
    call,       \* the arguments of the call
    late,       \* calls given up on whose write may still take effect
    answer,     \* what the gateway's client has been told
    view,       \* the searchable copy of doc
    embedding,  \* products with a running AddEmbeddingToProduct goroutine
    vectors,    \* products whose document has an embedding
    viewVectors,\* products whose searchable copy has one
    missed,     \* history: products whose embedding nobody will add
    deducted,   \* history: units deducted from each product
    last        \* history: the call that wrote a product last

handler == <<pc, call, late>>
aiSearch == <<vectors, viewVectors, missed>>
history == <<deducted, last>>
vars == <<doc, handler, answer, view, embedding, aiSearch, history>>

PC == {"idle", "check", "write", "refresh", "done", "failed"}
Arguments == [op : {"none", "create", "delete", "restock"}, id : Product, n : Nat]

TypeOK ==
    /\ DocTypeOK
    /\ \A p \in Product : doc[p].stock \in -WordHalf..(WordHalf - 1)
    /\ \A p \in Product : doc[p].sold \in -WordHalf..(WordHalf - 1)
    /\ pc \in [Call -> PC]
    /\ call \in [Call -> Arguments]
    /\ late \subseteq Call
    /\ answer \in [Call -> {"none", "ok", "error"}]
    /\ view \in [Product -> Document]
    /\ embedding \subseteq Product
    /\ vectors \subseteq Product
    /\ viewVectors \subseteq Product
    /\ missed \subseteq Product
    /\ deducted \in [Product -> 0..MaxDeducted]
    /\ last \in [Product -> Call \cup {NoCall}]

Init ==
    /\ DocInit
    /\ pc = [c \in Call |-> "idle"]
    /\ call = [c \in Call |-> [op |-> "none", id |-> CHOOSE p \in Product : TRUE, n |-> 0]]
    /\ late = {}
    /\ answer = [c \in Call |-> "none"]
    /\ view = doc
    /\ embedding = {}
    /\ vectors = {}
    /\ viewVectors = {}
    /\ missed = {}
    /\ deducted = [p \in Product |-> 0]
    /\ last = [p \in Product |-> NoCall]

-----------------------------------------------------------------------------
(* The administrator's mutations. *)

\* createProduct takes a fresh ksuid and writes at once; the others first ask
\* whether the document exists.
Submit(c) ==
    /\ pc[c] = "idle"
    /\ \E p \in Product :
          \/ /\ \A d \in Call : call[d].op = "create" => call[d].id # p
             /\ \E n \in Amounts : call' = [call EXCEPT ![c] = [op |-> "create", id |-> p, n |-> n]]
             /\ pc' = [pc EXCEPT ![c] = "write"]
          \/ /\ call' = [call EXCEPT ![c] = [op |-> "delete", id |-> p, n |-> 0]]
             /\ pc' = [pc EXCEPT ![c] = "check"]
          \/ /\ \E n \in Amounts : call' = [call EXCEPT ![c] = [op |-> "restock", id |-> p, n |-> n]]
             /\ pc' = [pc EXCEPT ![c] = "check"]
    /\ UNCHANGED <<doc, late, answer, view, embedding, aiSearch, history>>

\* The existence check of DeleteProductByID and RestockProduct.
CheckExists(c) ==
    /\ pc[c] = "check"
    /\ pc' = [pc EXCEPT ![c] = IF doc[call[c].id].found THEN "write" ELSE "failed"]
    /\ UNCHANGED <<doc, call, late, answer, view, embedding, aiSearch, history>>

\* What Elasticsearch does for the call, if RestockProduct indexed the product
\* anew, its embedding not being a field of productDocument.
EffectWhole(c) ==
    /\ \/ /\ call[c].op = "create"
          /\ IndexDocument(call[c].id, call[c].n % (2 * WordHalf))
          /\ UNCHANGED vectors
       \/ call[c].op = "delete" /\ SoftDelete(call[c].id) /\ UNCHANGED vectors
       \/ /\ call[c].op = "restock"
          /\ Restock(call[c].id, Int32(call[c].n))
          /\ vectors' = vectors \ {call[c].id}
    /\ last' = [last EXCEPT ![call[c].id] = c]

\* What Elasticsearch does for the call: CreateProduct indexes the stock as a
\* uint32, the others run their script, RestockProduct with an int32.
Effect(c) ==
    /\ \/ /\ call[c].op = "create"
          /\ IndexDocument(call[c].id, call[c].n % (2 * WordHalf))
       \/ call[c].op = "delete" /\ SoftDelete(call[c].id)
       \/ call[c].op = "restock" /\ Restock(call[c].id, Int32(call[c].n))
    /\ UNCHANGED vectors
    /\ last' = [last EXCEPT ![call[c].id] = c]

\* CreateProduct returns and leaves the embedding to a goroutine; the scripts
\* are sent with Refresh("true") and wait for it.
WriteUnrefreshed(c) ==
    /\ pc[c] = "write"
    /\ Effect(c)
    /\ pc' = [pc EXCEPT ![c] = "done"]
    /\ embedding' = IF call[c].op = "create" THEN embedding \cup {call[c].id} ELSE embedding
    /\ UNCHANGED <<call, late, answer, view, viewVectors, missed, deducted>>

Write(c) ==
    /\ pc[c] = "write"
    /\ Effect(c)
    /\ pc' = [pc EXCEPT ![c] = IF call[c].op = "create" THEN "done" ELSE "refresh"]
    /\ embedding' = IF call[c].op = "create" THEN embedding \cup {call[c].id} ELSE embedding
    /\ UNCHANGED <<call, late, answer, view, viewVectors, missed, deducted>>

\* A refresh of the index.
RefreshIndex == view' = doc /\ viewVectors' = vectors

Refreshed(c) ==
    /\ pc[c] = "refresh"
    /\ RefreshIndex
    /\ pc' = [pc EXCEPT ![c] = "done"]
    /\ UNCHANGED <<doc, call, late, answer, embedding, vectors, missed, history>>

\* A call to Elasticsearch fails or is cut off by the gateway's 5 second
\* deadline: the handler returns an error; a write on its way may still run.
Calling(c) == pc[c] \in {"check", "write", "refresh"}

CallFails(c) ==
    /\ Calling(c)
    /\ late' = IF pc[c] = "write" THEN late \cup {c} ELSE late
    /\ pc' = [pc EXCEPT ![c] = "failed"]
    /\ UNCHANGED <<doc, call, answer, view, embedding, aiSearch, history>>

\* For a product created late nobody starts the goroutine.
LateWrite(c) ==
    /\ c \in late
    /\ Effect(c)
    /\ late' = late \ {c}
    /\ missed' = IF call[c].op = "create" THEN missed \cup {call[c].id} ELSE missed
    /\ UNCHANGED <<pc, call, answer, view, embedding, viewVectors, deducted>>

\* The result reaches the client, unless its deadline passed.
Respond(c) ==
    /\ answer[c] = "none"
    /\ \/ pc[c] = "done" /\ answer' = [answer EXCEPT ![c] = "ok"]
       \/ pc[c] # "idle" /\ answer' = [answer EXCEPT ![c] = "error"]
    /\ UNCHANGED <<doc, handler, view, embedding, aiSearch, history>>

\* The catalog's container dies and restarts: handlers and goroutines are gone.
Crash ==
    /\ (\E c \in Call : Calling(c)) \/ embedding # {}
    /\ late' = late \cup {c \in Call : pc[c] = "write"}
    /\ pc' = [c \in Call |-> IF Calling(c) THEN "failed" ELSE pc[c]]
    /\ embedding' = {}
    /\ missed' = missed \cup embedding
    /\ UNCHANGED <<doc, call, answer, view, vectors, viewVectors, history>>

-----------------------------------------------------------------------------
(* The embedding goroutine, the order service and Elasticsearch's refresh. *)

\* AddEmbeddingToProduct adds the vector with a partial update: the rest of the
\* document stays as it is now, not as the goroutine's copy of the product has it.
EmbedWholeDocument(p) ==
    /\ p \in embedding
    /\ \E c \in Call :
          /\ call[c].op = "create" /\ call[c].id = p
          /\ doc' = [doc EXCEPT ![p] = NewDocument(call[c].n % (2 * WordHalf))]
    /\ embedding' = embedding \ {p}
    /\ vectors' = vectors \cup {p}
    /\ UNCHANGED <<handler, answer, view, viewVectors, missed, history>>

Embed(p) ==
    /\ p \in embedding
    /\ doc[p].found
    /\ embedding' = embedding \ {p}
    /\ vectors' = vectors \cup {p}
    /\ UNCHANGED <<doc, handler, answer, view, viewVectors, missed, history>>

\* The embedding service or the update fails: logged, never tried again.
EmbedFails(p) ==
    /\ p \in embedding
    /\ embedding' = embedding \ {p}
    /\ missed' = missed \cup {p}
    /\ UNCHANGED <<doc, handler, answer, view, vectors, viewVectors, history>>

\* The order service deducts a line that fitted the stock it looked up before.
Deduct(p, q) ==
    /\ deducted[p] + q <= MaxDeducted
    /\ DeductStock(p, q)
    /\ deducted' = [deducted EXCEPT ![p] = @ + q]
    /\ UNCHANGED <<handler, answer, view, embedding, aiSearch, last>>

\* Elasticsearch refreshes the index on its own, about once a second.
Refresh ==
    /\ RefreshIndex
    /\ UNCHANGED <<doc, handler, answer, embedding, vectors, missed, history>>

-----------------------------------------------------------------------------
(* The searches. *)

\* ListProducts and SearchProducts drop what is out of stock or undecodable.
Listed == {p \in Product : Readable(view[p])}

\* SuggestProducts filters in the query, where the square root of a negative
\* sold counter fails the whole search.
Suggested ==
    LET hits == {p \in Product : view[p].found /\ ~view[p].out_of_stock}
    IN  IF \E p \in hits : view[p].sold < 0 THEN {}
        ELSE {p \in hits : Decodes(view[p])}

\* AISuggest scores every document, also a deleted one, with a script that fails
\* the whole search on a document without a vector.
AISuggested ==
    LET hits == {p \in Product : view[p].found}
    IN  IF hits \subseteq viewVectors THEN {p \in hits : Decodes(view[p])} ELSE {}

-----------------------------------------------------------------------------
Next ==
    \/ \E c \in Call : Submit(c)
    \/ \E c \in Call : CheckExists(c)
    \/ \E c \in Call : Write(c)
    \/ \E c \in Call : Refreshed(c)
    \/ \E c \in Call : CallFails(c)
    \/ \E c \in Call : LateWrite(c)
    \/ \E c \in Call : Respond(c)
    \/ Crash
    \/ \E p \in Product : Embed(p)
    \/ \E p \in Product : EmbedFails(p)
    \/ \E p \in Product, q \in Quantities : Deduct(p, q)
    \/ Refresh

Spec == Init /\ [][Next]_vars

-----------------------------------------------------------------------------
(* Properties. *)

\* Call c was answered without an error and no other call wrote its product
\* since it did.
Stands(c) == answer[c] = "ok" /\ last[call[c].id] = c

\* Once deleteProduct has answered, and until the product is restocked, no
\* listing, no suggestion by name and no read by id shows it: not by a stale
\* search copy, nor because a deduction or the embedding goroutine wrote the
\* document in between.  (AISuggest, which filters nothing, does show it.)
DeletedIsHidden ==
    \A c \in Call :
        Stands(c) /\ call[c].op = "delete" =>
            /\ call[c].id \notin Listed \cup Suggested
            /\ ~Readable(doc[call[c].id])

\* Once restockProduct has answered, and until the product is deleted, the
\* listings show it, unless one of its counters went past the int32 range.
RestockedIsListed ==
    \A c \in Call :
        /\ Stands(c) /\ call[c].op = "restock"
        /\ call[c].n < WordHalf /\ deducted[call[c].id] < WordHalf
        => call[c].id \in Listed

\* No unit of a product is sold while it is deleted, although the order service
\* looks at the flag some time before it deducts.
NothingSoldWhileDeleted ==
    [][\A p \in Product : doc[p].out_of_stock => doc'[p].sold = doc[p].sold]_vars

\* A product's sold counter is, modulo 2^32, the number of units deducted from
\* it: nothing an administrator or the embedding goroutine writes resets it.
SoldCounts == \A p \in Product : doc[p].sold = Int32(deducted[p])

\* AISuggest finds every product, or it fails, and then because of a product that
\* waits for its embedding or will never have one: nothing an administrator or an
\* order does to a product takes it out of the semantic search again.
VectorsAreKept ==
    view = doc /\ viewVectors = vectors =>
        \/ AISuggested = {p \in Product : doc[p].found /\ Decodes(doc[p])}
        \/ \E p \in embedding \cup missed : doc[p].found

\* Claimed by the comment on productDocument's out_of_stock: a product without
\* stock is flagged.
SoldOutIsFlagged ==
    \A p \in Product : doc[p].found /\ doc[p].stock = 0 => doc[p].out_of_stock
=============================================================================
