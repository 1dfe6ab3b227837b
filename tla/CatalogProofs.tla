--------------------------- MODULE CatalogProofs ---------------------------
(***************************************************************************)
(* Theorems about Catalog, for every set of calls and products, every      *)
(* amount and quantity, and every width of the integers.                   *)
(***************************************************************************)
EXTENDS Catalog, ProductStoreProofs

USE WordHalfAssumption, ProductAssumption, NoCallAssumption,
    AmountsAssumption, QuantitiesAssumption, MaxDeductedAssumption

-----------------------------------------------------------------------------
(* What Elasticsearch does for a call, field by field. *)

\* The write of a call on its product: it leaves every other product alone and
\* never touches a counter of sold units that exists.
LEMMA EffectFields ==
  ASSUME TypeOK, NEW c \in Call, Effect(c), NEW p \in Product, p = call[c].id
  PROVE  /\ DocTypeOK'
         /\ \A x \in Product \ {p} : doc'[x] = doc[x]
         /\ doc'[p].found
         /\ doc'[p].stock \in -WordHalf..(WordHalf - 1)
         /\ doc'[p].sold = IF call[c].op = "create" THEN 0 ELSE doc[p].sold
         /\ call[c].op = "delete" => doc'[p].out_of_stock = TRUE /\ doc'[p].stock = 0
         /\ call[c].op # "delete" => doc'[p].out_of_stock = FALSE
         /\ call[c].op = "restock" => doc'[p].stock = Int32(call[c].n)
         /\ call[c].op = "create" => ~doc[p].found
         /\ last' = [last EXCEPT ![p] = c]
<1>1. DocTypeOK /\ call[c] \in Arguments
  BY DEF TypeOK
<1>2. call[c].n \in Nat
  BY <1>1 DEF Arguments
<1>3. last' = [last EXCEPT ![p] = c]
  BY DEF Effect
<1>4. CASE call[c].op = "create" /\ IndexDocument(p, call[c].n % (2 * WordHalf))
  <2> DEFINE n == call[c].n % (2 * WordHalf)
  <2>1. n \in 0..(WordHalf - 1) /\ ~doc[p].found
    BY <1>4 DEF IndexDocument
  <2>2. IndexDocument(p, n)
    BY <1>4
  <2> HIDE DEF n
  <2>3. n \in Int
    BY <2>1
  <2>4. DocTypeOK'
    BY <1>1, <2>2, <2>3, StoreType
  <2>5. /\ \A x \in Product \ {p} : doc'[x] = doc[x]
        /\ doc'[p].found = TRUE
        /\ doc'[p].stock = n
        /\ doc'[p].sold = 0
        /\ doc'[p].out_of_stock = FALSE
    BY <1>1, <2>2, <2>3, IndexFields
  <2>6. doc'[p].stock \in -WordHalf..(WordHalf - 1)
    BY <2>1, <2>5
  <2> QED
    BY <1>3, <1>4, <2>1, <2>4, <2>5, <2>6, Zenon
<1>5. CASE call[c].op = "delete" /\ SoftDelete(p)
  <2>1. doc[p].found
    BY <1>5 DEF SoftDelete
  <2>2. DocTypeOK'
    <3>1. 0 \in Int
      OBVIOUS
    <3> QED
      BY <1>1, <1>5, <3>1, StoreType
  <2>3. /\ \A x \in Product \ {p} : doc'[x] = doc[x]
        /\ doc'[p].found = doc[p].found
        /\ doc'[p].stock = 0
        /\ doc'[p].sold = doc[p].sold
        /\ doc'[p].out_of_stock = TRUE
    BY <1>1, <1>5, DeleteFields
  <2>4. doc'[p].stock \in -WordHalf..(WordHalf - 1)
    BY <2>3
  <2> QED
    BY <1>3, <1>5, <2>1, <2>2, <2>3, <2>4, Zenon
<1>6. CASE call[c].op = "restock" /\ Restock(p, Int32(call[c].n))
  <2> DEFINE n == Int32(call[c].n)
  <2>1. n \in -WordHalf..(WordHalf - 1) /\ n \in Int
    BY <1>2, Int32Range
  <2>2. Restock(p, n) /\ doc[p].found
    BY <1>6 DEF Restock
  <2>3. n = Int32(call[c].n)
    OBVIOUS
  <2> HIDE DEF n
  <2>4. DocTypeOK'
    BY <1>1, <2>1, <2>2, StoreType
  <2>5. /\ \A x \in Product \ {p} : doc'[x] = doc[x]
        /\ doc'[p].found = doc[p].found
        /\ doc'[p].stock = n
        /\ doc'[p].sold = doc[p].sold
        /\ doc'[p].out_of_stock = FALSE
    BY <1>1, <2>1, <2>2, RestockFields
  <2>6. doc'[p].stock \in -WordHalf..(WordHalf - 1)
    BY <2>1, <2>5
  <2> QED
    BY <1>3, <1>6, <2>2, <2>3, <2>4, <2>5, <2>6, Zenon
<1> QED
  BY <1>4, <1>5, <1>6 DEF Effect

\* The stored counters are int32 values after the write.
LEMMA EffectType ==
  ASSUME TypeOK, NEW c \in Call, Effect(c)
  PROVE  /\ DocTypeOK'
         /\ \A x \in Product : doc'[x].stock \in -WordHalf..(WordHalf - 1)
         /\ \A x \in Product : doc'[x].sold \in -WordHalf..(WordHalf - 1)
         /\ last' \in [Product -> Call \cup {NoCall}]
<1>1. call[c].id \in Product
  BY DEF TypeOK, Arguments
<1>2. \A x \in Product : /\ doc[x].stock \in -WordHalf..(WordHalf - 1)
                         /\ doc[x].sold \in -WordHalf..(WordHalf - 1)
  BY DEF TypeOK
<1>3. last \in [Product -> Call \cup {NoCall}]
  BY DEF TypeOK
<1>4. PICK p \in Product : p = call[c].id
  BY <1>1
<1>5. /\ DocTypeOK'
      /\ \A x \in Product \ {p} : doc'[x] = doc[x]
      /\ doc'[p].stock \in -WordHalf..(WordHalf - 1)
      /\ doc'[p].sold = 0 \/ doc'[p].sold = doc[p].sold
      /\ last' = [last EXCEPT ![p] = c]
  BY <1>4, EffectFields
<1> QED
  BY <1>2, <1>3, <1>5

\* A deduction is the store's write of a natural number of units.
LEMMA DeductWrites ==
  ASSUME TypeOK, NEW p \in Product, NEW q \in Quantities, Deduct(p, q)
  PROVE  DeductStock(p, q) /\ DocTypeOK /\ q \in Nat /\ q \in Int
<1>1. DeductStock(p, q)
  BY DEF Deduct
<1>2. DocTypeOK
  BY DEF TypeOK
<1>3. q \in Nat
  OBVIOUS
<1> QED
  BY <1>1, <1>2, <1>3

-----------------------------------------------------------------------------
(* Type correctness. *)

\* The initial state is well typed.
LEMMA InitType == Init => TypeOK
<1> SUFFICES ASSUME Init
             PROVE  TypeOK
  OBVIOUS
<1>1. DocTypeOK /\ view \in [Product -> Document]
  BY DEF Init, DocInit, DocTypeOK, Document, Missing
<1>2. \A p \in Product : doc[p].stock = 0 /\ doc[p].sold = 0
  BY DEF Init, DocInit, Missing
<1>3. (CHOOSE p \in Product : TRUE) \in Product
  OBVIOUS
<1>4. call \in [Call -> Arguments]
  BY <1>3 DEF Init, Arguments
<1> QED
  BY <1>1, <1>2, <1>4 DEF Init, TypeOK, PC

\* Every step keeps the state well typed.
LEMMA NextType == TypeOK /\ [Next]_vars => TypeOK'
<1> SUFFICES ASSUME TypeOK, [Next]_vars
             PROVE  TypeOK'
  OBVIOUS
<1> USE DEF handler, history, aiSearch
<1>1. ASSUME NEW c \in Call, Submit(c)
      PROVE  TypeOK'
  <2>1. pc' \in [Call -> PC]
    BY <1>1 DEF TypeOK, Submit, PC
  <2>2. call' \in [Call -> Arguments]
    <3>1. PICK p \in Product, o \in {"create", "delete", "restock"}, n \in Nat :
             call' = [call EXCEPT ![c] = [op |-> o, id |-> p, n |-> n]]
      BY <1>1 DEF Submit
    <3>2. [op |-> o, id |-> p, n |-> n] \in Arguments
      BY DEF Arguments
    <3> QED
      BY <3>1, <3>2 DEF TypeOK
  <2> QED
    BY <1>1, <2>1, <2>2 DEF TypeOK, Submit, DocTypeOK
<1>2. ASSUME NEW c \in Call, CheckExists(c)
      PROVE  TypeOK'
  BY <1>2 DEF TypeOK, CheckExists, DocTypeOK, PC
<1>3. ASSUME NEW c \in Call, Write(c)
      PROVE  TypeOK'
  <2>1. Effect(c) /\ call[c].id \in Product
    BY <1>3 DEF Write, TypeOK, Arguments
  <2>2. pc' \in [Call -> PC]
    BY <1>3 DEF Write, TypeOK, PC
  <2>3. embedding' \subseteq Product /\ vectors' = vectors
    BY <1>3, <2>1 DEF Write, TypeOK, Effect
  <2> QED
    BY <1>3, <2>1, <2>2, <2>3, EffectType DEF Write, TypeOK
<1>4. ASSUME NEW c \in Call, Refreshed(c)
      PROVE  TypeOK'
  BY <1>4 DEF TypeOK, Refreshed, RefreshIndex, DocTypeOK, PC
<1>5. ASSUME NEW c \in Call, CallFails(c)
      PROVE  TypeOK'
  BY <1>5 DEF TypeOK, CallFails, DocTypeOK, PC
<1>6. ASSUME NEW c \in Call, LateWrite(c)
      PROVE  TypeOK'
  <2>1. Effect(c) /\ call[c].id \in Product
    BY <1>6 DEF LateWrite, TypeOK, Arguments
  <2>2. missed' \subseteq Product /\ vectors' = vectors
    BY <1>6, <2>1 DEF LateWrite, TypeOK, Effect
  <2> QED
    BY <1>6, <2>1, <2>2, EffectType DEF TypeOK, LateWrite
<1>7. ASSUME NEW c \in Call, Respond(c)
      PROVE  TypeOK'
  BY <1>7 DEF TypeOK, Respond, DocTypeOK
<1>8. CASE Crash
  BY <1>8 DEF TypeOK, Crash, DocTypeOK, PC
<1>9. ASSUME NEW p \in Product, Embed(p)
      PROVE  TypeOK'
  BY <1>9 DEF TypeOK, Embed, DocTypeOK
<1>10. ASSUME NEW p \in Product, EmbedFails(p)
       PROVE  TypeOK'
  BY <1>10 DEF TypeOK, EmbedFails, DocTypeOK
<1>11. ASSUME NEW p \in Product, NEW q \in Quantities, Deduct(p, q)
       PROVE  TypeOK'
  <2>1. DeductStock(p, q) /\ DocTypeOK /\ q \in Nat
    BY <1>11, DeductWrites
  <2>2. DocTypeOK'
    BY <2>1, StoreType
  <2>3. doc[p].stock \in -WordHalf..(WordHalf - 1) /\ doc[p].sold \in Int
    BY DEF TypeOK
  <2>4. doc[p].stock - q \in -WordHalf..(WordHalf - 1)
    BY <2>1, <2>3 DEF DeductStock, CanDeduct
  <2>5. Int32(doc[p].sold + q) \in -WordHalf..(WordHalf - 1)
    BY <2>1, <2>3, Int32Range
  <2>6. \A x \in Product : /\ doc'[x].stock \in -WordHalf..(WordHalf - 1)
                           /\ doc'[x].sold \in -WordHalf..(WordHalf - 1)
    BY <2>1, <2>4, <2>5, DeductFields DEF TypeOK
  <2>7. deducted' \in [Product -> 0..MaxDeducted]
    BY <1>11, <2>1 DEF Deduct, TypeOK
  <2> QED
    BY <1>11, <2>2, <2>6, <2>7 DEF Deduct, TypeOK
<1>12. CASE Refresh
  BY <1>12 DEF TypeOK, Refresh, RefreshIndex, DocTypeOK
<1>13. CASE UNCHANGED vars
  BY <1>13 DEF TypeOK, vars, DocTypeOK
<1> QED
  BY <1>1, <1>2, <1>3, <1>4, <1>5, <1>6, <1>7, <1>8, <1>9, <1>10, <1>11, <1>12, <1>13
  DEF Next

\* The catalog's documents, calls and search copy are always well typed; in
\* particular no stored counter leaves the int32 range, whatever amounts the
\* administrators send and however many units are sold.
THEOREM CatalogTypeCorrect == Spec => []TypeOK
<1>1. Init => TypeOK
  BY InitType
<1>2. TypeOK /\ [Next]_vars => TypeOK'
  BY NextType
<1> QED
  BY <1>1, <1>2, PTL DEF Spec

-----------------------------------------------------------------------------
(* The inductive invariant. *)

\* The sold counter counts what was deducted, from the document's creation on.
CounterInv ==
    /\ SoldCounts
    /\ \A p \in Product : doc[p].found \/ deducted[p] = 0

\* A flagged document has no stock a deduction could take.
FlaggedInv == \A p \in Product : doc[p].out_of_stock => doc[p].found /\ doc[p].stock = 0

\* A call writes its own product, once, and is acknowledged only after the
\* write and the refresh; the last writer's effect is still in the document
\* and, when it has finished, in the search copy.
WriterInv ==
    /\ \A p \in Product, c \in Call :
          last[p] = c => call[c].id = p /\ pc[c] \in {"refresh", "done", "failed"}
    /\ \A c \in Call : c \in late => pc[c] = "failed"
    /\ \A c \in Call : answer[c] = "ok" => pc[c] = "done"
    /\ \A c \in Call :
          last[call[c].id] = c /\ call[c].op = "delete" =>
              /\ doc[call[c].id].out_of_stock
              /\ pc[c] = "done" => view[call[c].id].out_of_stock

CatalogInv == TypeOK /\ CounterInv /\ FlaggedInv /\ WriterInv

\* The initial state satisfies the invariant.
LEMMA InitCatalog == Init => CatalogInv
<1> SUFFICES ASSUME Init
             PROVE  CatalogInv
  OBVIOUS
<1>1. \A p \in Product : doc[p] = Missing /\ deducted[p] = 0 /\ last[p] = NoCall
  BY DEF Init, DocInit
<1>2. Missing.sold = 0 /\ Missing.out_of_stock = FALSE
  BY DEF Missing
<1>3. Int32(0) = 0
  BY Int32Fixed
<1>4. CounterInv
  BY <1>1, <1>2, <1>3 DEF CounterInv, SoldCounts
<1>5. FlaggedInv
  BY <1>1, <1>2, Zenon DEF FlaggedInv
<1>6. WriterInv
  <2>1. \A c \in Call : call[c].id \in Product
    BY InitType DEF TypeOK, Arguments
  <2> QED
    BY <1>1, <2>1 DEF Init, WriterInv
<1> QED
  BY <1>4, <1>5, <1>6, InitType DEF CatalogInv

\* The write of a call keeps the counters right and the flagged documents
\* without stock.
LEMMA EffectKeepsDocs ==
  ASSUME CatalogInv, NEW c \in Call, Effect(c), UNCHANGED deducted
  PROVE  CounterInv' /\ FlaggedInv'
<1>1. TypeOK /\ CounterInv /\ FlaggedInv
  BY DEF CatalogInv
<1>2. PICK p \in Product : p = call[c].id
  BY <1>1 DEF TypeOK, Arguments
<1>3. /\ \A x \in Product \ {p} : doc'[x] = doc[x]
      /\ doc'[p].found
      /\ doc'[p].sold = IF call[c].op = "create" THEN 0 ELSE doc[p].sold
      /\ call[c].op = "delete" => doc'[p].out_of_stock = TRUE /\ doc'[p].stock = 0
      /\ call[c].op # "delete" => doc'[p].out_of_stock = FALSE
      /\ call[c].op = "create" => ~doc[p].found
  BY <1>1, <1>2, EffectFields
<1>4. doc'[p].sold = Int32(deducted[p])
  <2>1. CASE call[c].op = "create"
    <3>1. deducted[p] = 0
      BY <1>1, <1>3, <2>1 DEF CounterInv
    <3>2. doc'[p].sold = 0
      BY <1>3, <2>1
    <3> QED
      BY <3>1, <3>2, Int32Fixed
  <2>2. CASE call[c].op # "create"
    BY <1>1, <1>3, <2>2 DEF CounterInv, SoldCounts
  <2> QED
    BY <2>1, <2>2
<1>5. CounterInv'
  <2>1. ASSUME NEW x \in Product
        PROVE  doc'[x].sold = Int32(deducted[x]) /\ (doc'[x].found \/ deducted[x] = 0)
    <3>1. CASE x = p
      BY <1>3, <1>4, <3>1, Zenon
    <3>2. CASE x # p
      BY <1>1, <1>3, <3>2, Zenon DEF CounterInv, SoldCounts
    <3> QED
      BY <3>1, <3>2
  <2> QED
    BY <2>1 DEF CounterInv, SoldCounts
<1>6. FlaggedInv'
  <2>1. ASSUME NEW x \in Product, doc'[x].out_of_stock
        PROVE  doc'[x].found /\ doc'[x].stock = 0
    <3>1. CASE x = p
      BY <1>3, <2>1, <3>1, Zenon
    <3>2. CASE x # p
      BY <1>1, <1>3, <2>1, <3>2, Zenon DEF FlaggedInv
    <3> QED
      BY <3>1, <3>2
  <2> QED
    BY <2>1 DEF FlaggedInv
<1> QED
  BY <1>5, <1>6

\* So does a deduction: the counter and the history grow alike, and a flagged
\* document can only lose zero units.
LEMMA DeductKeepsDocs ==
  ASSUME CatalogInv, NEW p \in Product, NEW q \in Quantities, Deduct(p, q)
  PROVE  CounterInv' /\ FlaggedInv'
<1>1. TypeOK /\ CounterInv /\ FlaggedInv
  BY DEF CatalogInv
<1>2. DeductStock(p, q) /\ DocTypeOK /\ q \in Nat /\ q \in Int /\ doc[p].stock \in Int
  <2>1. DeductStock(p, q) /\ DocTypeOK /\ q \in Nat /\ q \in Int
    BY <1>1, DeductWrites
  <2>2. doc[p].stock \in Int
    BY <1>1 DEF TypeOK
  <2> QED
    BY <2>1, <2>2
<1>3. /\ \A x \in Product \ {p} : doc'[x] = doc[x]
      /\ doc'[p].found = doc[p].found
      /\ doc'[p].stock = doc[p].stock - q
      /\ doc'[p].sold = Int32(doc[p].sold + q)
      /\ doc'[p].out_of_stock = doc[p].out_of_stock
  BY <1>2, DeductFields
<1>4. doc[p].found /\ q <= doc[p].stock
  BY <1>2 DEF DeductStock, CanDeduct
<1>5. /\ deducted'[p] = deducted[p] + q
      /\ \A x \in Product \ {p} : deducted'[x] = deducted[x]
      /\ deducted[p] \in Int
  BY <1>1 DEF Deduct, TypeOK
<1>6. doc'[p].sold = Int32(deducted'[p])
  <2>1. doc[p].sold = Int32(deducted[p])
    BY <1>1 DEF CounterInv, SoldCounts
  <2> QED
    BY <1>2, <1>3, <1>5, <2>1, Int32Sum
<1>7. CounterInv'
  <2>1. ASSUME NEW x \in Product
        PROVE  doc'[x].sold = Int32(deducted'[x]) /\ (doc'[x].found \/ deducted'[x] = 0)
    <3>1. CASE x = p
      BY <1>3, <1>4, <1>6, <3>1, Zenon
    <3>2. CASE x # p
      BY <1>1, <1>3, <1>5, <3>2, Zenon DEF CounterInv, SoldCounts
    <3> QED
      BY <3>1, <3>2
  <2> QED
    BY <2>1 DEF CounterInv, SoldCounts
<1>8. FlaggedInv'
  <2>1. doc[p].out_of_stock => doc'[p].stock = 0
    <3>1. ASSUME doc[p].stock = 0
          PROVE  doc'[p].stock = 0
      BY <1>2, <1>3, <1>4, <3>1
    <3> QED
      BY <1>1, <3>1, Zenon DEF FlaggedInv
  <2>2. ASSUME NEW x \in Product, doc'[x].out_of_stock
        PROVE  doc'[x].found /\ doc'[x].stock = 0
    <3>1. CASE x = p
      BY <1>3, <1>4, <2>1, <2>2, <3>1, Zenon
    <3>2. CASE x # p
      BY <1>1, <1>3, <2>2, <3>2, Zenon DEF FlaggedInv
    <3> QED
      BY <3>1, <3>2
  <2> QED
    BY <2>2 DEF FlaggedInv
<1> QED
  BY <1>7, <1>8

\* The write of a call makes it the last writer of its product; what the other
\* last writers left stays.
LEMMA EffectKeepsWriters ==
  ASSUME CatalogInv, NEW c \in Call, Effect(c),
         pc[c] \in {"write", "failed"},
         pc'[c] \in {"refresh", "failed"} \/ (pc'[c] = "done" /\ call[c].op = "create"),
         \A d \in Call \ {c} : pc'[d] = pc[d],
         pc[c] = "failed" => pc'[c] = "failed",
         c \in late => pc[c] = "failed",
         late' \subseteq late, UNCHANGED <<call, answer, view>>
  PROVE  WriterInv'
<1>1. TypeOK /\ WriterInv
  BY DEF CatalogInv
<1>2. PICK p \in Product : p = call[c].id
  BY <1>1 DEF TypeOK, Arguments
<1>3. /\ \A x \in Product \ {p} : doc'[x] = doc[x]
      /\ call[c].op = "delete" => doc'[p].out_of_stock
      /\ last' = [last EXCEPT ![p] = c]
  <2>1. /\ \A x \in Product \ {p} : doc'[x] = doc[x]
        /\ call[c].op = "delete" => doc'[p].out_of_stock = TRUE
        /\ last' = [last EXCEPT ![p] = c]
    BY <1>1, <1>2, EffectFields
  <2> QED
    BY <2>1, Zenon
<1>4. last'[p] = c /\ \A x \in Product \ {p} : last'[x] = last[x]
  BY <1>1, <1>3 DEF TypeOK
<1>5. \A x \in Product, d \in Call :
         last'[x] = d => call[d].id = x /\ pc'[d] \in {"refresh", "done", "failed"}
  <2> SUFFICES ASSUME NEW x \in Product, NEW d \in Call, last'[x] = d
               PROVE  call[d].id = x /\ pc'[d] \in {"refresh", "done", "failed"}
    OBVIOUS
  <2>1. CASE x = p
    BY <1>2, <1>4, <2>1
  <2>2. CASE x # p
    <3>1. call[d].id = x /\ pc[d] \in {"refresh", "done", "failed"}
      BY <1>1, <1>4, <2>2 DEF WriterInv
    <3> QED
      BY <1>2, <2>2, <3>1
  <2> QED
    BY <2>1, <2>2
<1>6. \A d \in Call : d \in late' => pc'[d] = "failed"
  BY <1>1 DEF WriterInv
<1>7. \A d \in Call : answer[d] = "ok" => pc'[d] = "done"
  BY <1>1 DEF WriterInv
<1>8. ASSUME NEW d \in Call, last'[call[d].id] = d, call[d].op = "delete"
      PROVE  /\ doc'[call[d].id].out_of_stock
             /\ pc'[d] = "done" => view[call[d].id].out_of_stock
  <2>1. call[d].id \in Product
    BY <1>1 DEF TypeOK, Arguments
  <2>2. CASE d = c
    BY <1>2, <1>3, <1>8, <2>2
  <2>3. CASE d # c
    <3>1. call[d].id # p /\ last[call[d].id] = d
      BY <1>4, <1>8, <2>1, <2>3
    <3>2. /\ doc[call[d].id].out_of_stock
          /\ pc[d] = "done" => view[call[d].id].out_of_stock
      BY <1>1, <1>8, <3>1 DEF WriterInv
    <3> QED
      BY <1>3, <2>1, <2>3, <3>1, <3>2, Zenon
  <2> QED
    BY <2>2, <2>3
<1> QED
  BY <1>5, <1>6, <1>7, <1>8 DEF WriterInv

\* A step that writes no document and no search copy keeps the writers' effects
\* if every call it moves on goes where the invariant allows.
LEMMA MoveKeepsWriters ==
  ASSUME CatalogInv, UNCHANGED <<doc, view, call, last>>,
         \A d \in Call : \/ pc'[d] = pc[d]
                         \/ pc[d] \in {"check", "write"} /\ pc'[d] \in {"write", "failed"}
                         \/ pc[d] = "refresh" /\ pc'[d] = "failed",
         \A d \in Call : d \in late' => d \in late \/ pc'[d] = "failed",
         \A d \in Call : answer'[d] = "ok" => answer[d] = "ok" \/ pc[d] = "done"
  PROVE  WriterInv'
<1>1. WriterInv
  BY DEF CatalogInv
<1>2. \A d \in Call : pc[d] \in {"done", "failed"} => pc'[d] = pc[d]
  OBVIOUS
<1>3. \A p \in Product, c \in Call :
         last'[p] = c => call'[c].id = p /\ pc'[c] \in {"refresh", "done", "failed"}
  BY <1>1 DEF WriterInv
<1>4. \A d \in Call : d \in late' => pc'[d] = "failed"
  BY <1>1, <1>2 DEF WriterInv
<1>5. \A d \in Call : answer'[d] = "ok" => pc'[d] = "done"
  BY <1>1, <1>2 DEF WriterInv
<1>6. \A d \in Call : pc'[d] = "done" => pc[d] = "done"
  OBVIOUS
<1> QED
  BY <1>1, <1>3, <1>4, <1>5, <1>6, Zenon DEF WriterInv

\* A refresh of the index shows in the search copy what the document holds.
LEMMA RefreshKeepsWriters ==
  ASSUME CatalogInv, view' = doc, UNCHANGED <<doc, call, late, answer, last>>,
         \A d \in Call : pc'[d] = pc[d] \/ (pc[d] = "refresh" /\ pc'[d] = "done")
  PROVE  WriterInv'
<1>1. WriterInv
  BY DEF CatalogInv
<1>2. \A d \in Call : pc[d] \in {"done", "failed"} => pc'[d] = pc[d]
  OBVIOUS
<1>3. \A p \in Product, c \in Call :
         last'[p] = c => call'[c].id = p /\ pc'[c] \in {"refresh", "done", "failed"}
  BY <1>1 DEF WriterInv
<1>4. \A d \in Call : d \in late' => pc'[d] = "failed"
  BY <1>1, <1>2 DEF WriterInv
<1>5. \A d \in Call : answer'[d] = "ok" => pc'[d] = "done"
  BY <1>1, <1>2 DEF WriterInv
<1> QED
  BY <1>1, <1>3, <1>4, <1>5, Zenon DEF WriterInv

\* A call not yet submitted has written nothing, so its arguments are free.
LEMMA SubmitKeepsWriters ==
  ASSUME CatalogInv, NEW c \in Call, Submit(c)
  PROVE  WriterInv'
<1>1. TypeOK /\ WriterInv
  BY DEF CatalogInv
<1>2. pc[c] = "idle" /\ UNCHANGED <<doc, late, answer, view, last>>
  BY <1>1 DEF Submit, history
<1>3. /\ \A d \in Call \ {c} : pc'[d] = pc[d] /\ call'[d] = call[d]
      /\ call'[c].id \in Product
  BY <1>1 DEF Submit, TypeOK
<1>4. /\ \A x \in Product : last[x] # c
      /\ c \notin late
      /\ answer[c] # "ok"
  BY <1>1, <1>2 DEF WriterInv
<1>5. \A x \in Product, d \in Call :
         last'[x] = d => call'[d].id = x /\ pc'[d] \in {"refresh", "done", "failed"}
  <2> SUFFICES ASSUME NEW x \in Product, NEW d \in Call, last[x] = d
               PROVE  call'[d].id = x /\ pc'[d] \in {"refresh", "done", "failed"}
    BY <1>2
  <2>1. d # c
    BY <1>4
  <2> QED
    BY <1>1, <1>3, <2>1 DEF WriterInv
<1>6. \A d \in Call : d \in late' => pc'[d] = "failed"
  BY <1>1, <1>2, <1>3, <1>4 DEF WriterInv
<1>7. \A d \in Call : answer'[d] = "ok" => pc'[d] = "done"
  BY <1>1, <1>2, <1>3, <1>4 DEF WriterInv
<1>8. ASSUME NEW d \in Call, last'[call'[d].id] = d, call'[d].op = "delete"
      PROVE  /\ doc'[call'[d].id].out_of_stock
             /\ pc'[d] = "done" => view'[call'[d].id].out_of_stock
  <2>1. d # c
    BY <1>2, <1>3, <1>4, <1>8
  <2>2. call'[d] = call[d] /\ pc'[d] = pc[d]
    BY <1>3, <2>1
  <2> QED
    BY <1>1, <1>2, <1>8, <2>2, Zenon DEF WriterInv
<1> QED
  BY <1>5, <1>6, <1>7, <1>8 DEF WriterInv

\* A deduction leaves the flag alone.
LEMMA DeductKeepsWriters ==
  ASSUME CatalogInv, NEW p \in Product, NEW q \in Quantities, Deduct(p, q)
  PROVE  WriterInv'
<1>1. TypeOK /\ WriterInv
  BY DEF CatalogInv
<1>2. DeductStock(p, q) /\ DocTypeOK /\ q \in Nat /\ q \in Int
  BY <1>1, DeductWrites
<1>3. UNCHANGED <<pc, call, late, answer, view, last>>
  BY DEF Deduct, handler
<1>4. \A x \in Product : doc'[x].out_of_stock = doc[x].out_of_stock
  <2>1. /\ \A x \in Product \ {p} : doc'[x] = doc[x]
        /\ doc'[p].out_of_stock = doc[p].out_of_stock
    BY <1>2, DeductFields
  <2> QED
    BY <2>1, Zenon
<1>5. \A c \in Call : call[c].id \in Product
  BY <1>1 DEF TypeOK, Arguments
<1> QED
  BY <1>1, <1>3, <1>4, <1>5, Zenon DEF WriterInv

\* A step that leaves the documents and the deductions alone keeps what is said
\* of them.
LEMMA ReadKeepsDocs ==
  CounterInv /\ FlaggedInv /\ UNCHANGED <<doc, deducted>> => CounterInv' /\ FlaggedInv'
  BY DEF CounterInv, FlaggedInv, SoldCounts

\* Every step keeps the invariant.
LEMMA NextCatalog == CatalogInv /\ [Next]_vars => CatalogInv'
<1> SUFFICES ASSUME CatalogInv, [Next]_vars
             PROVE  CounterInv' /\ FlaggedInv' /\ WriterInv'
  BY NextType DEF CatalogInv
<1>0. TypeOK /\ CounterInv /\ FlaggedInv /\ WriterInv /\ pc \in [Call -> PC]
  BY DEF CatalogInv, TypeOK
<1>1. ASSUME NEW c \in Call, Submit(c)
      PROVE  CounterInv' /\ FlaggedInv' /\ WriterInv'
  <2>1. UNCHANGED <<doc, deducted>>
    BY <1>1 DEF Submit, history
  <2> QED
    BY <1>0, <1>1, <2>1, ReadKeepsDocs, SubmitKeepsWriters
<1>2. ASSUME NEW c \in Call, CheckExists(c)
      PROVE  CounterInv' /\ FlaggedInv' /\ WriterInv'
  <2>1. UNCHANGED <<doc, view, call, late, answer, last, deducted>>
    BY <1>2 DEF CheckExists, history
  <2>2. \A d \in Call : \/ pc'[d] = pc[d]
                        \/ pc[d] \in {"check", "write"} /\ pc'[d] \in {"write", "failed"}
                        \/ pc[d] = "refresh" /\ pc'[d] = "failed"
    <3>1. pc[c] = "check" /\ \A d \in Call \ {c} : pc'[d] = pc[d]
      BY <1>0, <1>2 DEF CheckExists
    <3>2. pc'[c] \in {"write", "failed"}
      BY <1>0, <1>2 DEF CheckExists
    <3> QED
      BY <3>1, <3>2
  <2> QED
    BY <1>0, <2>1, <2>2, ReadKeepsDocs, MoveKeepsWriters
<1>3. ASSUME NEW c \in Call, Write(c)
      PROVE  CounterInv' /\ FlaggedInv' /\ WriterInv'
  <2>1. Effect(c) /\ pc[c] = "write" /\ UNCHANGED <<call, late, answer, view, deducted>>
    BY <1>3 DEF Write
  <2>2. /\ pc'[c] \in {"refresh", "failed"} \/ (pc'[c] = "done" /\ call[c].op = "create")
        /\ \A d \in Call \ {c} : pc'[d] = pc[d]
    BY <1>0, <1>3 DEF Write, TypeOK
  <2>3. c \notin late
    BY <1>0, <2>1 DEF WriterInv
  <2> QED
    BY <2>1, <2>2, <2>3, EffectKeepsDocs, EffectKeepsWriters
<1>4. ASSUME NEW c \in Call, Refreshed(c)
      PROVE  CounterInv' /\ FlaggedInv' /\ WriterInv'
  <2>1. view' = doc /\ UNCHANGED <<doc, call, late, answer, last, deducted>>
    BY <1>4 DEF Refreshed, RefreshIndex, history
  <2>2. \A d \in Call : pc'[d] = pc[d] \/ (pc[d] = "refresh" /\ pc'[d] = "done")
    BY <1>0, <1>4 DEF Refreshed, TypeOK
  <2> QED
    BY <1>0, <2>1, <2>2, ReadKeepsDocs, RefreshKeepsWriters
<1>5. ASSUME NEW c \in Call, CallFails(c)
      PROVE  CounterInv' /\ FlaggedInv' /\ WriterInv'
  <2>1. UNCHANGED <<doc, view, call, answer, last, deducted>>
    BY <1>5 DEF CallFails, history
  <2>2. \A d \in Call : \/ pc'[d] = pc[d]
                        \/ pc[d] \in {"check", "write"} /\ pc'[d] \in {"write", "failed"}
                        \/ pc[d] = "refresh" /\ pc'[d] = "failed"
    BY <1>0, <1>5 DEF CallFails, Calling, TypeOK
  <2>3. \A d \in Call : d \in late' => d \in late \/ pc'[d] = "failed"
    BY <1>0, <1>5 DEF CallFails, TypeOK
  <2> QED
    BY <1>0, <2>1, <2>2, <2>3, ReadKeepsDocs, MoveKeepsWriters
<1>6. ASSUME NEW c \in Call, LateWrite(c)
      PROVE  CounterInv' /\ FlaggedInv' /\ WriterInv'
  <2>1. /\ Effect(c) /\ late' \subseteq late
        /\ UNCHANGED <<pc, call, answer, view, deducted>>
    BY <1>6 DEF LateWrite
  <2>2. pc[c] = "failed"
    BY <1>0, <1>6 DEF LateWrite, WriterInv
  <2> QED
    BY <2>1, <2>2, EffectKeepsDocs, EffectKeepsWriters
<1>7. ASSUME NEW c \in Call, Respond(c)
      PROVE  CounterInv' /\ FlaggedInv' /\ WriterInv'
  <2>1. UNCHANGED <<doc, pc, view, call, late, last, deducted>>
    BY <1>7 DEF Respond, handler, history
  <2>2. \A d \in Call : answer'[d] = "ok" => answer[d] = "ok" \/ pc[d] = "done"
    BY <1>0, <1>7 DEF Respond, TypeOK
  <2> QED
    BY <1>0, <2>1, <2>2, ReadKeepsDocs, MoveKeepsWriters
<1>8. CASE Crash
  <2>1. UNCHANGED <<doc, view, call, answer, last, deducted>>
    BY <1>8 DEF Crash, history
  <2>2. \A d \in Call : \/ pc'[d] = pc[d]
                        \/ pc[d] \in {"check", "write"} /\ pc'[d] \in {"write", "failed"}
                        \/ pc[d] = "refresh" /\ pc'[d] = "failed"
    BY <1>8 DEF Crash, Calling
  <2>3. \A d \in Call : d \in late' => d \in late \/ pc'[d] = "failed"
    BY <1>8 DEF Crash, Calling
  <2> QED
    BY <1>0, <2>1, <2>2, <2>3, ReadKeepsDocs, MoveKeepsWriters
<1>9. ASSUME NEW p \in Product, Embed(p) \/ EmbedFails(p)
      PROVE  CounterInv' /\ FlaggedInv' /\ WriterInv'
  <2>1. UNCHANGED <<doc, pc, view, call, late, answer, last, deducted>>
    BY <1>9 DEF Embed, EmbedFails, handler, history
  <2> QED
    BY <1>0, <2>1, ReadKeepsDocs, MoveKeepsWriters
<1>10. ASSUME NEW p \in Product, NEW q \in Quantities, Deduct(p, q)
       PROVE  CounterInv' /\ FlaggedInv' /\ WriterInv'
  BY <1>10, DeductKeepsDocs, DeductKeepsWriters
<1>11. CASE Refresh
  <2>1. view' = doc /\ UNCHANGED <<doc, pc, call, late, answer, last, deducted>>
    BY <1>11 DEF Refresh, RefreshIndex, handler, history
  <2> QED
    BY <1>0, <2>1, ReadKeepsDocs, RefreshKeepsWriters
<1>12. CASE UNCHANGED vars
  <2>1. UNCHANGED <<doc, pc, view, call, late, answer, last, deducted>>
    BY <1>12 DEF vars, handler, history
  <2> QED
    BY <1>0, <2>1, ReadKeepsDocs, MoveKeepsWriters
<1> QED
  BY <1>1, <1>2, <1>3, <1>4, <1>5, <1>6, <1>7, <1>8, <1>9, <1>10, <1>11, <1>12
  DEF Next

\* The invariant holds in every reachable state.
LEMMA CatalogInvariant == Spec => []CatalogInv
<1>1. Init => CatalogInv
  BY InitCatalog
<1>2. CatalogInv /\ [Next]_vars => CatalogInv'
  BY NextCatalog
<1> QED
  BY <1>1, <1>2, PTL DEF Spec

-----------------------------------------------------------------------------
(* What a restock leaves, and the vectors. *)

OnSale(d) == d.found /\ ~d.out_of_stock /\ d.stock >= 0

\* The last restock of a product still has it on sale, in the document and, when
\* the call has finished, in the search copy, whose counter is decodable while
\* the deductions are within the int32 range.
RestockInv ==
    /\ \A p \in Product : deducted[p] < WordHalf => view[p].sold >= 0
    /\ \A c \in Call :
          last[call[c].id] = c /\ call[c].op = "restock" /\ call[c].n < WordHalf =>
              /\ OnSale(doc[call[c].id])
              /\ pc[c] = "done" => OnSale(view[call[c].id])

\* An indexed product has its vector, or waits for it, or will not get it.
VectorInv == \A p \in Product : doc[p].found => p \in vectors \cup embedding \cup missed

\* Nobody has written or deducted anything yet.
LEMMA InitRestocked == Init => RestockInv /\ VectorInv
<1> SUFFICES ASSUME Init
             PROVE  RestockInv /\ VectorInv
  OBVIOUS
<1>1. \A p \in Product : doc[p] = Missing /\ view[p] = Missing /\ last[p] = NoCall
  BY DEF Init, DocInit
<1>2. Missing.sold = 0 /\ Missing.found = FALSE
  BY DEF Missing
<1>3. \A c \in Call : call[c].id \in Product
  BY InitType DEF TypeOK, Arguments
<1>4. RestockInv
  BY <1>1, <1>2, <1>3 DEF RestockInv
<1>5. VectorInv
  BY <1>1, <1>2, Zenon DEF VectorInv
<1> QED
  BY <1>4, <1>5

\* A restock puts its product on sale; the write of another call on another
\* product leaves it there.
LEMMA EffectKeepsRestocked ==
  ASSUME CatalogInv, RestockInv, NEW c \in Call, Effect(c),
         pc'[c] # "done" \/ call[c].op = "create",
         \A d \in Call \ {c} : pc'[d] = pc[d],
         UNCHANGED <<call, view, deducted>>
  PROVE  RestockInv'
<1>1. TypeOK
  BY DEF CatalogInv
<1>2. PICK p \in Product : p = call[c].id
  BY <1>1 DEF TypeOK, Arguments
<1>3. /\ \A x \in Product \ {p} : doc'[x] = doc[x]
      /\ doc'[p].found
      /\ call[c].op # "delete" => doc'[p].out_of_stock = FALSE
      /\ call[c].op = "restock" => doc'[p].stock = Int32(call[c].n)
      /\ last' = [last EXCEPT ![p] = c]
  BY <1>1, <1>2, EffectFields, ZenonT(40)
<1>4. last'[p] = c /\ \A x \in Product \ {p} : last'[x] = last[x]
  BY <1>1, <1>3 DEF TypeOK
<1>5. \A x \in Product : deducted'[x] < WordHalf => view'[x].sold >= 0
  BY DEF RestockInv
<1>6. ASSUME NEW d \in Call, last'[call[d].id] = d, call[d].op = "restock",
             call[d].n < WordHalf
      PROVE  /\ OnSale(doc'[call[d].id])
             /\ pc'[d] = "done" => OnSale(view[call[d].id])
  <2>1. call[d].id \in Product /\ call[d].n \in Nat
    BY <1>1 DEF TypeOK, Arguments
  <2>2. CASE d = c
    <3>1. Int32(call[c].n) = call[c].n
      BY <1>6, <2>1, <2>2, Int32Fixed
    <3>2. doc'[p].stock >= 0
      BY <1>3, <1>6, <2>1, <2>2, <3>1
    <3>3. doc'[p].found /\ ~doc'[p].out_of_stock
      BY <1>3, <1>6, <2>2, Zenon
    <3>4. OnSale(doc'[p])
      BY <3>2, <3>3, Zenon DEF OnSale
    <3>5. pc'[c] # "done"
      BY <1>6, <2>2
    <3> QED
      BY <1>2, <2>2, <3>4, <3>5
  <2>3. CASE d # c
    <3>1. call[d].id # p /\ last[call[d].id] = d
      BY <1>4, <1>6, <2>1, <2>3
    <3>2. /\ OnSale(doc[call[d].id])
          /\ pc[d] = "done" => OnSale(view[call[d].id])
      BY <1>6, <3>1 DEF RestockInv
    <3> QED
      BY <1>3, <2>1, <2>3, <3>1, <3>2, Zenon
  <2> QED
    BY <2>2, <2>3
<1> QED
  BY <1>5, <1>6 DEF RestockInv

\* Calls that move without writing finish nothing.
LEMMA MoveKeepsRestocked ==
  ASSUME RestockInv, UNCHANGED <<doc, view, call, last, deducted>>,
         \A d \in Call : pc'[d] = "done" => pc[d] = "done"
  PROVE  RestockInv'
  BY Zenon DEF RestockInv

\* A refresh copies what the documents hold, the counters among it.
LEMMA RefreshKeepsRestocked ==
  ASSUME CatalogInv, RestockInv, view' = doc, UNCHANGED <<doc, call, last, deducted>>
  PROVE  RestockInv'
<1>1. \A x \in Product : doc[x].sold = Int32(deducted[x]) /\ deducted[x] \in Nat
  BY DEF CatalogInv, CounterInv, SoldCounts, TypeOK
<1>2. \A x \in Product : deducted'[x] < WordHalf => view'[x].sold >= 0
  BY <1>1, Int32Fixed
<1>3. \A c \in Call : last'[call'[c].id] = c /\ call'[c].op = "restock"
                       /\ call'[c].n < WordHalf => OnSale(doc[call[c].id])
  BY DEF RestockInv
<1> QED
  BY <1>2, <1>3, Zenon DEF RestockInv

\* A call not yet submitted is no product's last writer.
LEMMA SubmitKeepsRestocked ==
  ASSUME CatalogInv, RestockInv, NEW c \in Call, Submit(c)
  PROVE  RestockInv'
<1>1. TypeOK /\ WriterInv
  BY DEF CatalogInv
<1>2. pc[c] = "idle" /\ UNCHANGED <<doc, view, last, deducted>>
  BY <1>1 DEF Submit, history
<1>3. /\ \A d \in Call \ {c} : pc'[d] = pc[d] /\ call'[d] = call[d]
      /\ call'[c].id \in Product
  BY <1>1 DEF Submit, TypeOK
<1>4. \A x \in Product : last[x] # c
  BY <1>1, <1>2 DEF WriterInv
<1>5. \A x \in Product : deducted'[x] < WordHalf => view'[x].sold >= 0
  BY <1>2 DEF RestockInv
<1>6. ASSUME NEW d \in Call, last'[call'[d].id] = d, call'[d].op = "restock",
             call'[d].n < WordHalf
      PROVE  /\ OnSale(doc'[call'[d].id])
             /\ pc'[d] = "done" => OnSale(view'[call'[d].id])
  <2>1. d # c
    BY <1>2, <1>3, <1>4, <1>6
  <2>2. call'[d] = call[d] /\ pc'[d] = pc[d]
    BY <1>3, <2>1
  <2> QED
    BY <1>2, <1>6, <2>2, Zenon DEF RestockInv
<1> QED
  BY <1>5, <1>6 DEF RestockInv

\* A deduction takes no more than there is, and leaves the search copy alone.
LEMMA DeductKeepsRestocked ==
  ASSUME CatalogInv, RestockInv, NEW p \in Product, NEW q \in Quantities, Deduct(p, q)
  PROVE  RestockInv'
<1>1. TypeOK
  BY DEF CatalogInv
<1>2. DeductStock(p, q) /\ DocTypeOK /\ q \in Nat /\ q \in Int /\ doc[p].stock \in Int
  <2>1. DeductStock(p, q) /\ DocTypeOK /\ q \in Nat /\ q \in Int
    BY <1>1, DeductWrites
  <2>2. doc[p].stock \in Int
    BY <1>1 DEF TypeOK
  <2> QED
    BY <2>1, <2>2
<1>3. /\ \A x \in Product \ {p} : doc'[x] = doc[x]
      /\ doc'[p].found = doc[p].found
      /\ doc'[p].stock = doc[p].stock - q
      /\ doc'[p].out_of_stock = doc[p].out_of_stock
  BY <1>2, DeductFields
<1>4. doc'[p].stock >= 0
  BY <1>2, <1>3 DEF DeductStock, CanDeduct
<1>5. UNCHANGED <<pc, call, view, last>>
  BY DEF Deduct, handler
<1>6. ASSUME NEW x \in Product, deducted'[x] < WordHalf
      PROVE  view'[x].sold >= 0
  <2>1. deducted[x] \in Nat /\ deducted'[x] >= deducted[x]
    BY <1>1, <1>2 DEF Deduct, TypeOK
  <2>2. deducted[x] < WordHalf
    BY <1>1, <1>2, <1>6, <2>1 DEF Deduct, TypeOK
  <2> QED
    BY <1>5, <2>2 DEF RestockInv
<1>7. \A x \in Product : OnSale(doc[x]) => OnSale(doc'[x])
  <2> SUFFICES ASSUME NEW x \in Product, OnSale(doc[x])
               PROVE  OnSale(doc'[x])
    OBVIOUS
  <2>1. CASE x = p
    BY <1>3, <1>4, <2>1, Zenon DEF OnSale
  <2>2. CASE x # p
    BY <1>3, <2>2, Zenon
  <2> QED
    BY <2>1, <2>2
<1>8. \A c \in Call : call[c].id \in Product
  BY <1>1 DEF TypeOK, Arguments
<1> QED
  BY <1>5, <1>6, <1>7, <1>8, Zenon DEF RestockInv

\* Every step keeps what restocks left.
LEMMA NextRestocked == CatalogInv /\ RestockInv /\ [Next]_vars => RestockInv'
<1> SUFFICES ASSUME CatalogInv, RestockInv, [Next]_vars
             PROVE  RestockInv'
  OBVIOUS
<1>0. TypeOK /\ pc \in [Call -> PC]
  BY DEF CatalogInv, TypeOK
<1>1. ASSUME NEW c \in Call, Submit(c)
      PROVE  RestockInv'
  BY <1>1, SubmitKeepsRestocked
<1>2. ASSUME NEW c \in Call, Write(c)
      PROVE  RestockInv'
  <2>1. Effect(c) /\ UNCHANGED <<call, view, deducted>>
    BY <1>2 DEF Write
  <2>2. /\ pc'[c] # "done" \/ call[c].op = "create"
        /\ \A d \in Call \ {c} : pc'[d] = pc[d]
    BY <1>0, <1>2 DEF Write
  <2> QED
    BY <2>1, <2>2, EffectKeepsRestocked
<1>3. ASSUME NEW c \in Call, LateWrite(c)
      PROVE  RestockInv'
  <2>1. Effect(c) /\ UNCHANGED <<pc, call, view, deducted>>
    BY <1>3 DEF LateWrite
  <2>2. pc'[c] # "done"
    BY <1>3, <2>1 DEF LateWrite, CatalogInv, WriterInv
  <2> QED
    BY <2>1, <2>2, EffectKeepsRestocked
<1>4. ASSUME (\E c \in Call : Refreshed(c)) \/ Refresh
      PROVE  RestockInv'
  <2>1. view' = doc /\ UNCHANGED <<doc, call, last, deducted>>
    BY <1>4 DEF Refreshed, Refresh, RefreshIndex, handler, history
  <2> QED
    BY <2>1, RefreshKeepsRestocked
<1>5. ASSUME NEW p \in Product, NEW q \in Quantities, Deduct(p, q)
      PROVE  RestockInv'
  BY <1>5, DeductKeepsRestocked
<1>6. ASSUME \/ \E c \in Call : CheckExists(c) \/ CallFails(c) \/ Respond(c)
             \/ Crash
             \/ \E p \in Product : Embed(p) \/ EmbedFails(p)
             \/ UNCHANGED vars
      PROVE  RestockInv'
  <2>1. UNCHANGED <<doc, view, call, last, deducted>>
    BY <1>6 DEF CheckExists, CallFails, Respond, Crash, Embed, EmbedFails, vars, handler, history
  <2>2. \A d \in Call : pc'[d] = "done" => pc[d] = "done"
    BY <1>0, <1>6 DEF CheckExists, CallFails, Respond, Crash, Embed, EmbedFails, vars, handler
  <2> QED
    BY <2>1, <2>2, MoveKeepsRestocked
<1> QED
  BY <1>1, <1>2, <1>3, <1>4, <1>5, <1>6 DEF Next

\* Every step keeps the vectors, and a product without one on the record.
LEMMA NextVectors == CatalogInv /\ VectorInv /\ [Next]_vars => VectorInv'
<1> SUFFICES ASSUME CatalogInv, VectorInv, [Next]_vars
             PROVE  VectorInv'
  OBVIOUS
<1>0. TypeOK
  BY DEF CatalogInv
<1>1. ASSUME NEW c \in Call, Effect(c), embedding \cup missed \subseteq embedding' \cup missed',
             call[c].op = "create" => call[c].id \in embedding' \cup missed'
      PROVE  VectorInv'
  <2>1. PICK p \in Product : p = call[c].id
    BY <1>0 DEF TypeOK, Arguments
  <2>2. \A x \in Product \ {p} : doc'[x] = doc[x]
    BY <1>0, <1>1, <2>1, EffectFields, ZenonT(40)
  <2>3. vectors' = vectors
    BY <1>1 DEF Effect
  <2>4. call[c].op # "create" => doc[p].found
    BY <1>1, <2>1 DEF Effect, SoftDelete, Restock
  <2> SUFFICES ASSUME NEW x \in Product, doc'[x].found
               PROVE  x \in vectors \cup embedding' \cup missed'
    BY <2>3 DEF VectorInv
  <2>5. CASE x = p
    BY <1>1, <2>1, <2>4, <2>5 DEF VectorInv
  <2>6. CASE x # p
    <3>1. doc[x].found
      BY <2>2, <2>6, Zenon
    <3> QED
      BY <1>1, <3>1 DEF VectorInv
  <2> QED
    BY <2>5, <2>6
<1>2. ASSUME NEW c \in Call, Write(c)
      PROVE  VectorInv'
  <2>1. Effect(c) /\ missed' = missed
    BY <1>2 DEF Write
  <2>2. /\ embedding \subseteq embedding'
        /\ call[c].op = "create" => call[c].id \in embedding'
    BY <1>2 DEF Write
  <2> QED
    BY <1>1, <2>1, <2>2
<1>3. ASSUME NEW c \in Call, LateWrite(c)
      PROVE  VectorInv'
  <2>1. Effect(c) /\ embedding' = embedding
    BY <1>3 DEF LateWrite
  <2>2. /\ missed \subseteq missed'
        /\ call[c].op = "create" => call[c].id \in missed'
    BY <1>3 DEF LateWrite
  <2> QED
    BY <1>1, <2>1, <2>2
<1>4. ASSUME NEW p \in Product, NEW q \in Quantities, Deduct(p, q)
      PROVE  VectorInv'
  <2>1. DeductStock(p, q) /\ DocTypeOK /\ q \in Nat /\ q \in Int
    BY <1>0, <1>4, DeductWrites
  <2>2. /\ \A x \in Product \ {p} : doc'[x] = doc[x]
        /\ doc'[p].found = doc[p].found
    BY <2>1, DeductFields
  <2>3. \A x \in Product : doc'[x].found = doc[x].found
    BY <2>2, Zenon
  <2>4. UNCHANGED <<vectors, embedding, missed>>
    BY <1>4 DEF Deduct, aiSearch
  <2> QED
    BY <2>3, <2>4, Zenon DEF VectorInv
<1>5. ASSUME doc' = doc,
             vectors \cup embedding \cup missed \subseteq vectors' \cup embedding' \cup missed'
      PROVE  VectorInv'
  BY <1>5 DEF VectorInv
<1>6. ASSUME NEW p \in Product, Embed(p) \/ EmbedFails(p)
      PROVE  VectorInv'
  BY <1>5, <1>6 DEF Embed, EmbedFails
<1>7. ASSUME (\E c \in Call : Refreshed(c)) \/ Refresh \/ Crash \/ UNCHANGED vars
      PROVE  VectorInv'
  BY <1>5, <1>7 DEF Refreshed, Refresh, Crash, vars, aiSearch
<1>8. ASSUME NEW c \in Call, Submit(c) \/ CheckExists(c) \/ CallFails(c) \/ Respond(c)
      PROVE  VectorInv'
  <2>1. UNCHANGED <<doc, embedding, aiSearch>>
    BY <1>8 DEF Submit, CheckExists, CallFails, Respond
  <2> QED
    BY <1>5, <2>1 DEF aiSearch
<1> QED
  BY <1>2, <1>3, <1>4, <1>6, <1>7, <1>8 DEF Next

\* What restocks leave and what the vectors are hold in every reachable state.
LEMMA RestockInvariant == Spec => []RestockInv
<1>1. Init => RestockInv
  BY InitRestocked
<1>2. CatalogInv /\ RestockInv /\ [Next]_vars => RestockInv'
  BY NextRestocked
<1> QED
  BY <1>1, <1>2, CatalogInvariant, PTL DEF Spec

\* No indexed product without a vector is off the record, in any reachable state.
LEMMA VectorInvariant == Spec => []VectorInv
<1>1. Init => VectorInv
  BY InitRestocked
<1>2. CatalogInv /\ VectorInv /\ [Next]_vars => VectorInv'
  BY NextVectors
<1> QED
  BY <1>1, <1>2, CatalogInvariant, PTL DEF Spec

-----------------------------------------------------------------------------
(* The theorems. *)

\* Once restockProduct has answered without an error, the listings show the
\* product until another call writes it, as long as the amount and the units
\* ever deducted are within the int32 range.
THEOREM RestockedProductsAreListed == Spec => []RestockedIsListed
<1>1. CatalogInv /\ RestockInv => RestockedIsListed
  <2> SUFFICES ASSUME CatalogInv, RestockInv, NEW c \in Call, Stands(c),
                      call[c].op = "restock", call[c].n < WordHalf,
                      deducted[call[c].id] < WordHalf
               PROVE  call[c].id \in Listed
    BY DEF RestockedIsListed
  <2> DEFINE p == call[c].id
  <2>1. p \in Product
    BY DEF CatalogInv, TypeOK, Arguments
  <2>2. pc[c] = "done" /\ last[p] = c
    BY DEF CatalogInv, WriterInv, Stands
  <2>3. OnSale(view[p])
    BY <2>2, Zenon DEF RestockInv
  <2>4. view[p].sold >= 0
    BY <2>1 DEF RestockInv
  <2>5. Readable(view[p])
    BY <2>3, <2>4, Zenon DEF Readable, Decodes, OnSale
  <2> QED
    BY <2>1, <2>5 DEF Listed
<1> QED
  BY <1>1, CatalogInvariant, RestockInvariant, PTL

\* AISuggest fails only because of an indexed product whose embedding is still
\* being computed or was never added, and otherwise finds every product.
THEOREM SemanticSearchIsKept == Spec => []VectorsAreKept
<1>1. VectorInv => VectorsAreKept
  <2> SUFFICES ASSUME VectorInv, view = doc, viewVectors = vectors,
                      ~\E p \in embedding \cup missed : doc[p].found
               PROVE  AISuggested = {p \in Product : doc[p].found /\ Decodes(doc[p])}
    BY DEF VectorsAreKept
  <2> DEFINE hits == {p \in Product : view[p].found}
  <2>1. hits \subseteq viewVectors
    BY DEF VectorInv
  <2>2. AISuggested = {p \in hits : Decodes(view[p])}
    BY <2>1 DEF AISuggested
  <2> QED
    BY <2>2
<1> QED
  BY <1>1, VectorInvariant, PTL


\* A product's sold counter is the number of units deducted from it since it
\* was created, wrapped to an int32: no create, delete, restock, embedding,
\* late write or crash of the catalog loses or repeats any of them.
THEOREM SoldCountsDeductions == Spec => []SoldCounts
<1>1. CatalogInv => SoldCounts
  BY DEF CatalogInv, CounterInv
<1> QED
  BY <1>1, CatalogInvariant, PTL

\* Once deleteProduct has answered without an error, no search and no read by
\* id shows the product until another call writes it.
THEOREM DeletedProductsAreHidden == Spec => []DeletedIsHidden
<1>1. CatalogInv => DeletedIsHidden
  <2> SUFFICES ASSUME CatalogInv, NEW c \in Call, Stands(c), call[c].op = "delete"
               PROVE  /\ call[c].id \notin Listed \cup Suggested
                      /\ ~Readable(doc[call[c].id])
    BY DEF DeletedIsHidden
  <2> DEFINE p == call[c].id
  <2>1. doc[p].out_of_stock /\ view[p].out_of_stock
    BY Zenon DEF CatalogInv, WriterInv, Stands
  <2>2. ~Readable(doc[p]) /\ ~Readable(view[p])
    BY <2>1, Zenon DEF Readable
  <2>3. p \notin Listed
    BY <2>2 DEF Listed
  <2>4. p \notin Suggested
    <3>1. Suggested \subseteq {x \in Product : view[x].found /\ ~view[x].out_of_stock}
      BY DEF Suggested
    <3> QED
      BY <2>1, <3>1, Zenon
  <2> QED
    BY <2>2, <2>3, <2>4
<1> QED
  BY <1>1, CatalogInvariant, PTL

\* No step sells a unit of a product while its document is flagged.
LEMMA FlaggedKeepsSold ==
  ASSUME CatalogInv, [Next]_vars, NEW p \in Product, doc[p].out_of_stock
  PROVE  doc'[p].sold = doc[p].sold
<1>0. doc[p].found /\ doc[p].stock = 0
  BY Zenon DEF CatalogInv, FlaggedInv
<1>3. TypeOK
  BY DEF CatalogInv
<1>1. ASSUME NEW c \in Call, Effect(c)
      PROVE  doc'[p].sold = doc[p].sold
  <2>1. PICK x \in Product : x = call[c].id
    BY <1>3 DEF TypeOK, Arguments
  <2>2. /\ \A y \in Product \ {x} : doc'[y] = doc[y]
        /\ doc'[x].sold = IF call[c].op = "create" THEN 0 ELSE doc[x].sold
        /\ call[c].op = "create" => ~doc[x].found
    BY <1>1, <1>3, <2>1, EffectFields, ZenonT(40)
  <2>3. CASE x = p
    <3>1. call[c].op # "create"
      BY <1>0, <2>2, <2>3
    <3> QED
      BY <2>2, <2>3, <3>1
  <2> QED
    BY <2>2, <2>3
<1>2. ASSUME NEW x \in Product, NEW q \in Quantities, Deduct(x, q)
      PROVE  doc'[p].sold = doc[p].sold
  <2>1. DeductStock(x, q) /\ DocTypeOK /\ q \in Nat /\ q \in Int
    BY <1>3, <1>2, DeductWrites
  <2>2. /\ \A y \in Product \ {x} : doc'[y] = doc[y]
        /\ doc'[x].sold = Int32(doc[x].sold + q)
    BY <2>1, DeductFields
  <2>3. CASE x = p
    <3>1. q = 0 /\ doc[p].sold \in -WordHalf..(WordHalf - 1)
      BY <1>3, <1>0, <2>1, <2>3 DEF DeductStock, CanDeduct, TypeOK
    <3> QED
      BY <2>2, <2>3, <3>1, Int32Fixed
  <2> QED
    BY <2>2, <2>3
<1> QED
  BY <1>1, <1>2
  DEF Next, vars, Submit, CheckExists, Write, Refreshed, CallFails, LateWrite,
      Respond, Crash, Embed, EmbedFails, Refresh

\* However long ago the order service looked at the product, it sells no unit
\* of it while it is deleted.
THEOREM DeletedProductsAreNotSold == Spec => NothingSoldWhileDeleted
<1>1. CatalogInv /\ [Next]_vars =>
        [\A p \in Product : doc[p].out_of_stock => doc'[p].sold = doc[p].sold]_vars
  BY FlaggedKeepsSold
<1> QED
  BY <1>1, CatalogInvariant, PTL DEF Spec, NothingSoldWhileDeleted
=============================================================================
