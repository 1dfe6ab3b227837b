--------------------------- MODULE OrderSagaProofs ---------------------------
(***************************************************************************)
(* Theorems about OrderSaga, for every set of requests and products, every *)
(* set of carts and every set of stock levels.                             *)
(***************************************************************************)
EXTENDS OrderSaga, ProductStoreProofs, Sums, SequenceTheorems

USE RequestAssumption, CartsAssumption, StockLevelsAssumption, MaxAdminAssumption,
    WordHalfAssumption

-----------------------------------------------------------------------------
(* Sequences, and what the lookup returns. *)

\* A function on 1..n is a sequence.
LEMMA FunctionIsSeq == \A S, n, g : n \in Nat /\ g \in [1..n -> S] => g \in Seq(S)
  BY SeqDef

\* The positions and the elements of a sequence.
LEMMA SeqElement ==
  \A S, s : s \in Seq(S) => /\ Len(s) \in Nat
                            /\ DOMAIN s = 1..Len(s)
                            /\ \A i \in DOMAIN s : s[i] \in S
  BY SeqDef

\* The multi-get answers with products and natural numbers: a document with a
\* negative stock does not decode and is skipped.
LEMMA MultiGetType ==
  ASSUME DocTypeOK, NEW ids \in Seq(Product), NEW found \in MultiGet(ids)
  PROVE  found \in Seq([id : Product, stock : Nat])
<1> DEFINE hits == {i \in DOMAIN ids : Readable(doc[ids[i]])}
<1>1. Cardinality(hits) \in Nat
  <2>1. IsFiniteSet(1..Len(ids))
    BY FS_Interval
  <2> QED
    BY <2>1, FS_Subset, FS_CardinalityType
<1>2. PICK f \in InOrder(hits) :
         found = [k \in DOMAIN f |-> [id |-> ids[f[k]], stock |-> doc[ids[f[k]]].stock]]
  BY DEF MultiGet
<1>3. f \in [1..Cardinality(hits) -> hits]
  BY <1>2 DEF InOrder
<1>4. \A k \in 1..Cardinality(hits) : ids[f[k]] \in Product /\ doc[ids[f[k]]].stock \in Nat
  <2> SUFFICES ASSUME NEW i \in hits
               PROVE  ids[i] \in Product /\ doc[ids[i]].stock \in Nat
    BY <1>3
  <2>1. ids[i] \in Product /\ Readable(doc[ids[i]])
    BY SeqElement
  <2> QED
    BY <2>1 DEF DocTypeOK, Document, Readable, Decodes
<1>5. found \in [1..Cardinality(hits) -> [id : Product, stock : Nat]]
  BY <1>2, <1>3, <1>4
<1> HIDE DEF hits
<1> QED
  BY <1>1, <1>5, FunctionIsSeq

-----------------------------------------------------------------------------
(* The lookup has one answer: MultiGet, a set of answers, has one element.  *)

\* A finite set of numbers, unless it is empty, has a last one.
LEMMA LastOne ==
  ASSUME NEW S \in SUBSET Nat, IsFiniteSet(S), S # {}
  PROVE  \E m \in S : \A x \in S : x <= m
<1> DEFINE Good == {T \in SUBSET S : T = {} \/ \E m \in T : \A x \in T : x <= m}
<1>1. ASSUME NEW T \in SUBSET S, \A U \in SUBSET T : U # T => U \in Good
      PROVE  T \in Good
  <2>1. CASE T = {}
    BY <2>1
  <2>2. CASE T # {}
    <3>1. PICK y \in T : TRUE
      BY <2>2
    <3>2. PICK U \in SUBSET T : U = T \ {y}
      OBVIOUS
    <3>3. U \in Good
      BY <1>1, <3>1, <3>2
    <3>4. CASE U = {}
      <4>1. \A x \in T : x <= y
        BY <3>1, <3>2, <3>4
      <4> QED
        BY <3>1, <4>1
    <3>5. CASE U # {}
      <4>1. PICK m \in U : \A x \in U : x <= m
        BY <3>3, <3>5
      <4>2. PICK k \in T : k >= m /\ k >= y
        BY <3>1, <3>2, <4>1
      <4>3. \A x \in T : x <= k
        BY <3>1, <3>2, <4>1, <4>2
      <4> QED
        BY <4>3
    <3> QED
      BY <3>4, <3>5
  <2> QED
    BY <2>1, <2>2
<1> HIDE DEF Good
<1>2. S \in Good
  BY <1>1, SubsetInduction
<1> QED
  BY <1>2 DEF Good

\* Whoever lists a set in order lists all of it, nothing twice.
LEMMA InOrderIsAll ==
  ASSUME NEW S \in SUBSET Nat, IsFiniteSet(S), NEW f \in InOrder(S)
  PROVE  /\ Cardinality(S) \in Nat
         /\ f \in [1..Cardinality(S) -> S]
         /\ \A a, b \in 1..Cardinality(S) : f[a] < f[b] <=> a < b
         /\ \A t \in S : \E k \in 1..Cardinality(S) : f[k] = t
<1>1. PICK n \in Nat : n = Cardinality(S)
  BY FS_CardinalityType
<1>2. /\ f \in [1..n -> S]
      /\ \A a, b \in 1..n : a < b => f[a] < f[b]
  BY <1>1 DEF InOrder
<1>3. \A a, b \in 1..n : f[a] < f[b] <=> a < b
  <2> SUFFICES ASSUME NEW a \in 1..n, NEW b \in 1..n, f[a] < f[b], ~(a < b)
               PROVE  FALSE
    BY <1>2
  <2>1. f[a] \in Nat /\ f[b] \in Nat
    BY <1>2
  <2>2. a = b \/ b < a
    OBVIOUS
  <2> QED
    BY <1>2, <2>1, <2>2
<1>4. ASSUME NEW t \in S, \A k \in 1..n : f[k] # t
      PROVE  FALSE
  <2>1. f \in [1..n -> S \ {t}]
    BY <1>2, <1>4
  <2>2. IsFiniteSet(S \ {t}) /\ Cardinality(S \ {t}) = n - 1
    BY <1>1, FS_RemoveElement
  <2>3. IsFiniteSet(1..n) /\ Cardinality(1..n) = n
    BY FS_Interval
  <2>4. \E a, b \in 1..n : a # b /\ f[a] = f[b]
    <3>1. Cardinality(S \ {t}) < Cardinality(1..n)
      BY <2>2, <2>3
    <3> QED
      BY <2>1, <2>2, <2>3, <3>1, FS_PigeonHole
  <2>5. PICK a \in 1..n, b \in 1..n : a < b /\ f[a] = f[b]
    BY <2>4
  <2>6. f[a] \in Nat
    BY <1>2
  <2>7. f[a] < f[b]
    BY <1>2, <2>5
  <2> QED
    BY <2>5, <2>6, <2>7
<1> QED
  BY <1>1, <1>2, <1>3, <1>4

\* There is no second way to do so.
LEMMA InOrderUnique ==
  ASSUME NEW S \in SUBSET Nat, IsFiniteSet(S), NEW f \in InOrder(S), NEW g \in InOrder(S)
  PROVE  f = g
<1>1. PICK n \in Nat : n = Cardinality(S)
  BY FS_CardinalityType
<1>2. /\ f \in [1..n -> S]
      /\ \A a, b \in 1..n : f[a] < f[b] <=> a < b
      /\ \A t \in S : \E k \in 1..n : f[k] = t
  BY <1>1, InOrderIsAll
<1>3. /\ g \in [1..n -> S]
      /\ \A a, b \in 1..n : g[a] < g[b] <=> a < b
      /\ \A t \in S : \E k \in 1..n : g[k] = t
  BY <1>1, InOrderIsAll
<1> DEFINE differ == {k \in 1..n : f[k] # g[k]}
<1>4. ASSUME differ # {}
      PROVE  FALSE
  <2>1. PICK k \in differ : \A j \in differ : <<j, k>> \notin OpToRel(<, Nat)
    <3>1. differ \subseteq Nat
      BY <1>1
    <3> HIDE DEF differ
    <3> QED
      BY <1>4, <3>1, NatLessThanWellFounded, WFMin
  <2>2. k \in 1..n /\ f[k] # g[k] /\ f[k] \in S /\ g[k] \in S
    BY <1>2, <1>3, <2>1
  <2>3. ASSUME NEW j \in 1..n, j < k
        PROVE  f[j] = g[j]
    <3>1. <<j, k>> \in OpToRel(<, Nat)
      BY <1>1, <2>2, <2>3 DEF OpToRel
    <3> QED
      BY <2>1, <3>1
  <2>4. PICK a \in 1..n : g[a] = f[k]
    BY <1>3, <2>2
  <2>5. PICK b \in 1..n : f[b] = g[k]
    BY <1>2, <2>2
  <2>6. f[k] \in Nat /\ g[k] \in Nat
    BY <2>2
  <2>7. CASE f[k] < g[k]
    <3>1. a < k
      BY <1>3, <2>2, <2>4, <2>7
    <3>2. f[a] = f[k] /\ f[a] < f[k]
      BY <1>2, <2>2, <2>3, <2>4, <3>1
    <3> QED
      BY <2>6, <3>2
  <2>8. CASE g[k] < f[k]
    <3>1. b < k
      BY <1>2, <2>2, <2>5, <2>8
    <3>2. g[b] = g[k] /\ g[b] < g[k]
      BY <1>3, <2>2, <2>3, <2>5, <3>1
    <3> QED
      BY <2>6, <3>2
  <2> QED
    BY <2>2, <2>6, <2>7, <2>8
<1> QED
  BY <1>2, <1>3, <1>4

\* There is one.
LEMMA InOrderExists ==
  ASSUME NEW S \in SUBSET Nat, IsFiniteSet(S)
  PROVE  InOrder(S) # {}
<1> DEFINE Good == {T \in SUBSET S : InOrder(T) # {}}
<1>1. ASSUME NEW T \in SUBSET S, \A U \in SUBSET T : U # T => U \in Good
      PROVE  T \in Good
  <2>0. IsFiniteSet(T) /\ T \in SUBSET Nat
    BY FS_Subset
  <2>1. CASE T = {}
    <3>1. Cardinality(T) = 0
      BY <2>1, FS_EmptySet
    <3>2. [k \in 1..0 |-> 0] \in InOrder(T)
      BY <2>1, <3>1 DEF InOrder
    <3> QED
      BY <3>2
  <2>2. CASE T # {}
    <3>1. PICK m \in T : \A x \in T : x <= m
      BY <2>0, <2>2, LastOne
    <3>2. PICK U \in SUBSET T : U = T \ {m}
      OBVIOUS
    <3>3. PICK n \in Nat : Cardinality(T) = n + 1 /\ Cardinality(U) = n /\ IsFiniteSet(U)
      <4>1. /\ IsFiniteSet(U) /\ Cardinality(U) = Cardinality(T) - 1
        BY <2>0, <3>1, <3>2, FS_RemoveElement
      <4>2. Cardinality(U) \in Nat /\ Cardinality(T) \in Nat
        BY <2>0, <4>1, FS_CardinalityType
      <4> QED
        BY <4>1, <4>2
    <3>4. PICK g \in InOrder(U) : TRUE
      BY <1>1, <3>1, <3>2
    <3>5. /\ g \in [1..n -> U]
          /\ \A a, b \in 1..n : a < b => g[a] < g[b]
      BY <3>3, <3>4 DEF InOrder
    <3>6. PICK f : f = [k \in 1..(n + 1) |-> IF k = n + 1 THEN m ELSE g[k]]
      OBVIOUS
    <3>7. f \in [1..(n + 1) -> T]
      BY <3>2, <3>5, <3>6
    <3>8. ASSUME NEW a \in 1..(n + 1), NEW b \in 1..(n + 1), a < b
          PROVE  f[a] < f[b]
      <4>1. a \in 1..n /\ f[a] = g[a] /\ g[a] \in U
        BY <3>5, <3>6, <3>8
      <4>2. CASE b = n + 1
        <5>1. g[a] \in Nat /\ m \in Nat /\ g[a] <= m /\ g[a] # m
          BY <2>0, <3>1, <3>2, <4>1
        <5> QED
          BY <3>6, <4>1, <4>2, <5>1
      <4>3. CASE b # n + 1
        BY <3>5, <3>6, <3>8, <4>1, <4>3
      <4> QED
        BY <4>2, <4>3
    <3>9. f \in InOrder(T)
      BY <3>3, <3>7, <3>8 DEF InOrder
    <3> QED
      BY <3>9
  <2> QED
    BY <2>1, <2>2
<1> HIDE DEF Good
<1>2. S \in Good
  BY <1>1, SubsetInduction
<1> QED
  BY <1>2 DEF Good

\* The positions of ids whose product is readable.
ReadablePositions(ids) == {i \in DOMAIN ids : Readable(doc[ids[i]])}

\* The catalog answers a lookup in one way, which lists every readable position
\* of the ids once and in order: what a request sees of the store is determined
\* by the moment of the lookup, and the lookup never blocks.
THEOREM LookupHasOneAnswer ==
  ASSUME NEW ids \in Seq(Product)
  PROVE  \E f \in [1..Cardinality(ReadablePositions(ids)) -> ReadablePositions(ids)] :
            /\ MultiGet(ids) = {[k \in DOMAIN f |-> [id |-> ids[f[k]], stock |-> doc[ids[f[k]]].stock]]}
            /\ \A i \in ReadablePositions(ids) : \E k \in DOMAIN f : f[k] = i
            /\ \A a, b \in DOMAIN f : f[a] < f[b] <=> a < b
<1> DEFINE S == ReadablePositions(ids)
<1>1. S \in SUBSET Nat /\ IsFiniteSet(S)
  <2>1. IsFiniteSet(1..Len(ids)) /\ S \subseteq 1..Len(ids)
    BY FS_Interval DEF ReadablePositions
  <2> QED
    BY <2>1, FS_Subset
<1>2. MultiGet(ids) = {[k \in DOMAIN f |-> [id |-> ids[f[k]], stock |-> doc[ids[f[k]]].stock]] : f \in InOrder(S)}
  BY DEF MultiGet, ReadablePositions
<1> HIDE DEF S
<1>3. PICK f : InOrder(S) = {f}
  <2>1. PICK f \in InOrder(S) : TRUE
    BY <1>1, InOrderExists
  <2>2. \A g \in InOrder(S) : g = f
    BY <1>1, InOrderUnique
  <2> QED
    BY <2>2
<1>4. MultiGet(ids) = {[k \in DOMAIN f |-> [id |-> ids[f[k]], stock |-> doc[ids[f[k]]].stock]]}
  BY <1>2, <1>3
<1>5. /\ f \in [1..Cardinality(S) -> S]
      /\ \A a, b \in 1..Cardinality(S) : f[a] < f[b] <=> a < b
      /\ \A t \in S : \E k \in 1..Cardinality(S) : f[k] = t
  BY <1>1, <1>3, InOrderIsAll
<1> QED
  BY <1>4, <1>5 DEF S

-----------------------------------------------------------------------------
(* Type correctness. *)

\* The initial state is well typed.
LEMMA InitType == Init => TypeOK
  BY DEF Init, TypeOK, PC, DocInit, DocTypeOK, Document, Missing

\* What a request asks the catalog for: a product for each of its lines.
LEMMA AskedIds ==
  ASSUME TypeOK, NEW r \in Request
  PROVE  LET ids == [i \in DOMAIN cart[r] |-> cart[r][i].id]
         IN  ids \in Seq(Product) /\ Len(ids) = Len(cart[r])
<1> DEFINE ids == [i \in DOMAIN cart[r] |-> cart[r][i].id]
<1>1. cart[r] \in Seq(Line)
  BY DEF TypeOK
<1>2. Len(cart[r]) \in Nat /\ DOMAIN cart[r] = 1..Len(cart[r])
  BY <1>1, SeqElement
<1>3. \A i \in DOMAIN cart[r] : cart[r][i].id \in Product
  <2>1. \A i \in DOMAIN cart[r] : cart[r][i] \in Line
    BY <1>1, SeqElement
  <2> QED
    BY <2>1 DEF Line
<1>4. ids \in [1..Len(cart[r]) -> Product]
  BY <1>2, <1>3
<1>5. ids \in Seq(Product)
  BY <1>2, <1>4, FunctionIsSeq
<1>6. Len(ids) \in Nat /\ DOMAIN ids = 1..Len(ids)
  BY <1>5, SeqElement
<1>7. DOMAIN ids = 1..Len(cart[r])
  BY <1>2
<1> HIDE DEF ids
<1>8. Len(ids) = Len(cart[r])
  BY <1>2, <1>6, <1>7
<1> QED
  BY <1>5, <1>8 DEF ids

\* The deduction for a line that fits keeps the store and its history typed.
LEMMA TakeUnitsType ==
  ASSUME TypeOK, NEW r \in Request, NEW j \in Fitting(r), TakeUnits(r, j)
  PROVE  DocTypeOK' /\ taken' \in [Request -> [Product -> Nat]]
<1>1. cart[r][j] \in Line
  BY SeqElement DEF TypeOK, Fitting
<1>2. DocTypeOK'
  <2>1. DeductStock(cart[r][j].id, cart[r][j].qty)
    BY DEF TakeUnits
  <2>2. cart[r][j].id \in Product /\ cart[r][j].qty \in Int /\ DocTypeOK
    BY <1>1 DEF TypeOK, Line
  <2> QED
    BY <2>1, <2>2, StoreType
<1> QED
  BY <1>1, <1>2 DEF TypeOK, TakeUnits, Line

\* The transaction keeps the two tables typed.
LEMMA InsertOrderType ==
  ASSUME TypeOK, NEW r \in Request, InsertOrder(r)
  PROVE  /\ placed' \subseteq Request
         /\ rows' \subseteq [order : Request, id : Product, qty : Nat \ {0}]
<1>1. \A i \in DOMAIN lines[r] : lines[r][i] \in OrderLine
  BY SeqElement DEF TypeOK
<1> QED
  BY <1>1 DEF TypeOK, InsertOrder, OrderLine

\* Every step keeps the state well typed, one action at a time.
LEMMA NextType == TypeOK /\ [Next]_vars => TypeOK'
<1> SUFFICES ASSUME TypeOK, [Next]_vars
             PROVE  TypeOK'
  OBVIOUS
<1> USE DEF PC, handler, tables, events, store
<1>1. ASSUME NEW r \in Request, Submit(r)
      PROVE  TypeOK'
  BY <1>1 DEF TypeOK, Submit, DocTypeOK
<1>2. ASSUME NEW r \in Request, AccountFound(r)
      PROVE  TypeOK'
  BY <1>2 DEF TypeOK, AccountFound, DocTypeOK
<1>3. ASSUME NEW r \in Request, RefuseEmptyCart(r)
      PROVE  TypeOK'
  BY <1>3 DEF TypeOK, RefuseEmptyCart, DocTypeOK
<1>4. ASSUME NEW r \in Request, Lookup(r)
      PROVE  TypeOK'
  <2> DEFINE ids == [i \in DOMAIN cart[r] |-> cart[r][i].id]
  <2>1. ids \in Seq(Product)
    BY AskedIds
  <2>2. PICK found \in MultiGet(ids) : snap' = [snap EXCEPT ![r] = found]
    BY <1>4 DEF Lookup
  <2>3. found \in Seq([id : Product, stock : Nat])
    BY <2>1, MultiGetType DEF TypeOK
  <2> QED
    BY <1>4, <2>2, <2>3 DEF TypeOK, Lookup, DocTypeOK
<1>5. ASSUME NEW r \in Request, SkipProduct(r)
      PROVE  TypeOK'
  <2>1. idx' \in [Request -> Nat \ {0}]
    BY <1>5 DEF TypeOK, SkipProduct
  <2> QED
    BY <1>5, <2>1 DEF TypeOK, SkipProduct, DocTypeOK
<1>6. ASSUME NEW r \in Request, DeductLine(r)
      PROVE  TypeOK'
  <2>1. PICK j \in Fitting(r) :
           /\ TakeUnits(r, j)
           /\ lines' = IF cart[r][j].qty = 0 THEN lines
                       ELSE [lines EXCEPT ![r] = Append(@, cart[r][j])]
    BY <1>6 DEF DeductLine
  <2>2. DocTypeOK' /\ taken' \in [Request -> [Product -> Nat]]
    BY <2>1, TakeUnitsType
  <2>3. cart[r][j] \in Line
    BY SeqElement DEF TypeOK, Fitting
  <2>4. lines' \in [Request -> Seq(OrderLine)]
    <3>1. CASE cart[r][j].qty = 0
      BY <2>1, <3>1 DEF TypeOK
    <3>2. CASE cart[r][j].qty # 0
      <4>1. cart[r][j] \in OrderLine
        BY <2>3, <3>2 DEF Line, OrderLine
      <4>2. Append(lines[r], cart[r][j]) \in Seq(OrderLine)
        BY <4>1 DEF TypeOK
      <4> QED
        BY <2>1, <3>2, <4>2 DEF TypeOK
    <3> QED
      BY <3>1, <3>2
  <2>5. idx' \in [Request -> Nat \ {0}]
    BY <1>6 DEF TypeOK, DeductLine
  <2> QED
    BY <1>6, <2>2, <2>4, <2>5 DEF TypeOK, DeductLine
<1>7. ASSUME NEW r \in Request, CreateOrder(r)
      PROVE  TypeOK'
  BY <1>7, InsertOrderType DEF TypeOK, CreateOrder, DocTypeOK
<1>8. ASSUME NEW r \in Request, PublishEmail(r)
      PROVE  TypeOK'
  BY <1>8 DEF TypeOK, PublishEmail, DocTypeOK
<1>9. ASSUME NEW r \in Request, PublishFails(r)
      PROVE  TypeOK'
  BY <1>9 DEF TypeOK, PublishFails, DocTypeOK
<1>10. ASSUME NEW r \in Request, CallFails(r)
       PROVE  TypeOK'
  BY <1>10 DEF TypeOK, CallFails, Pending, DocTypeOK
<1>11. ASSUME NEW r \in Request, LateDeduction(r)
       PROVE  TypeOK'
  <2>1. DocTypeOK' /\ taken' \in [Request -> [Product -> Nat]]
    BY <1>11, TakeUnitsType DEF LateDeduction
  <2> QED
    BY <1>11, <2>1 DEF TypeOK, LateDeduction
<1>12. ASSUME NEW r \in Request, LateCommit(r)
       PROVE  TypeOK'
  BY <1>12, InsertOrderType DEF TypeOK, LateCommit, DocTypeOK
<1>13. ASSUME NEW r \in Request, Respond(r)
       PROVE  TypeOK'
  BY <1>13 DEF TypeOK, Respond, DocTypeOK
<1>14. ASSUME NEW r \in Request, Timeout(r)
       PROVE  TypeOK'
  BY <1>14 DEF TypeOK, Timeout, DocTypeOK
<1>15. CASE Crash
  <2>1. pc' \in [Request -> PC]
    BY <1>15 DEF TypeOK, Crash
  <2>2. late' \in [Request -> {"none", "deduction", "commit"}]
    <3>1. \A r \in Request : Pending(r) \in {"none", "deduction", "commit"}
      BY DEF Pending
    <3> QED
      BY <1>15, <3>1 DEF TypeOK, Crash
  <2>3. answer' \in [Request -> {"none", "ok", "error"}]
    BY <1>15 DEF TypeOK, Crash
  <2>4. /\ tracked' = {}
        /\ UNCHANGED <<cart, snap, idx, lines, placed, rows, mails, doc, taken, adminOps>>
    BY <1>15 DEF Crash
  <2>5. DocTypeOK'
    BY <2>4 DEF TypeOK, DocTypeOK
  <2>6. /\ tracked' \subseteq Request
        /\ UNCHANGED <<cart, snap, idx, lines, placed, rows, mails, taken, adminOps>>
    BY <2>4
  <2> QED
    BY <2>1, <2>2, <2>3, <2>5, <2>6 DEF TypeOK
<1>16. ASSUME NEW p \in Product, Admin(p)
       PROVE  TypeOK'
  <2>1. DocTypeOK'
    BY <1>16, StoreType DEF Admin, TypeOK
  <2>2. adminOps' \in 0..MaxAdmin
    BY <1>16 DEF TypeOK, Admin
  <2>3. UNCHANGED <<handler, answer, tables, events, taken>>
    BY <1>16 DEF Admin
  <2> QED
    BY <2>1, <2>2, <2>3 DEF TypeOK
<1>17. CASE UNCHANGED vars
  BY <1>17 DEF TypeOK, vars, DocTypeOK
<1> QED
  BY <1>1, <1>2, <1>3, <1>4, <1>5, <1>6, <1>7, <1>8, <1>9, <1>10, <1>11, <1>12,
     <1>13, <1>14, <1>15, <1>16, <1>17 DEF Next, HandlerStep, LateStep

\* PostOrder keeps every variable in its type: no line of an order has quantity
\* zero and no snapshot a negative stock, whatever the administrator writes.
THEOREM TypeCorrect == Spec => []TypeOK
  BY InitType, NextType, PTL DEF Spec

-----------------------------------------------------------------------------
(* The inductive invariant.  OrderIsDeducted is not inductive: that a commit *)
(* will store what was deducted has to be known before the commit, line by   *)
(* line, and that a late deduction cannot hit a placed order.                *)

\* The request may still have its order stored.
Placeable(r) ==
    pc[r] \in {"idle", "account", "lookup", "merge"} \/ late[r] = "commit"

\* The primary key admits the request's lines.
DistinctLines(r) ==
    \A i, k \in DOMAIN lines[r] : lines[r][i].id = lines[r][k].id => i = k

\* Every unit deducted is on a line, and a product's only line tells how many.
LinesAreTaken(r) ==
    /\ \A p \in Product : taken[r][p] # 0 =>
          \E i \in DOMAIN lines[r] : lines[r][i].id = p
    /\ DistinctLines(r) =>
          \A i \in DOMAIN lines[r] : lines[r][i].qty = taken[r][lines[r][i].id]

MergeInv == \A r \in Request : Placeable(r) => LinesAreTaken(r)

\* Where PostOrder stands tells whether the order is stored, and what it may
\* have announced.
ControlInv ==
    \A r \in Request :
        /\ r \in placed => ~Placeable(r) /\ late[r] = "none"
        /\ pc[r] \in {"publish", "done"} => r \in placed
        /\ late[r] # "none" => pc[r] = "failed"
        /\ pc[r] = "done" => r \in mails
        /\ r \in mails \cup tracked => r \in placed
        /\ answer[r] = "ok" => pc[r] = "done"

\* No row belongs to an order that is not stored.
RowsInv == \A row \in rows : row.order \in placed

SagaInv == TypeOK /\ ControlInv /\ MergeInv /\ RowsInv /\ OrderIsDeducted

\* The initial state satisfies the invariant.
LEMMA InitSaga == Init => SagaInv
<1> SUFFICES ASSUME Init
             PROVE  SagaInv
  OBVIOUS
<1>1. TypeOK
  BY InitType
<1>2. ControlInv /\ RowsInv /\ OrderIsDeducted
  BY DEF Init, ControlInv, RowsInv, OrderIsDeducted
<1>3. MergeInv
  BY DEF Init, MergeInv, LinesAreTaken
<1> QED
  BY <1>1, <1>2, <1>3 DEF SagaInv

\* A step that leaves lines, tables and deductions alone, and makes no request
\* placeable, keeps what the invariant says of them.
LEMMA QuietStep ==
  ASSUME SagaInv, UNCHANGED <<lines, placed, rows, taken>>,
         \A r \in Request : Placeable(r)' => Placeable(r)
  PROVE  MergeInv' /\ RowsInv' /\ OrderIsDeducted'
<1>1. MergeInv'
  BY DEF SagaInv, MergeInv, LinesAreTaken, DistinctLines
<1>2. RowsInv' /\ OrderIsDeducted'
  BY DEF SagaInv, RowsInv, OrderIsDeducted, RowsOf
<1> QED
  BY <1>1, <1>2

\* A deduction for a request that is not placed leaves the orders as they are.
LEMMA DeductionKeepsOrders ==
  ASSUME SagaInv, NEW r \in Request, r \notin placed, NEW j \in Fitting(r),
         TakeUnits(r, j), UNCHANGED <<placed, rows>>
  PROVE  /\ RowsInv' /\ OrderIsDeducted'
         /\ \A s \in Request : s # r => taken'[s] = taken[s]
<1>1. \A s \in Request : s # r => taken'[s] = taken[s]
  BY DEF TakeUnits, SagaInv, TypeOK
<1>2. \A s \in placed : s \in Request /\ s # r
  BY DEF SagaInv, TypeOK
<1>3. OrderIsDeducted'
  BY <1>1, <1>2 DEF SagaInv, OrderIsDeducted, RowsOf
<1> QED
  BY <1>1, <1>3 DEF SagaInv, RowsInv

\* The transaction stores what was deducted: one row for each product of which
\* units were taken.
LEMMA InsertKeepsOrders ==
  ASSUME SagaInv, NEW r \in Request, Placeable(r), InsertOrder(r),
         UNCHANGED taken
  PROVE  RowsInv' /\ OrderIsDeducted' /\ r \notin placed
<1>1. r \notin placed
  BY DEF SagaInv, ControlInv
<1>2. LinesAreTaken(r)
  BY DEF SagaInv, MergeInv
<1> DEFINE new == {[order |-> r, id |-> lines[r][i].id, qty |-> lines[r][i].qty] :
                      i \in DOMAIN lines[r]}
<1>3. rows' = rows \cup new /\ placed' = placed \cup {r}
  BY DEF InsertOrder
<1>4. \A i \in DOMAIN lines[r] : lines[r][i] \in OrderLine
  BY SeqElement DEF SagaInv, TypeOK
<1>5. \A i \in DOMAIN lines[r] :
         /\ lines[r][i].id \in Product
         /\ lines[r][i].qty = taken[r][lines[r][i].id]
         /\ lines[r][i].qty > 0
  BY <1>2, <1>4 DEF InsertOrder, LinesAreTaken, DistinctLines, OrderLine
<1>6. new = {[order |-> r, id |-> p, qty |-> taken[r][p]] :
                p \in {q \in Product : taken[r][q] > 0}}
  <2>1. ASSUME NEW i \in DOMAIN lines[r]
        PROVE  \E p \in {q \in Product : taken[r][q] > 0} :
                  [order |-> r, id |-> lines[r][i].id, qty |-> lines[r][i].qty]
                     = [order |-> r, id |-> p, qty |-> taken[r][p]]
    BY <1>5
  <2>2. ASSUME NEW p \in Product, taken[r][p] > 0
        PROVE  \E i \in DOMAIN lines[r] :
                  [order |-> r, id |-> lines[r][i].id, qty |-> lines[r][i].qty]
                     = [order |-> r, id |-> p, qty |-> taken[r][p]]
    <3>1. PICK i \in DOMAIN lines[r] : lines[r][i].id = p
      BY <1>2, <2>2 DEF LinesAreTaken
    <3> QED
      BY <1>5, <3>1
  <2> DEFINE taking == {[order |-> r, id |-> p, qty |-> taken[r][p]] :
                           p \in {q \in Product : taken[r][q] > 0}}
  <2>3. new \subseteq taking
    BY <2>1
  <2>4. taking \subseteq new
    <3> SUFFICES ASSUME NEW row \in taking
                 PROVE  row \in new
      OBVIOUS
    <3>1. PICK p \in Product : /\ taken[r][p] > 0
                               /\ row = [order |-> r, id |-> p, qty |-> taken[r][p]]
      OBVIOUS
    <3> QED
      BY <2>2, <3>1
  <2> QED
    BY <2>3, <2>4
<1>7. {row \in rows' : row.order = r} = new
  BY <1>1, <1>3 DEF SagaInv, RowsInv
<1>8. \A s \in placed : {row \in rows' : row.order = s} = RowsOf(s)
  BY <1>1, <1>3 DEF RowsOf
<1>9. RowsInv'
  BY <1>3 DEF SagaInv, RowsInv
<1>10. OrderIsDeducted'
  <2> SUFFICES ASSUME NEW s \in placed'
               PROVE  {row \in rows' : row.order = s}
                        = {[order |-> s, id |-> p, qty |-> taken[s][p]] :
                              p \in {q \in Product : taken[s][q] > 0}}
    BY DEF OrderIsDeducted, RowsOf
  <2>1. CASE s = r
    BY <1>6, <1>7, <2>1
  <2>2. CASE s \in placed
    BY <1>8, <2>2 DEF SagaInv, OrderIsDeducted
  <2> QED
    BY <1>3, <2>1, <2>2
<1> QED
  BY <1>1, <1>9, <1>10
\* One iteration of the merge loop that deducts and orders a line.
LEMMA DeductLineKeepsInv ==
  ASSUME SagaInv, NEW r \in Request, DeductLine(r)
  PROVE  ControlInv' /\ MergeInv' /\ RowsInv' /\ OrderIsDeducted'
<1> USE DEF handler, tables, events, store
<1>1. PICK j \in Fitting(r) :
         /\ TakeUnits(r, j)
         /\ lines' = IF cart[r][j].qty = 0 THEN lines
                     ELSE [lines EXCEPT ![r] = Append(@, cart[r][j])]
  BY DEF DeductLine
<1>2. UNCHANGED <<pc, late, answer, placed, rows, mails, tracked>> /\ pc[r] = "merge"
  BY DEF DeductLine, AtProduct
<1>3. Placeable(r) /\ r \notin placed
  BY <1>2 DEF Placeable, SagaInv, ControlInv
<1>4. RowsInv' /\ OrderIsDeducted' /\ \A s \in Request : s # r => taken'[s] = taken[s]
  BY <1>1, <1>2, <1>3, DeductionKeepsOrders
<1>5. ControlInv'
  BY <1>2 DEF SagaInv, ControlInv, Placeable
<1>6. ASSUME NEW s \in Request, s # r, Placeable(s)'
      PROVE  LinesAreTaken(s)'
  <2>1. Placeable(s) /\ lines'[s] = lines[s] /\ taken'[s] = taken[s]
    BY <1>1, <1>2, <1>4, <1>6 DEF Placeable, SagaInv, TypeOK
  <2> QED
    BY <2>1 DEF SagaInv, MergeInv, LinesAreTaken, DistinctLines
<1>7. LinesAreTaken(r)'
  <2> DEFINE line == cart[r][j]
  <2>1. line \in Line /\ lines[r] \in Seq(OrderLine)
    BY SeqElement DEF SagaInv, TypeOK, Fitting
  <2>2. line.id \in Product /\ line.qty \in Nat
    BY <2>1 DEF Line
  <2>3. /\ taken'[r][line.id] = taken[r][line.id] + line.qty
        /\ taken[r][line.id] \in Nat
        /\ \A p \in Product : p # line.id => taken'[r][p] = taken[r][p]
    BY <1>1, <2>2 DEF TakeUnits, SagaInv, TypeOK
  <2>4. LinesAreTaken(r)
    BY <1>3 DEF SagaInv, MergeInv
  <2>5. CASE line.qty = 0
    <3>1. lines'[r] = lines[r] /\ \A p \in Product : taken'[r][p] = taken[r][p]
      BY <1>1, <2>3, <2>5
    <3>2. \A i \in DOMAIN lines[r] : lines[r][i] \in OrderLine
      BY <2>1, SeqElement
    <3>3. \A i \in DOMAIN lines[r] : lines[r][i].id \in Product
      BY <3>2 DEF OrderLine
    <3> QED
      BY <2>4, <3>1, <3>3 DEF LinesAreTaken, DistinctLines
  <2>6. CASE line.qty # 0
    <3>1. lines'[r] = Append(lines[r], line)
      BY <1>1, <2>6 DEF SagaInv, TypeOK
    <3> DEFINE n == Len(lines[r])
    <3>2. n \in Nat /\ DOMAIN lines[r] = 1..n
      BY <2>1, SeqElement
    <3>3. /\ DOMAIN lines'[r] = 1..(n + 1)
          /\ lines'[r][n + 1] = line
          /\ \A i \in 1..n : lines'[r][i] = lines[r][i]
      BY <2>1, <3>1, <3>2
    <3>4. \A i \in 1..n : lines[r][i].id \in Product
      <4>1. \A i \in 1..n : lines[r][i] \in OrderLine
        BY <2>1, <3>2, SeqElement
      <4> QED
        BY <4>1 DEF OrderLine
    <3> HIDE DEF n, line
    <3>5. ASSUME NEW p \in Product, taken'[r][p] # 0
          PROVE  \E i \in DOMAIN lines'[r] : lines'[r][i].id = p
      <4>1. CASE p = line.id
        BY <3>2, <3>3, <4>1
      <4>2. CASE p # line.id
        <5>1. PICK i \in 1..n : lines[r][i].id = p
          BY <2>3, <2>4, <3>2, <3>5, <4>2 DEF LinesAreTaken
        <5> QED
          BY <3>2, <3>3, <5>1
      <4> QED
        BY <4>1, <4>2
    <3>6. ASSUME DistinctLines(r)', NEW i \in DOMAIN lines'[r]
          PROVE  lines'[r][i].qty = taken'[r][lines'[r][i].id]
      <4>1. \A x, y \in 1..(n + 1) : lines'[r][x].id = lines'[r][y].id => x = y
        BY <3>3, <3>6 DEF DistinctLines
      <4>2. n + 1 \in 1..(n + 1) /\ \A x \in 1..n : x \in 1..(n + 1) /\ x # n + 1
        BY <3>2
      <4>3. \A x \in 1..n : lines[r][x].id # line.id
        BY <3>3, <4>1, <4>2, Zenon
      <4>4. DistinctLines(r)
        <5>1. \A x, y \in 1..n : lines[r][x].id = lines[r][y].id => x = y
          BY <3>3, <4>1, <4>2, Zenon
        <5> QED
          BY <3>2, <5>1 DEF DistinctLines
      <4>5. CASE i = n + 1
        <5>1. taken[r][line.id] = 0
          BY <2>2, <2>4, <3>2, <4>3 DEF LinesAreTaken
        <5> QED
          BY <2>2, <2>3, <3>3, <4>5, <5>1
      <4>6. CASE i \in 1..n
        <5>1. lines[r][i].qty = taken[r][lines[r][i].id]
          BY <2>4, <3>2, <4>4, <4>6 DEF LinesAreTaken
        <5> QED
          BY <2>3, <3>3, <3>4, <4>3, <4>6, <5>1
      <4> QED
        BY <3>2, <3>3, <4>5, <4>6
    <3> QED
      BY <3>5, <3>6 DEF LinesAreTaken
  <2> QED
    BY <2>5, <2>6
<1> QED
  BY <1>4, <1>5, <1>6, <1>7 DEF MergeInv

\* A deduction that comes late belongs to a request that failed before.
LEMMA LateDeductionKeepsInv ==
  ASSUME SagaInv, NEW r \in Request, LateDeduction(r)
  PROVE  ControlInv' /\ MergeInv' /\ RowsInv' /\ OrderIsDeducted'
<1> USE DEF handler, tables, events, store
<1>1. PICK j \in Fitting(r) : TakeUnits(r, j)
  BY DEF LateDeduction
<1>2. /\ late[r] = "deduction" /\ late' = [late EXCEPT ![r] = "none"]
      /\ UNCHANGED <<pc, lines, answer, placed, rows, mails, tracked>>
  BY DEF LateDeduction
<1>3. pc[r] = "failed" /\ r \notin placed
  BY <1>2 DEF SagaInv, ControlInv
<1>4. RowsInv' /\ OrderIsDeducted' /\ \A s \in Request : s # r => taken'[s] = taken[s]
  BY <1>1, <1>2, <1>3, DeductionKeepsOrders
<1>5. ControlInv'
  BY <1>2 DEF SagaInv, ControlInv, Placeable, TypeOK
<1>6. ASSUME NEW s \in Request, Placeable(s)'
      PROVE  LinesAreTaken(s)'
  <2>1. s # r /\ Placeable(s)
    BY <1>2, <1>3, <1>6 DEF Placeable, SagaInv, TypeOK
  <2> QED
    BY <1>2, <1>4, <2>1 DEF SagaInv, MergeInv, LinesAreTaken, DistinctLines
<1> QED
  BY <1>4, <1>5, <1>6 DEF MergeInv

\* A commit, in time or late, ends what can be placed for its request.
LEMMA CommitKeepsInv ==
  ASSUME SagaInv, NEW r \in Request, CreateOrder(r) \/ LateCommit(r)
  PROVE  ControlInv' /\ MergeInv' /\ RowsInv' /\ OrderIsDeducted'
<1> USE DEF handler, tables, events, store
<1>1. /\ InsertOrder(r) /\ placed' = placed \cup {r}
      /\ UNCHANGED <<taken, lines, answer, mails, tracked>>
  BY DEF CreateOrder, LateCommit, InsertOrder
<1>2. /\ \A s \in Request : s # r => pc'[s] = pc[s] /\ late'[s] = late[s]
      /\ pc'[r] \in {"publish", "failed"} /\ late'[r] = "none" /\ Placeable(r)
  <2>1. CASE CreateOrder(r)
    BY <2>1 DEF CreateOrder, AtCreate, Placeable, SagaInv, TypeOK, ControlInv
  <2>2. CASE LateCommit(r)
    BY <2>2 DEF LateCommit, Placeable, SagaInv, TypeOK, ControlInv
  <2> QED
    BY <2>1, <2>2
<1>3. RowsInv' /\ OrderIsDeducted' /\ r \notin placed
  BY <1>1, <1>2, InsertKeepsOrders
<1>4. ControlInv'
  <2> SUFFICES ASSUME NEW s \in Request
               PROVE  /\ s \in placed' => ~Placeable(s)' /\ late'[s] = "none"
                      /\ pc'[s] \in {"publish", "done"} => s \in placed'
                      /\ late'[s] # "none" => pc'[s] = "failed"
                      /\ pc'[s] = "done" => s \in mails'
                      /\ s \in mails' \cup tracked' => s \in placed'
                      /\ answer'[s] = "ok" => pc'[s] = "done"
    BY DEF ControlInv
  <2>1. CASE s = r
    <3>1. answer[r] # "ok"
      BY <1>2, <1>3 DEF SagaInv, ControlInv
    <3> QED
      BY <1>1, <1>2, <2>1, <3>1 DEF Placeable
  <2>2. CASE s # r
    BY <1>1, <1>2, <2>2 DEF Placeable, SagaInv, ControlInv
  <2> QED
    BY <2>1, <2>2
<1>5. ASSUME NEW s \in Request, Placeable(s)'
      PROVE  LinesAreTaken(s)'
  <2>1. s # r
    BY <1>2, <1>5 DEF Placeable
  <2>2. Placeable(s)
    BY <1>2, <1>5, <2>1 DEF Placeable
  <2> QED
    BY <1>1, <2>2 DEF SagaInv, MergeInv, LinesAreTaken, DistinctLines
<1> QED
  BY <1>3, <1>4, <1>5 DEF MergeInv

\* Every step keeps the invariant: the control steps by QuietStep, a deduction by
\* DeductionKeepsOrders, a commit by InsertKeepsOrders.
LEMMA NextSaga == SagaInv /\ [Next]_vars => SagaInv'
<1> SUFFICES ASSUME SagaInv, [Next]_vars
             PROVE  SagaInv'
  OBVIOUS
<1> DEFINE Rest == ControlInv' /\ MergeInv' /\ RowsInv' /\ OrderIsDeducted'
<1> USE DEF handler, tables, events, store
<1>1. TypeOK /\ ControlInv /\ TypeOK'
  BY NextType DEF SagaInv
<1>2. ASSUME UNCHANGED <<lines, placed, rows, taken>>, ControlInv',
             \A r \in Request : Placeable(r)' => Placeable(r)
      PROVE  Rest
  BY <1>2, QuietStep
<1>3. ASSUME NEW r \in Request, Submit(r)
      PROVE  Rest
  BY <1>1, <1>2, <1>3 DEF Submit, ControlInv, Placeable, TypeOK
<1>4. ASSUME NEW r \in Request, AccountFound(r)
      PROVE  Rest
  BY <1>1, <1>2, <1>4 DEF AccountFound, ControlInv, Placeable, TypeOK
<1>5. ASSUME NEW r \in Request, RefuseEmptyCart(r)
      PROVE  Rest
  BY <1>1, <1>2, <1>5 DEF RefuseEmptyCart, ControlInv, Placeable, TypeOK
<1>6. ASSUME NEW r \in Request, Lookup(r)
      PROVE  Rest
  BY <1>1, <1>2, <1>6 DEF Lookup, ControlInv, Placeable, TypeOK
<1>7. ASSUME NEW r \in Request, SkipProduct(r)
      PROVE  Rest
  BY <1>1, <1>2, <1>7 DEF SkipProduct, ControlInv, Placeable
<1>8. ASSUME NEW r \in Request, DeductLine(r)
      PROVE  Rest
  BY <1>8, DeductLineKeepsInv
<1>9. ASSUME NEW r \in Request, CreateOrder(r) \/ LateCommit(r)
      PROVE  Rest
  BY <1>9, CommitKeepsInv
<1>10. ASSUME NEW r \in Request, PublishEmail(r)
       PROVE  Rest
  BY <1>1, <1>2, <1>10 DEF PublishEmail, ControlInv, Placeable, TypeOK
<1>11. ASSUME NEW r \in Request, PublishFails(r)
       PROVE  Rest
  BY <1>1, <1>2, <1>11 DEF PublishFails, ControlInv, Placeable, TypeOK
<1>12. ASSUME NEW r \in Request, CallFails(r)
       PROVE  Rest
  <2>1. pc[r] \in {"account", "lookup", "merge"}
    BY <1>12 DEF CallFails, Calling, AtProduct, AtCreate
  <2> QED
    BY <1>1, <1>2, <1>12, <2>1 DEF CallFails, ControlInv, Placeable, TypeOK
<1>13. ASSUME NEW r \in Request, LateDeduction(r)
       PROVE  Rest
  BY <1>13, LateDeductionKeepsInv
<1>14. ASSUME NEW r \in Request, Respond(r) \/ Timeout(r)
       PROVE  Rest
  BY <1>1, <1>2, <1>14 DEF Respond, Timeout, ControlInv, Placeable, TypeOK
<1>15. ASSUME Crash
       PROVE  Rest
  <2>1. \A r \in Request : Pending(r) = "commit" => pc[r] = "merge"
    BY DEF Pending, AtCreate
  <2>2. \A r \in Request : pc[r] = "publish" => Pending(r) = "none"
    BY DEF Pending, AtCreate, AtProduct
  <2>3. \A r \in Request : Placeable(r)' => Placeable(r)
    BY <1>1, <1>15, <2>1 DEF Crash, Placeable, Running, TypeOK
  <2>4. /\ UNCHANGED <<lines, placed, rows, taken, mails>> /\ tracked' = {}
        /\ \A r \in Request :
              /\ pc'[r] = IF Running(r) THEN "failed" ELSE pc[r]
              /\ late'[r] = IF Running(r) THEN Pending(r) ELSE late[r]
              /\ answer'[r] = IF pc[r] # "idle" /\ answer[r] = "none" THEN "error"
                              ELSE answer[r]
    BY <1>15 DEF Crash
  <2>5. ControlInv'
    <3> SUFFICES ASSUME NEW r \in Request
                 PROVE  /\ r \in placed => ~Placeable(r)' /\ late'[r] = "none"
                        /\ pc'[r] \in {"publish", "done"} => r \in placed
                        /\ late'[r] # "none" => pc'[r] = "failed"
                        /\ pc'[r] = "done" => r \in mails
                        /\ r \in mails => r \in placed
                        /\ answer'[r] = "ok" => pc'[r] = "done"
      BY <2>4 DEF ControlInv
    <3>1. /\ r \in placed => ~Placeable(r) /\ late[r] = "none"
          /\ pc[r] \in {"publish", "done"} => r \in placed
          /\ late[r] # "none" => pc[r] = "failed"
          /\ pc[r] = "done" => r \in mails
          /\ r \in mails => r \in placed
          /\ answer[r] = "ok" => pc[r] = "done"
          /\ pc[r] \in PC
      BY <1>1 DEF ControlInv, TypeOK
    <3>2. CASE Running(r)
      BY <2>1, <2>2, <2>3, <2>4, <3>1, <3>2 DEF Running, Placeable, PC
    <3>3. CASE ~Running(r)
      BY <2>3, <2>4, <3>1, <3>3 DEF Running, Placeable, PC
    <3> QED
      BY <3>2, <3>3
  <2> QED
    BY <1>2, <2>3, <2>4, <2>5
<1>16. ASSUME NEW p \in Product, Admin(p)
       PROVE  Rest
  <2>1. UNCHANGED <<handler, answer, tables, events, taken>>
    BY <1>16 DEF Admin
  <2>2. ControlInv' /\ \A r \in Request : Placeable(r)' => Placeable(r)
    BY <1>1, <2>1 DEF ControlInv, Placeable
  <2> QED
    BY <1>2, <2>1, <2>2
<1>17. ASSUME UNCHANGED vars
       PROVE  Rest
  <2>1. UNCHANGED <<handler, answer, tables, events, taken>>
    BY <1>17 DEF vars
  <2>2. ControlInv' /\ \A r \in Request : Placeable(r)' => Placeable(r)
    BY <1>1, <2>1 DEF ControlInv, Placeable
  <2> QED
    BY <1>2, <2>1, <2>2
<1>18. Rest
  BY <1>3, <1>4, <1>5, <1>6, <1>7, <1>8, <1>9, <1>10, <1>11, <1>12, <1>13, <1>14,
     <1>15, <1>16, <1>17 DEF Next, HandlerStep, LateStep
<1> QED
  BY <1>1, <1>18 DEF SagaInv

\* The invariant holds in every reachable state.
LEMMA SagaInvariant == Spec => []SagaInv
  BY InitSaga, NextSaga, PTL DEF Spec

\* A committed order holds exactly the units its request deducted, for any number
\* of concurrent requests, products and failures.
THEOREM OrdersAreDeducted == Spec => []OrderIsDeducted
<1>1. SagaInv => OrderIsDeducted
  BY DEF SagaInv
<1> QED
  BY <1>1, SagaInvariant, PTL

\* No email and no status update is about an order the database does not hold.
THEOREM AnnouncementsAreTrue == Spec => []AnnouncedOrdersExist
<1>1. SagaInv => AnnouncedOrdersExist
  BY DEF SagaInv, ControlInv, AnnouncedOrdersExist, TypeOK
<1> QED
  BY <1>1, SagaInvariant, PTL

\* A client answered without an error has its order and its email on the way.
THEOREM OkAnswersAreComplete == Spec => []OkIsComplete
<1>1. SagaInv => OkIsComplete
  BY DEF SagaInv, ControlInv, OkIsComplete
<1> QED
  BY <1>1, SagaInvariant, PTL

-----------------------------------------------------------------------------
(* Every handler comes to an end. *)

\* The lookup answers with no more products than it was asked for.
LEMMA AnswerIsNotLonger ==
  ASSUME DocTypeOK, NEW ids \in Seq(Product), NEW found \in MultiGet(ids)
  PROVE  Len(found) \in 0..Len(ids)
<1> DEFINE n == Cardinality(ReadablePositions(ids))
<1>1. n \in 0..Len(ids)
  <2>0. Len(ids) \in Nat
    BY SeqElement
  <2>1. IsFiniteSet(1..Len(ids)) /\ Cardinality(1..Len(ids)) = Len(ids) /\ Len(ids) \in Nat
    BY <2>0, FS_Interval
  <2>2. ReadablePositions(ids) \subseteq 1..Len(ids)
    BY DEF ReadablePositions
  <2>3. IsFiniteSet(ReadablePositions(ids)) /\ n <= Cardinality(1..Len(ids))
    BY <2>1, <2>2, FS_Subset
  <2> QED
    BY <2>1, <2>3, FS_CardinalityType
<1>2. DOMAIN found = 1..n
  BY DEF MultiGet, ReadablePositions, InOrder
<1>3. Len(found) \in Nat /\ DOMAIN found = 1..Len(found)
  BY MultiGetType, SeqElement
<1> HIDE DEF n
<1> QED
  BY <1>1, <1>2, <1>3

\* The index of the merge loop: at the first product before the loop, at most
\* one past the last in it.
LoopInv ==
    \A r \in Request :
        /\ pc[r] \in {"idle", "account", "lookup"} => idx[r] = 1
        /\ pc[r] = "merge" => idx[r] <= Len(snap[r]) + 1

\* A step of the handler leaves it fewer steps.
LEMMA HandlerStepsDown ==
  ASSUME TypeOK, LoopInv, NEW r \in Request, HandlerStep(r)
  PROVE  /\ StepsLeft(r)' \in Nat
         /\ StepsLeft(r)' < StepsLeft(r)
<1> USE DEF StepsLeft
<1>1. /\ pc \in [Request -> PC] /\ idx[r] \in Nat
      /\ Len(cart[r]) \in Nat /\ Len(snap[r]) \in Nat
  BY DEF TypeOK
<1>2. CASE AccountFound(r)
  BY <1>1, <1>2 DEF AccountFound, TypeOK
<1>3. CASE RefuseEmptyCart(r)
  BY <1>1, <1>3 DEF RefuseEmptyCart, TypeOK
<1>4. CASE Lookup(r)
  <2> DEFINE ids == [i \in DOMAIN cart[r] |-> cart[r][i].id]
  <2>1. ids \in Seq(Product) /\ Len(ids) = Len(cart[r])
    BY AskedIds
  <2>2. PICK found \in MultiGet(ids) : snap' = [snap EXCEPT ![r] = found]
    BY <1>4 DEF Lookup
  <2>3. Len(snap'[r]) \in 0..Len(cart[r])
    <3>1. DocTypeOK
      BY DEF TypeOK
    <3>2. Len(found) \in 0..Len(ids)
      BY <2>1, <3>1, AnswerIsNotLonger
    <3> QED
      BY <2>1, <2>2, <3>2 DEF TypeOK
  <2>4. pc[r] = "lookup" /\ pc'[r] = "merge" /\ idx'[r] = 1
    BY <1>4 DEF Lookup, LoopInv, TypeOK
  <2> HIDE DEF ids
  <2> QED
    BY <1>1, <2>3, <2>4
<1>5. CASE SkipProduct(r)
  <2>1. /\ pc[r] = "merge" /\ pc'[r] = "merge" /\ snap'[r] = snap[r]
        /\ idx[r] <= Len(snap[r]) /\ idx'[r] = idx[r] + 1
    BY <1>5 DEF SkipProduct, AtProduct, TypeOK
  <2> QED
    BY <1>1, <2>1
<1>6. CASE DeductLine(r)
  <2>1. /\ pc[r] = "merge" /\ pc'[r] = "merge" /\ snap'[r] = snap[r]
        /\ idx[r] <= Len(snap[r]) /\ idx'[r] = idx[r] + 1
    BY <1>6 DEF DeductLine, AtProduct, TypeOK
  <2> QED
    BY <1>1, <2>1
<1>7. CASE CreateOrder(r)
  BY <1>1, <1>7 DEF CreateOrder, AtCreate, LoopInv, TypeOK
<1>8. CASE PublishEmail(r)
  BY <1>1, <1>8 DEF PublishEmail, TypeOK
<1>9. CASE PublishFails(r)
  BY <1>1, <1>9 DEF PublishFails, TypeOK
<1>10. CASE CallFails(r)
  BY <1>1, <1>10 DEF CallFails, Calling, AtProduct, AtCreate, LoopInv, TypeOK
<1> QED
  BY <1>2, <1>3, <1>4, <1>5, <1>6, <1>7, <1>8, <1>9, <1>10 DEF HandlerStep

\* A handler that a step leaves alone, or ends, has no more steps left.
LEMMA OthersStepsDown ==
  ASSUME TypeOK, LoopInv, NEW s \in Request, pc[s] # "idle",
         \/ pc'[s] = pc[s] /\ cart'[s] = cart[s] /\ snap'[s] = snap[s] /\ idx'[s] = idx[s]
         \/ pc'[s] = "failed"
  PROVE  StepsLeft(s)' \in 0..StepsLeft(s)
<1>1. /\ pc[s] \in PC /\ idx[s] \in Nat
      /\ Len(cart[s]) \in Nat /\ Len(snap[s]) \in Nat
  BY DEF TypeOK
<1>2. pc[s] = "merge" => idx[s] <= Len(snap[s]) + 1
  BY DEF LoopInv
<1>3. StepsLeft(s) \in Nat
  BY <1>1, <1>2 DEF StepsLeft
<1>4. CASE pc'[s] = "failed"
  <2>1. StepsLeft(s)' = 0
    BY <1>4 DEF StepsLeft
  <2> QED
    BY <1>3, <2>1
<1>5. CASE pc'[s] = pc[s] /\ cart'[s] = cart[s] /\ snap'[s] = snap[s] /\ idx'[s] = idx[s]
  <2>1. StepsLeft(s)' = StepsLeft(s)
    BY <1>5 DEF StepsLeft
  <2> QED
    BY <1>3, <2>1
<1> QED
  BY <1>4, <1>5

\* No step of the system gives a handler more steps, and each keeps the index
\* within the loop.
LEMMA NextStepsDown ==
  ASSUME TypeOK, LoopInv, [Next]_vars
  PROVE  /\ LoopInv'
         /\ \A s \in Request : pc[s] # "idle" => StepsLeft(s)' \in 0..StepsLeft(s)
<1> USE DEF handler, tables, events, store
<1>1. ASSUME NEW r \in Request, Submit(r)
      PROVE  /\ LoopInv'
             /\ \A s \in Request : pc[s] # "idle" => StepsLeft(s)' \in 0..StepsLeft(s)
  <2>1. \A s \in Request : s # r =>
           pc'[s] = pc[s] /\ cart'[s] = cart[s] /\ snap'[s] = snap[s] /\ idx'[s] = idx[s]
    BY <1>1 DEF Submit
  <2>2. LoopInv'
    BY <1>1 DEF Submit, LoopInv, TypeOK
  <2> QED
    BY <1>1, <2>1, <2>2, OthersStepsDown DEF Submit
<1>2. ASSUME NEW r \in Request, HandlerStep(r)
      PROVE  /\ LoopInv'
             /\ \A s \in Request : pc[s] # "idle" => StepsLeft(s)' \in 0..StepsLeft(s)
  <2>1. \A s \in Request : s # r =>
           pc'[s] = pc[s] /\ cart'[s] = cart[s] /\ snap'[s] = snap[s] /\ idx'[s] = idx[s]
    BY <1>2 DEF TypeOK, HandlerStep, AccountFound, RefuseEmptyCart, Lookup, SkipProduct,
                DeductLine, CreateOrder, PublishEmail, PublishFails, CallFails
  <2>2. /\ pc'[r] \in {"idle", "account", "lookup"} => idx'[r] = 1
        /\ pc'[r] = "merge" => idx'[r] <= Len(snap'[r]) + 1
    <3>1. CASE Lookup(r)
      <4>1. PICK found \in MultiGet([i \in DOMAIN cart[r] |-> cart[r][i].id]) :
               snap' = [snap EXCEPT ![r] = found]
        BY <3>1 DEF Lookup
      <4>2. Len(snap'[r]) \in Nat
        <5>1. [i \in DOMAIN cart[r] |-> cart[r][i].id] \in Seq(Product)
          BY AskedIds
        <5>2. DocTypeOK
          BY DEF TypeOK
        <5> QED
          BY <4>1, <5>1, <5>2, MultiGetType DEF TypeOK
      <4> QED
        BY <3>1, <4>2 DEF Lookup, LoopInv, TypeOK
    <3>2. CASE ~Lookup(r)
      BY <1>2, <3>2 DEF TypeOK, LoopInv, HandlerStep, AccountFound, RefuseEmptyCart,
           SkipProduct, DeductLine, AtProduct, CreateOrder, PublishEmail, PublishFails, CallFails
    <3> QED
      BY <3>1, <3>2
  <2>3. StepsLeft(r)' \in 0..StepsLeft(r)
    <3>1. StepsLeft(r)' \in Nat /\ StepsLeft(r)' < StepsLeft(r)
      BY <1>2, HandlerStepsDown
    <3>2. StepsLeft(r) \in Int
      BY DEF TypeOK, StepsLeft
    <3> QED
      BY <3>1, <3>2
  <2> QED
    BY <2>1, <2>2, <2>3, OthersStepsDown DEF LoopInv
<1>3. ASSUME UNCHANGED <<pc, cart, snap, idx>>
      PROVE  /\ LoopInv'
             /\ \A s \in Request : pc[s] # "idle" => StepsLeft(s)' \in 0..StepsLeft(s)
  BY <1>3, OthersStepsDown DEF LoopInv
<1>4. CASE Crash
  <2>1. /\ \A s \in Request : pc'[s] = pc[s] \/ pc'[s] = "failed"
        /\ UNCHANGED <<cart, snap, idx>>
    BY <1>4 DEF Crash
  <2> QED
    BY <2>1, OthersStepsDown DEF LoopInv
<1>5. ASSUME NEW r \in Request, LateStep(r) \/ Respond(r) \/ Timeout(r)
      PROVE  UNCHANGED <<pc, cart, snap, idx>>
  BY <1>5 DEF LateStep, LateDeduction, LateCommit, Respond, Timeout
<1>6. ASSUME NEW p \in Product, Admin(p)
      PROVE  UNCHANGED <<pc, cart, snap, idx>>
  BY <1>6 DEF Admin
<1>7. CASE UNCHANGED vars
  BY <1>3, <1>7 DEF vars
<1> QED
  BY <1>1, <1>2, <1>3, <1>4, <1>5, <1>6, <1>7 DEF Next

\* PostOrder comes to an end whatever its calls answer, for every cart: a handler
\* makes at most four steps more than the cart has lines.
THEOREM HandlersEnd == Spec => EveryHandlerEnds
<1> DEFINE Descends == \A r \in Request : pc[r] # "idle" =>
              /\ StepsLeft(r)' \in 0..StepsLeft(r)
              /\ HandlerStep(r) => StepsLeft(r)' < StepsLeft(r)
<1>1. Init => LoopInv
  BY DEF Init, LoopInv
<1>2. TypeOK /\ LoopInv /\ [Next]_vars => LoopInv' /\ Descends
  BY NextStepsDown, HandlerStepsDown
<1>3. Descends => [Descends]_vars
  OBVIOUS
<1> QED
  BY <1>1, <1>2, <1>3, TypeCorrect, PTL DEF Spec, EveryHandlerEnds

-----------------------------------------------------------------------------
(* What is left out of an order. *)

\* The loop has found a line to order for product i of the answer, or none fits.
Merged(r, i) ==
    \/ \E l \in DOMAIN lines[r] : lines[r][l].id = snap[r][i].id
    \/ \A j \in DOMAIN cart[r] :
          cart[r][j].id = snap[r][i].id => cart[r][j].qty > snap[r][i].stock

AllPositive(r) == \A k \in DOMAIN cart[r] : cart[r][k].qty > 0

\* An order is only stored with the loop at its end, and has a row per line.
OmissionInv ==
    \A r \in Request :
        /\ pc[r] \in {"idle", "account", "lookup"} => idx[r] = 1
        /\ r \in placed \/ late[r] = "commit" => idx[r] > Len(snap[r])
        /\ AllPositive(r) => \A i \in DOMAIN snap[r] : i < idx[r] => Merged(r, i)
        /\ r \in placed => \A l \in DOMAIN lines[r] :
              \E row \in rows : row.order = r /\ row.id = lines[r][l].id

\* A step that leaves the loop and the tables alone, and goes no step back.
LEMMA LoopUntouched ==
  ASSUME OmissionInv, UNCHANGED <<cart, snap, idx, lines, placed, rows>>,
         \A r \in Request :
            /\ pc'[r] \in {"idle", "account", "lookup"} => pc[r] \in {"idle", "account", "lookup"}
            /\ late'[r] = "commit" => late[r] = "commit" \/ AtCreate(r)
  PROVE  OmissionInv'
BY DEF OmissionInv, Merged, AllPositive, AtCreate

\* Requests other than r are not touched by a step of r's.
LEMMA OthersMerged ==
  ASSUME TypeOK, OmissionInv, NEW r \in Request,
         \A s \in Request : s # r =>
            /\ cart'[s] = cart[s] /\ snap'[s] = snap[s] /\ idx'[s] = idx[s] /\ lines'[s] = lines[s]
            /\ pc'[s] = pc[s] /\ late'[s] = late[s] /\ (s \in placed' <=> s \in placed),
         rows \subseteq rows',
         /\ pc'[r] \in {"idle", "account", "lookup"} => idx'[r] = 1
         /\ r \in placed' \/ late'[r] = "commit" => idx'[r] > Len(snap'[r])
         /\ AllPositive(r)' => \A i \in DOMAIN snap'[r] : i < idx'[r] => Merged(r, i)'
         /\ r \in placed' => \A l \in DOMAIN lines'[r] :
              \E row \in rows' : row.order = r /\ row.id = lines'[r][l].id
  PROVE  OmissionInv'
<1> SUFFICES ASSUME NEW s \in Request
             PROVE  /\ pc'[s] \in {"idle", "account", "lookup"} => idx'[s] = 1
                    /\ s \in placed' \/ late'[s] = "commit" => idx'[s] > Len(snap'[s])
                    /\ AllPositive(s)' => \A i \in DOMAIN snap'[s] : i < idx'[s] => Merged(s, i)'
                    /\ s \in placed' => \A l \in DOMAIN lines'[s] :
                          \E row \in rows' : row.order = s /\ row.id = lines'[s][l].id
  BY DEF OmissionInv
<1>1. CASE s = r
  BY <1>1 DEF AllPositive, Merged
<1>2. CASE s # r
  BY <1>2 DEF OmissionInv, AllPositive, Merged
<1> QED
  BY <1>1, <1>2

\* Every step keeps what is known of omitted lines.
LEMMA OmissionStep ==
  ASSUME SagaInv, OmissionInv, [Next]_vars
  PROVE  OmissionInv'
<1> USE DEF handler, tables, events, store
<1>0. TypeOK /\ ControlInv
  BY DEF SagaInv
<1>1. ASSUME NEW r \in Request, Submit(r)
      PROVE  OmissionInv'
  <2>1. idx[r] = 1 /\ r \notin placed /\ late[r] = "none"
    BY <1>0, <1>1 DEF Submit, OmissionInv, ControlInv, Placeable
  <2>2. \A i \in DOMAIN snap[r] : i >= 1
    BY <1>0 DEF TypeOK
  <2>3. /\ UNCHANGED <<snap, idx, lines, late, placed, rows>>
        /\ \A s \in Request : s # r => cart'[s] = cart[s] /\ pc'[s] = pc[s]
    BY <1>0, <1>1 DEF Submit, TypeOK
  <2>4. \A i \in DOMAIN snap'[r] : i < idx'[r] => Merged(r, i)'
    BY <1>0, <2>1, <2>2, <2>3 DEF TypeOK
  <2> QED
    BY <1>0, <2>1, <2>3, <2>4, OthersMerged
<1>2. ASSUME NEW r \in Request, Lookup(r)
      PROVE  OmissionInv'
  <2>1. idx[r] = 1 /\ r \notin placed /\ late[r] = "none"
    BY <1>0, <1>2 DEF Lookup, OmissionInv, ControlInv, Placeable
  <2>2. TypeOK'
    BY <1>0, NextType
  <2>3. \A i \in DOMAIN snap'[r] : i >= 1
    BY <2>2 DEF TypeOK
  <2>4. /\ UNCHANGED <<cart, idx, lines, late, placed, rows>>
        /\ \A s \in Request : s # r => snap'[s] = snap[s] /\ pc'[s] = pc[s]
    BY <1>0, <1>2 DEF Lookup, TypeOK
  <2>5. \A i \in DOMAIN snap'[r] : i < idx'[r] => Merged(r, i)'
    BY <2>1, <2>3, <2>4, <2>2 DEF TypeOK
  <2> QED
    BY <1>0, <2>1, <2>4, <2>5, OthersMerged
<1>3. ASSUME NEW r \in Request, SkipProduct(r)
      PROVE  OmissionInv'
  <2>1. /\ r \notin placed /\ late[r] = "none" /\ idx'[r] = idx[r] + 1 /\ idx[r] \in DOMAIN snap[r]
        /\ UNCHANGED <<pc, cart, snap, lines, late, placed, rows>> /\ pc[r] = "merge"
    BY <1>0, <1>3 DEF SkipProduct, AtProduct, ControlInv, Placeable, TypeOK
  <2>2. \A j \in DOMAIN cart[r] :
           cart[r][j].id = snap[r][idx[r]].id => cart[r][j].qty > snap[r][idx[r]].stock
    <3> SUFFICES ASSUME NEW j \in DOMAIN cart[r], cart[r][j].id = snap[r][idx[r]].id
                 PROVE  cart[r][j].qty > snap[r][idx[r]].stock
      OBVIOUS
    <3>1. cart[r][j] \in Line /\ snap[r][idx[r]] \in [id : Product, stock : Nat]
      BY <1>0, <2>1, SeqElement DEF TypeOK
    <3>2. ~(cart[r][j].qty <= snap[r][idx[r]].stock)
      BY <1>3 DEF SkipProduct, Fitting
    <3> QED
      BY <3>1, <3>2 DEF Line
  <2>3. ASSUME AllPositive(r)', NEW i \in DOMAIN snap'[r], i < idx'[r]
        PROVE  Merged(r, i)'
    <3>1. i < idx[r] \/ i = idx[r]
      BY <1>0, <2>1, <2>3 DEF TypeOK
    <3> QED
      BY <2>1, <2>2, <2>3, <3>1 DEF OmissionInv, Merged, AllPositive
  <2> QED
    BY <1>0, <1>3, <2>1, <2>3, OthersMerged DEF SkipProduct, TypeOK
<1>4. ASSUME NEW r \in Request, DeductLine(r)
      PROVE  OmissionInv'
  <2>1. PICK j \in Fitting(r) :
           lines' = IF cart[r][j].qty = 0 THEN lines
                    ELSE [lines EXCEPT ![r] = Append(@, cart[r][j])]
    BY <1>4 DEF DeductLine
  <2>2. /\ r \notin placed /\ late[r] = "none" /\ idx'[r] = idx[r] + 1 /\ idx[r] \in DOMAIN snap[r]
        /\ UNCHANGED <<pc, cart, snap, late, placed, rows>> /\ pc[r] = "merge"
    BY <1>0, <1>4 DEF DeductLine, AtProduct, ControlInv, Placeable, TypeOK
  <2>3. ASSUME AllPositive(r)', NEW i \in DOMAIN snap'[r], i < idx'[r]
        PROVE  Merged(r, i)'
    <3>1. cart[r][j].qty # 0 /\ cart[r][j].id = snap[r][idx[r]].id /\ AllPositive(r)
      BY <2>2, <2>3 DEF AllPositive, Fitting
    <3>2. lines'[r] = Append(lines[r], cart[r][j])
      BY <1>0, <2>1, <3>1 DEF TypeOK
    <3>3. /\ \A l \in DOMAIN lines[r] : l \in DOMAIN lines'[r] /\ lines'[r][l] = lines[r][l]
          /\ \E l \in DOMAIN lines'[r] : lines'[r][l] = cart[r][j]
      <4>1. lines[r] \in Seq(OrderLine)
        BY <1>0 DEF TypeOK
      <4>2. Len(lines[r]) + 1 \in DOMAIN lines'[r] /\ lines'[r][Len(lines[r]) + 1] = cart[r][j]
        BY <3>2, <4>1
      <4>3. \A l \in DOMAIN lines[r] : l \in DOMAIN lines'[r] /\ lines'[r][l] = lines[r][l]
        BY <3>2, <4>1
      <4> QED
        BY <4>2, <4>3
    <3>4. i < idx[r] \/ i = idx[r]
      BY <1>0, <2>2, <2>3 DEF TypeOK
    <3>5. CASE i = idx[r]
      BY <2>2, <3>1, <3>3, <3>5 DEF Merged
    <3>6. CASE i < idx[r]
      <4>1. Merged(r, i)
        BY <2>2, <2>3, <3>1, <3>6 DEF OmissionInv
      <4> QED
        BY <2>2, <3>3, <4>1 DEF Merged
    <3> QED
      BY <3>4, <3>5, <3>6
  <2>4. \A s \in Request : s # r => lines'[s] = lines[s] /\ idx'[s] = idx[s]
    BY <1>4, <2>1 DEF DeductLine
  <2> QED
    BY <1>0, <2>2, <2>3, <2>4, OthersMerged
<1>5. ASSUME NEW r \in Request, CreateOrder(r) \/ LateCommit(r)
      PROVE  OmissionInv'
  <2>1. /\ UNCHANGED <<cart, snap, idx, lines>> /\ InsertOrder(r)
        /\ late'[r] # "commit" /\ pc'[r] \in {"publish", "failed"} /\ idx[r] > Len(snap[r])
        /\ \A s \in Request : s # r => pc'[s] = pc[s] /\ late'[s] = late[s]
    BY <1>0, <1>5 DEF CreateOrder, LateCommit, AtCreate, TypeOK, ControlInv, OmissionInv
  <2>2. placed' = placed \cup {r} /\ rows \subseteq rows'
    BY <2>1 DEF InsertOrder
  <2>3. \A l \in DOMAIN lines'[r] : \E row \in rows' : row.order = r /\ row.id = lines'[r][l].id
    <3> SUFFICES ASSUME NEW l \in DOMAIN lines[r]
                 PROVE  \E row \in rows' : row.order = r /\ row.id = lines[r][l].id
      BY <2>1
    <3>1. [order |-> r, id |-> lines[r][l].id, qty |-> lines[r][l].qty] \in rows'
      BY <2>1 DEF InsertOrder
    <3> QED
      BY <3>1
  <2>4. AllPositive(r)' => \A i \in DOMAIN snap'[r] : i < idx'[r] => Merged(r, i)'
    BY <2>1 DEF OmissionInv, AllPositive, Merged
  <2> QED
    BY <1>0, <2>1, <2>2, <2>3, <2>4, OthersMerged
<1>6. ASSUME NEW r \in Request,
             \/ AccountFound(r) \/ RefuseEmptyCart(r) \/ PublishEmail(r) \/ PublishFails(r)
             \/ Respond(r) \/ Timeout(r) \/ LateDeduction(r)
      PROVE  OmissionInv'
  BY <1>0, <1>6, LoopUntouched
     DEF AccountFound, RefuseEmptyCart, PublishEmail, PublishFails, Respond, Timeout,
         LateDeduction, TypeOK
<1>7. ASSUME NEW r \in Request, CallFails(r)
      PROVE  OmissionInv'
  <2>1. Pending(r) = "commit" => AtCreate(r)
    BY DEF Pending
  <2> QED
    BY <1>0, <1>7, <2>1, LoopUntouched DEF CallFails, TypeOK
<1>8. CASE Crash
  <2>1. \A r \in Request : Pending(r) = "commit" => AtCreate(r)
    BY DEF Pending
  <2> QED
    BY <1>0, <1>8, <2>1, LoopUntouched DEF Crash, TypeOK
<1>9. CASE (\E p \in Product : Admin(p)) \/ UNCHANGED vars
  BY <1>9, LoopUntouched DEF Admin, vars
<1> QED
  BY <1>1, <1>2, <1>3, <1>4, <1>5, <1>6, <1>7, <1>8, <1>9 DEF Next, HandlerStep, LateStep

\* A requested product the catalog returned is left out of a stored order only
\* when the lookup saw too little stock, for any cart and any interleaving.
THEOREM OmissionsAreShortages == Spec => []OmittedLinesWereShort
<1>1. Init => OmissionInv
  BY DEF Init, OmissionInv
<1>2. SagaInv /\ OmissionInv => OmittedLinesWereShort
  <2> SUFFICES ASSUME SagaInv, OmissionInv, NEW r \in placed,
                      NEW j \in DOMAIN cart[r], NEW i \in DOMAIN snap[r],
                      snap[r][i].id = cart[r][j].id, AllPositive(r),
                      \A row \in RowsOf(r) : row.id # cart[r][j].id
               PROVE  cart[r][j].qty > snap[r][i].stock
    BY DEF OmittedLinesWereShort, AllPositive
  <2>1. r \in Request /\ i < idx[r]
    <3>1. r \in Request /\ snap[r] \in Seq([id : Product, stock : Nat]) /\ idx[r] \in Nat
      BY DEF SagaInv, TypeOK
    <3> QED
      BY <3>1 DEF OmissionInv
  <2>2. Merged(r, i)
    BY <2>1 DEF OmissionInv
  <2>3. \A l \in DOMAIN lines[r] : lines[r][l].id # cart[r][j].id
    BY <2>1 DEF OmissionInv, RowsOf
  <2> QED
    BY <2>2, <2>3 DEF Merged
<1>3. Spec => []OmissionInv
  BY <1>1, OmissionStep, SagaInvariant, PTL DEF Spec
<1> QED
  BY <1>2, <1>3, SagaInvariant, PTL

-----------------------------------------------------------------------------
(* What is counted.  SoldIsDeducted needs to know that a product that was   *)
(* never indexed, whose counter an indexing sets to zero, has sold nothing. *)

SoldInv ==
    /\ SoldIsDeducted
    /\ \A p \in Product : ~doc[p].found => UnitsTaken(p) = 0

\* The units taken are a natural number, at least those of any set of requests.
LEMMA UnitsTakenNat ==
  ASSUME TypeOK, NEW p \in Product
  PROVE  /\ UnitsTaken(p) \in Nat
         /\ \A S \in SUBSET Request :
               SumFunctionOnSet([r \in Request |-> taken[r][p]], S) <= UnitsTaken(p)
<1> DEFINE f == [r \in Request |-> taken[r][p]]
<1>1. \A r \in Request : f[r] \in Nat
  BY DEF TypeOK
<1> HIDE DEF f
<1>2. \A S \in SUBSET Request : /\ SumFunctionOnSet(f, S) \in Nat
                                /\ SumFunctionOnSet(f, S) <= SumFunctionOnSet(f, Request)
  BY <1>1, SumSubset
<1> QED
  BY <1>2 DEF UnitsTaken, TakenBy, f

\* A deduction adds its quantity to the units taken of its product.
LEMMA TakeUnitsAdds ==
  ASSUME TypeOK, NEW r \in Request, NEW q \in Nat, NEW p \in Product,
         taken' = [taken EXCEPT ![r][p] = @ + q]
  PROVE  /\ UnitsTaken(p)' = UnitsTaken(p) + q
         /\ \A s \in Product \ {p} : UnitsTaken(s)' = UnitsTaken(s)
<1>1. taken \in [Request -> [Product -> Nat]]
  BY DEF TypeOK
<1>2. UnitsTaken(p)' = UnitsTaken(p) + q
  <2> DEFINE f == [x \in Request |-> taken[x][p]]
             g == [x \in Request |-> taken'[x][p]]
  <2>1. /\ \A x \in Request : f[x] \in Int /\ g[x] \in Int
        /\ \A x \in Request \ {r} : g[x] = f[x]
        /\ g[r] - f[r] = q
    BY <1>1
  <2> HIDE DEF f, g
  <2>2. SumFunctionOnSet(g, Request) = SumFunctionOnSet(f, Request) + (g[r] - f[r])
    BY <2>1, SumPoint
  <2>3. UnitsTaken(p)' = SumFunctionOnSet(g, Request) /\ UnitsTaken(p) = SumFunctionOnSet(f, Request)
    BY DEF UnitsTaken, TakenBy, f, g
  <2> QED
    BY <2>1, <2>2, <2>3
<1>3. ASSUME NEW s \in Product \ {p}
      PROVE  UnitsTaken(s)' = UnitsTaken(s)
  <2>1. [x \in Request |-> taken'[x][s]] = [x \in Request |-> taken[x][s]]
    BY <1>1
  <2> QED
    BY <2>1 DEF UnitsTaken, TakenBy
<1> QED
  BY <1>2, <1>3

\* Nothing is counted, and nothing taken, at first.
LEMMA InitSold == Init => SoldInv
<1> SUFFICES ASSUME Init, NEW p \in Product
             PROVE  doc[p].sold = Int32(UnitsTaken(p)) /\ UnitsTaken(p) = 0
  BY DEF SoldInv, SoldIsDeducted
<1> DEFINE f == [r \in Request |-> taken[r][p]]
           zero == [r \in Request |-> 0]
<1>1. f = zero
  BY DEF Init
<1>2. SumFunctionOnSet(zero, Request) = 0
  <2>1. \A r \in Request : zero[r] = 0
    OBVIOUS
  <2> HIDE DEF zero
  <2> QED
    BY <2>1, SumZero
<1>3. doc[p].sold = 0
  BY DEF Init, DocInit, Missing
<1>4. Int32(0) = 0
  BY Int32Fixed
<1> QED
  BY <1>1, <1>2, <1>3, <1>4 DEF UnitsTaken, TakenBy

\* A step deducts for a request, is an administrator's, or leaves the store and
\* its history alone.
LEMMA StoreMoves ==
  ASSUME [Next]_vars
  PROVE  \/ \E r \in Request : \E j \in Fitting(r) : TakeUnits(r, j)
         \/ \E p \in Product : Admin(p)
         \/ UNCHANGED <<doc, taken>>
<1> USE DEF handler, tables, events, store
<1>1. ASSUME NEW r \in Request, DeductLine(r) \/ LateDeduction(r)
      PROVE  \E j \in Fitting(r) : TakeUnits(r, j)
  BY <1>1 DEF DeductLine, LateDeduction
<1>2. ASSUME NEW r \in Request,
             \/ Submit(r) \/ AccountFound(r) \/ RefuseEmptyCart(r) \/ Lookup(r)
             \/ SkipProduct(r) \/ CreateOrder(r) \/ PublishEmail(r) \/ PublishFails(r)
             \/ CallFails(r) \/ LateCommit(r) \/ Respond(r) \/ Timeout(r)
      PROVE  UNCHANGED <<doc, taken>>
  BY <1>2 DEF Submit, AccountFound, RefuseEmptyCart, Lookup, SkipProduct, CreateOrder,
              PublishEmail, PublishFails, CallFails, LateCommit, Respond, Timeout
<1>3. ASSUME Crash \/ UNCHANGED vars
      PROVE  UNCHANGED <<doc, taken>>
  BY <1>3 DEF Crash, vars
<1> QED
  BY <1>1, <1>2, <1>3 DEF Next, HandlerStep, LateStep

\* A deduction moves the counter and the sum together.
LEMMA DeductionCounts ==
  ASSUME TypeOK, SoldInv, NEW r \in Request, NEW j \in Fitting(r), TakeUnits(r, j)
  PROVE  SoldInv'
<1>1. cart[r][j].id \in Product /\ cart[r][j].qty \in Nat
  <2>1. cart[r][j] \in Line
    BY SeqElement DEF TypeOK, Fitting
  <2> QED
    BY <2>1 DEF Line
<1>2. PICK p \in Product, q \in Nat :
         DeductStock(p, q) /\ taken' = [taken EXCEPT ![r][p] = @ + q]
  BY <1>1 DEF TakeUnits
<1>3. UnitsTaken(p)' = UnitsTaken(p) + q
  BY <1>1, <1>2, TakeUnitsAdds
<1>4. \A s \in Product \ {p} : UnitsTaken(s)' = UnitsTaken(s)
  BY <1>1, <1>2, TakeUnitsAdds
<1>5. /\ doc'[p].found /\ doc'[p].sold = Int32(doc[p].sold + q)
      /\ \A s \in Product \ {p} : doc'[s] = doc[s]
  <2>1. doc[p].found
    BY <1>2 DEF DeductStock, CanDeduct
  <2>2. DocTypeOK /\ q \in Int
    BY DEF TypeOK
  <2> QED
    BY <1>2, <2>1, <2>2, DeductFields
<1>6. Int32(doc[p].sold + q) = Int32(UnitsTaken(p) + q)
  <2>1. UnitsTaken(p) \in Int
    BY <1>1, UnitsTakenNat
  <2>2. doc[p].sold = Int32(UnitsTaken(p))
    BY <1>1 DEF SoldInv, SoldIsDeducted
  <2> QED
    BY <1>1, <2>1, <2>2, Int32Sum
<1>7. ASSUME NEW s \in Product
      PROVE  /\ doc'[s].sold = Int32(UnitsTaken(s)')
             /\ ~doc'[s].found => UnitsTaken(s)' = 0
  <2>1. CASE s = p
    <3>1. UnitsTaken(s)' = UnitsTaken(p) + q
      BY <1>3, <2>1
    <3> QED
      BY <1>5, <1>6, <2>1, <3>1
  <2>2. CASE s # p
    <3>1. UnitsTaken(s)' = UnitsTaken(s) /\ doc'[s] = doc[s]
      BY <1>4, <1>5, <2>2
    <3> QED
      BY <3>1 DEF SoldInv, SoldIsDeducted
  <2> QED
    BY <2>1, <2>2
<1> QED
  BY <1>7 DEF SoldInv, SoldIsDeducted

\* The administrator's scripts move neither.
LEMMA NextSold == TypeOK /\ SoldInv /\ [Next]_vars => SoldInv'
<1> SUFFICES ASSUME TypeOK, SoldInv, [Next]_vars
             PROVE  SoldInv'
  OBVIOUS
<1>1. CASE \E r \in Request : \E j \in Fitting(r) : TakeUnits(r, j)
  BY <1>1, DeductionCounts
<1>2. CASE \E p \in Product : Admin(p)
  <2>1. PICK p \in Product : Admin(p)
    BY <1>2
  <2>2. \A s \in Product : UnitsTaken(s)' = UnitsTaken(s)
    BY <2>1 DEF Admin, UnitsTaken, TakenBy
  <2>3. /\ \A s \in Product \ {p} : doc'[s] = doc[s]
        /\ doc'[p].found
        /\ doc'[p].sold = IF doc[p].found THEN doc[p].sold ELSE 0
    <3>1. CASE \E n \in StockLevels : IndexDocument(p, n)
      BY <3>1, IndexFields DEF TypeOK, IndexDocument
    <3>2. CASE \E n \in StockLevels : Restock(p, n)
      BY <3>2, RestockFields DEF TypeOK, Restock
    <3>3. CASE SoftDelete(p)
      BY <3>3, DeleteFields DEF TypeOK, SoftDelete
    <3> QED
      BY <2>1, <3>1, <3>2, <3>3 DEF Admin
  <2>4. Int32(0) = 0
    BY Int32Fixed
  <2>5. \A s \in Product : /\ doc'[s].sold = Int32(UnitsTaken(s)')
                           /\ ~doc'[s].found => UnitsTaken(s)' = 0
    BY <2>2, <2>3, <2>4 DEF SoldInv, SoldIsDeducted
  <2> QED
    BY <2>5 DEF SoldInv, SoldIsDeducted
<1>3. CASE UNCHANGED <<doc, taken>>
  BY <1>3 DEF SoldInv, SoldIsDeducted, UnitsTaken, TakenBy
<1> QED
  BY <1>1, <1>2, <1>3, StoreMoves

\* The counter and the sum in every reachable state.
LEMMA SoldInvariant == Spec => []SoldInv
  BY InitSold, NextSold, TypeCorrect, PTL DEF Spec

\* The sold counter of a product is the sum of all deductions for it, wrapped to
\* an int32, for any number of requests, administrators and failures.
THEOREM SoldIsSumOfDeductions == Spec => []SoldIsDeducted
<1>1. SoldInv => SoldIsDeducted
  BY DEF SoldInv
<1> QED
  BY <1>1, SoldInvariant, PTL

\* An order has one row for a product it took units of, with as many: the rows of
\* a product are the deductions of the requests that have an order.
LEMMA OrderedWasTaken ==
  ASSUME SagaInv, NEW p \in Product
  PROVE  UnitsOrdered(p) = TakenBy(placed, p)
<1> DEFINE R == {row \in rows : row.id = p}
           P == {r \in placed : taken[r][p] > 0}
           f == [row \in R |-> row.qty]
           g == [r \in Request |-> taken[r][p]]
           h == [row \in R |-> row.order]
<1>1. ASSUME NEW row \in R
      PROVE  row.order \in P /\ row.qty = taken[row.order][p] /\ row.qty \in Int
             /\ row = [order |-> row.order, id |-> p, qty |-> row.qty]
  <2>1. row \in [order : Request, id : Product, qty : Nat \ {0}] /\ row.id = p
    BY DEF SagaInv, TypeOK
  <2>2. row \in RowsOf(row.order) /\ row.order \in placed
    BY DEF SagaInv, RowsInv, RowsOf
  <2>3. RowsOf(row.order) = {[order |-> row.order, id |-> s, qty |-> taken[row.order][s]] :
                                s \in {t \in Product : taken[row.order][t] > 0}}
    BY <2>2 DEF SagaInv, OrderIsDeducted
  <2>4. row.qty = taken[row.order][p] /\ taken[row.order][p] > 0
    BY <2>1, <2>2, <2>3
  <2> QED
    BY <2>1, <2>2, <2>4
<1>2. ASSUME NEW r \in P
      PROVE  \E row \in R : h[row] = r
  <2>1. RowsOf(r) = {[order |-> r, id |-> s, qty |-> taken[r][s]] :
                        s \in {t \in Product : taken[r][t] > 0}}
    BY <1>2 DEF SagaInv, OrderIsDeducted
  <2>2. [order |-> r, id |-> p, qty |-> taken[r][p]] \in RowsOf(r)
    BY <1>2, <2>1
  <2> QED
    BY <2>2 DEF RowsOf
<1>3. P \subseteq placed /\ placed \subseteq Request /\ IsFiniteSet(placed) /\ IsFiniteSet(P)
  BY FS_Subset DEF SagaInv, TypeOK
<1>4. \A r \in Request : g[r] \in Nat
  BY DEF SagaInv, TypeOK
<1>5. \A r \in placed \ P : g[r] = 0
  BY <1>3, <1>4
<1>6. \A row \in R : h[row] \in P /\ f[row] \in Int /\ g[h[row]] = f[row]
  BY <1>1, <1>3
<1>7. \A x, y \in R : h[x] = h[y] => x = y
  BY <1>1
<1>8. {h[row] : row \in R} = P
  <2>1. \A r \in P : \E row \in R : h[row] = r
    BY <1>2
  <2>2. \A row \in R : h[row] \in P
    BY <1>6
  <2> HIDE DEF R, P, h
  <2> QED
    BY <2>1, <2>2
<1>9. IsFiniteSet(R)
  <2>1. h \in Injection(R, P)
    BY <1>6, <1>7 DEF Injection, IsInjective
  <2> HIDE DEF R, P, h
  <2> QED
    BY <1>3, <2>1, FS_Injection
<1>10. UnitsOrdered(p) = SumFunctionOnSet(f, R) /\ TakenBy(placed, p) = SumFunctionOnSet(g, placed)
  BY DEF UnitsOrdered, TakenBy
<1> HIDE DEF R, P, f, g, h
<1>11. SumFunctionOnSet(f, R) = SumFunctionOnSet(g, P)
  BY <1>6, <1>7, <1>8, <1>9, SumRenamed
<1>12. SumFunctionOnSet(g, placed) = SumFunctionOnSet(g, P) + SumFunctionOnSet(g, placed \ P)
  BY <1>3, <1>4, SumPartition
<1>13. SumFunctionOnSet(g, placed \ P) = 0
  BY <1>3, <1>5, FS_Subset, SumZero
<1>14. SumFunctionOnSet(g, P) \in Int
  BY <1>3, <1>4, SumInt
<1> QED
  BY <1>10, <1>11, <1>12, <1>13, <1>14

\* What the catalog counts as sold is on an order in the other database or held
\* by a request that has none, unit by unit, until that counter wraps.
THEOREM BooksBalance == Spec => []OrdersAreCounted
<1>1. SagaInv /\ SoldInv => OrdersAreCounted
  <2> SUFFICES ASSUME SagaInv, SoldInv, NEW p \in Product, UnitsTaken(p) < WordHalf
               PROVE  doc[p].sold = UnitsOrdered(p) + TakenBy(Request \ placed, p)
    BY DEF OrdersAreCounted
  <2>1. UnitsTaken(p) \in Nat
    BY UnitsTakenNat DEF SagaInv
  <2>2. doc[p].sold = UnitsTaken(p)
    BY <2>1, Int32Fixed DEF SoldInv, SoldIsDeducted
  <2>3. UnitsTaken(p) = TakenBy(placed, p) + TakenBy(Request \ placed, p)
    <3> DEFINE g == [r \in Request |-> taken[r][p]]
    <3>1. placed \in SUBSET Request /\ \A r \in Request : g[r] \in Int
      BY DEF SagaInv, TypeOK
    <3> HIDE DEF g
    <3>2. SumFunctionOnSet(g, Request)
             = SumFunctionOnSet(g, placed) + SumFunctionOnSet(g, Request \ placed)
      BY <3>1, SumPartition
    <3> QED
      BY <3>2 DEF UnitsTaken, TakenBy, g
  <2> QED
    BY <2>2, <2>3, OrderedWasTaken
<1> QED
  BY <1>1, SagaInvariant, SoldInvariant, PTL

-----------------------------------------------------------------------------
(* Refinement. *)

\* A deduction is a reservation of free units by a request without an order.
LEMMA DeductionReserves ==
  ASSUME TypeOK, NEW r \in Request, r \notin placed, NEW j \in Fitting(r),
         TakeUnits(r, j), UNCHANGED <<placed, rows>>
  PROVE  \E p \in Product : Ledger!Reserve(r, p)
<1> DEFINE p == cart[r][j].id
           q == cart[r][j].qty
<1>1. cart[r][j] \in Line
  BY SeqElement DEF TypeOK, Fitting
<1>2. p \in Product /\ q \in Nat
  BY <1>1 DEF Line
<1>3. doc[p] \in Document /\ doc \in [Product -> Document]
  BY <1>2 DEF TypeOK, DocTypeOK
<1>4. q \in 0..doc[p].stock
  BY <1>2, <1>3 DEF TakeUnits, DeductStock, CanDeduct, Document
<1> HIDE DEF p, q
<1>5. [s \in Product |-> doc[s].stock]'
        = [[s \in Product |-> doc[s].stock] EXCEPT ![p] = @ - q]
  <2>1. doc' = [doc EXCEPT ![p] = [doc[p] EXCEPT !.stock = doc[p].stock - q,
                                                !.sold = Int32(doc[p].sold + q)]]
    BY DEF TakeUnits, DeductStock, p, q
  <2>2. doc'[p].stock = doc[p].stock - q
    BY <1>2, <1>3, <2>1 DEF Document
  <2>3. \A s \in Product : s # p => doc'[s] = doc[s]
    BY <1>3, <2>1
  <2> QED
    BY <1>2, <2>2, <2>3
<1>6. taken' = [taken EXCEPT ![r][p] = @ + q]
  BY DEF TakeUnits, p, q
<1> QED
  BY <1>2, <1>4, <1>5, <1>6 DEF Ledger!Reserve

\* The rows of a commit are all its request holds in the ledger.
LEMMA CommitPlaces ==
  ASSUME SagaInv, NEW r \in Request, CreateOrder(r) \/ LateCommit(r)
  PROVE  Ledger!Place(r)
<1> USE DEF tables, store
<1>1. InsertOrder(r) /\ UNCHANGED <<doc, taken>>
  BY DEF CreateOrder, LateCommit
<1>2. Placeable(r)
  BY DEF CreateOrder, LateCommit, AtCreate, Placeable
<1>3. r \notin placed /\ OrderIsDeducted' /\ RowsInv
  BY <1>1, <1>2, InsertKeepsOrders DEF SagaInv
<1>4. placed' = placed \cup {r}
  BY <1>1 DEF InsertOrder
<1>5. {row \in rows' : row.order = r} = Ledger!Holding(r)
  BY <1>1, <1>3, <1>4 DEF OrderIsDeducted, RowsOf, Ledger!Holding
<1>6. rows' = rows \cup Ledger!Holding(r)
  <2> DEFINE new == {[order |-> r, id |-> lines[r][i].id, qty |-> lines[r][i].qty] :
                        i \in DOMAIN lines[r]}
  <2>1. rows' = rows \cup new
    BY <1>1 DEF InsertOrder
  <2>2. {row \in rows' : row.order = r} = new
    BY <1>3, <2>1 DEF RowsInv
  <2> QED
    BY <1>5, <2>1, <2>2
<1> QED
  BY <1>1, <1>3, <1>4, <1>6 DEF Ledger!Place

\* An administrator's script sets the level of one product.
LEMMA AdminSupplies ==
  ASSUME TypeOK, NEW p \in Product, Admin(p)
  PROVE  \E n \in StockLevels \cup {0} : Ledger!Supply(p, n)
<1>1. doc[p] \in Document /\ doc \in [Product -> Document]
  BY DEF TypeOK, DocTypeOK
<1>2. PICK n \in StockLevels \cup {0} :
         doc'[p].stock = n /\ \A s \in Product : s # p => doc'[s] = doc[s]
  <2>1. CASE \E n \in StockLevels : IndexDocument(p, n)
    BY <1>1, <2>1 DEF IndexDocument, NewDocument, Missing
  <2>2. CASE \E n \in StockLevels : Restock(p, n)
    BY <1>1, <2>2 DEF Restock, Document
  <2>3. CASE SoftDelete(p)
    BY <1>1, <2>3 DEF SoftDelete, Document
  <2> QED
    BY <2>1, <2>2, <2>3 DEF Admin
<1>3. UNCHANGED <<placed, rows, taken>>
  BY DEF Admin, tables
<1>4. [s \in Product |-> doc[s].stock]'
        = [[s \in Product |-> doc[s].stock] EXCEPT ![p] = n]
  BY <1>2
<1> QED
  BY <1>3, <1>4 DEF Ledger!Supply

\* Nothing is stocked, reserved or ordered at first.
LEMMA InitRefines == Init => Ledger!LedgerInit
  BY DEF Init, DocInit, Missing, Ledger!LedgerInit

\* Every step of the saga is a step of the ledger or leaves it unchanged.
LEMMA NextRefines == SagaInv /\ [Next]_vars => [Ledger!LedgerNext]_(Ledger!ledgerVars)
<1> SUFFICES ASSUME SagaInv, [Next]_vars
             PROVE  Ledger!LedgerNext \/ UNCHANGED Ledger!ledgerVars
  OBVIOUS
<1> USE DEF handler, tables, events, store
<1>1. TypeOK /\ ControlInv
  BY DEF SagaInv
<1>2. ASSUME UNCHANGED <<doc, taken, placed, rows>>
      PROVE  UNCHANGED Ledger!ledgerVars
  BY <1>2 DEF Ledger!ledgerVars
<1>3. ASSUME NEW r \in Request, DeductLine(r) \/ LateDeduction(r)
      PROVE  Ledger!LedgerNext
  <2>1. PICK j \in Fitting(r) : TakeUnits(r, j)
    BY <1>3 DEF DeductLine, LateDeduction
  <2>2. r \notin placed /\ UNCHANGED <<placed, rows>>
    BY <1>1, <1>3 DEF DeductLine, LateDeduction, AtProduct, ControlInv, Placeable
  <2> QED
    BY <1>1, <2>1, <2>2, DeductionReserves DEF Ledger!LedgerNext
<1>4. ASSUME NEW r \in Request, CreateOrder(r) \/ LateCommit(r)
      PROVE  Ledger!LedgerNext
  BY <1>4, CommitPlaces DEF Ledger!LedgerNext
<1>5. ASSUME NEW p \in Product, Admin(p)
      PROVE  Ledger!LedgerNext
  BY <1>1, <1>5, AdminSupplies DEF Ledger!LedgerNext
<1>6. ASSUME NEW r \in Request,
             \/ Submit(r) \/ AccountFound(r) \/ RefuseEmptyCart(r) \/ Lookup(r)
             \/ SkipProduct(r) \/ PublishEmail(r) \/ PublishFails(r)
             \/ CallFails(r) \/ Respond(r) \/ Timeout(r)
      PROVE  UNCHANGED <<doc, taken, placed, rows>>
  BY <1>6 DEF Submit, AccountFound, RefuseEmptyCart, Lookup, SkipProduct,
              PublishEmail, PublishFails, CallFails, Respond, Timeout
<1>7. ASSUME Crash \/ UNCHANGED vars
      PROVE  UNCHANGED <<doc, taken, placed, rows>>
  BY <1>7 DEF Crash, vars
<1> QED
  BY <1>2, <1>3, <1>4, <1>5, <1>6, <1>7 DEF Next, HandlerStep, LateStep

\* PostOrder with all its failures implements the stock ledger.
THEOREM SagaRefinesLedger == Spec => RefinesLedger
<1>1. Spec => Ledger!LedgerInit /\ [][Ledger!LedgerNext]_(Ledger!ledgerVars)
  BY InitRefines, NextRefines, SagaInvariant, PTL DEF Spec
<1> QED
  BY <1>1 DEF RefinesLedger, Ledger!LedgerSpec
==============================================================================
