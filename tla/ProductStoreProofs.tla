------------------------- MODULE ProductStoreProofs -------------------------
(***************************************************************************)
(* What the operations of ProductStore compute and preserve, for every     *)
(* width of the integers: lemmas for the modules that use the store.       *)
(***************************************************************************)
EXTENDS ProductStore, TLAPS

USE WordHalfAssumption

-----------------------------------------------------------------------------
(* The int32 conversion. *)

\* Division with remainder, as the SMT solver knows it.
LEMMA DivMod ==
  ASSUME NEW m \in Nat \ {0}, NEW y \in Int
  PROVE  /\ y = m * (y \div m) + (y % m)
         /\ y \div m \in Int
         /\ y % m \in 0..(m - 1)
  OBVIOUS

\* The only multiple of m strictly between -m and m is zero.
LEMMA NoMultipleBetween ==
  ASSUME NEW m \in Nat \ {0}, NEW t \in Int, m * t < m, -m < m * t
  PROVE  t = 0
<1>1. CASE t >= 1
  <2>1. m * t >= m
    BY <1>1
  <2> QED
    BY <2>1
<1>2. CASE t <= -1
  <2>1. m * t <= -m
    BY <1>2
  <2> QED
    BY <2>1
<1> QED BY <1>1, <1>2

\* A remainder can be taken before adding or after.
LEMMA ModSum ==
  ASSUME NEW m \in Nat \ {0}, NEW x \in Int, NEW q \in Int
  PROVE  ((x % m) + q) % m = (x + q) % m
<1> DEFINE d == x \div m
           a == x % m
           y == a + q
           z == x + q
           e == y \div m
           r == y % m
           f == z \div m
           s == z % m
<1>1. x = m * d + a /\ d \in Int /\ a \in Int
  BY DivMod
<1> HIDE DEF d, a
<1>0. y \in Int /\ z \in Int
  BY <1>1
<1> HIDE DEF y, z
<1>2. y = m * e + r /\ e \in Int /\ r \in 0..(m - 1)
  BY <1>0, DivMod
<1>3. z = m * f + s /\ f \in Int /\ s \in 0..(m - 1)
  BY <1>0, DivMod
<1> HIDE DEF e, r, f, s
<1> USE DEF y, z
<1>4. m * (d + e - f) = s - r
  <2>1. m * (d + e - f) = m * d + m * e - m * f
    BY <1>1, <1>2, <1>3
  <2> QED
    BY <2>1, <1>1, <1>2, <1>3
<1>5. d + e - f = 0
  <2>1. m * (d + e - f) < m /\ -m < m * (d + e - f)
    BY <1>2, <1>3, <1>4
  <2>2. d + e - f \in Int
    BY <1>1, <1>2, <1>3
  <2> QED
    BY <2>1, <2>2, NoMultipleBetween
<1>6. s = r
  BY <1>2, <1>3, <1>4, <1>5
<1> QED
  BY <1>6 DEF r, s, a

\* Its result is an int32.
LEMMA Int32Range == \A n \in Int : Int32(n) \in -WordHalf..(WordHalf - 1)
  BY DEF Int32

\* It changes no int32.
LEMMA Int32Fixed == \A n \in -WordHalf..(WordHalf - 1) : Int32(n) = n
  BY DEF Int32

\* Wrapping a counter before it grows further does not change what it wraps to.
LEMMA Int32Sum ==
  ASSUME NEW a \in Int, NEW q \in Int
  PROVE  Int32(Int32(a) + q) = Int32(a + q)
<1> DEFINE m == 2 * WordHalf
           x == a + WordHalf
<1>1. m \in Nat \ {0} /\ x \in Int
  OBVIOUS
<1>2. x % m \in Int
  BY <1>1
<1>3. (Int32(a) + q) + WordHalf = (x % m) + q /\ (a + q) + WordHalf = x + q
  BY <1>2 DEF Int32
<1> HIDE DEF m, x
<1>4. ((x % m) + q) % m = (x + q) % m
  BY <1>1, ModSum
<1> QED
  BY <1>3, <1>4 DEF Int32, m

-----------------------------------------------------------------------------
(* The operations of the store keep the documents well typed. *)

\* Int32 of a whole number is one (how it wraps does not matter here).
LEMMA Int32Type == \A n \in Int : Int32(n) \in Int
  BY DEF Int32

\* A document with some fields replaced is a document.
LEMMA DocumentFields ==
  ASSUME NEW d \in Document, NEW n \in Int, NEW m \in Int, NEW b \in BOOLEAN
  PROVE  /\ [d EXCEPT !.stock = n, !.sold = m] \in Document
         /\ [d EXCEPT !.stock = n, !.out_of_stock = b] \in Document
         /\ [d EXCEPT !.out_of_stock = b, !.stock = n] \in Document
         /\ [d EXCEPT !.found = b, !.stock = n] \in Document
  BY DEF Document

\* Every write of the store maps documents to documents.
LEMMA StoreType ==
  ASSUME DocTypeOK, NEW p \in Product, NEW n \in Int,
         DeductStock(p, n) \/ IndexDocument(p, n) \/ Restock(p, n) \/ SoftDelete(p)
  PROVE  DocTypeOK'
<1>1. doc[p] \in Document
  BY DEF DocTypeOK
<1>2. ASSUME NEW d \in Document, doc' = [doc EXCEPT ![p] = d]
      PROVE  DocTypeOK'
  BY <1>2 DEF DocTypeOK
<1>3. CASE DeductStock(p, n)
  <2>1. doc[p].stock - n \in Int /\ Int32(doc[p].sold + n) \in Int
    BY <1>1, Int32Type DEF Document
  <2>2. doc' = [doc EXCEPT ![p] =
          [doc[p] EXCEPT !.stock = doc[p].stock - n, !.sold = Int32(doc[p].sold + n)]]
    BY <1>3 DEF DeductStock
  <2> QED
    BY <1>1, <1>2, <2>1, <2>2, DocumentFields
<1>4. CASE IndexDocument(p, n)
  <2>1. NewDocument(n) \in Document
    <3>1. Missing \in Document
      BY DEF Missing, Document
    <3> QED
      BY <3>1, DocumentFields DEF NewDocument
  <2> QED
    BY <1>2, <1>4, <2>1 DEF IndexDocument
<1>5. CASE Restock(p, n)
  BY <1>1, <1>2, <1>5, DocumentFields DEF Restock
<1>6. CASE SoftDelete(p)
  <2>1. 0 \in Int /\ TRUE \in BOOLEAN
    OBVIOUS
  <2>2. [doc[p] EXCEPT !.out_of_stock = TRUE, !.stock = 0] \in Document
    BY <1>1, <2>1, DocumentFields, Zenon
  <2> QED
    BY <1>2, <1>6, <2>2 DEF SoftDelete
<1> QED
  BY <1>3, <1>4, <1>5, <1>6

-----------------------------------------------------------------------------
(* What the operations write, field by field. *)

\* A deduction.
LEMMA DeductFields ==
  ASSUME DocTypeOK, NEW p \in Product, NEW q \in Int, DeductStock(p, q)
  PROVE  /\ \A x \in Product \ {p} : doc'[x] = doc[x]
         /\ doc'[p].found = doc[p].found
         /\ doc'[p].stock = doc[p].stock - q
         /\ doc'[p].sold = Int32(doc[p].sold + q)
         /\ doc'[p].out_of_stock = doc[p].out_of_stock
<1>1. doc[p] \in Document /\ doc \in [Product -> Document]
  BY DEF DocTypeOK
<1>2. \A d \in Document : \A n, m :
         LET e == [d EXCEPT !.stock = n, !.sold = m]
         IN  /\ e.found = d.found /\ e.out_of_stock = d.out_of_stock
             /\ e.stock = n /\ e.sold = m
  BY DEF Document
<1>3. doc' = [doc EXCEPT ![p] =
        [doc[p] EXCEPT !.stock = doc[p].stock - q, !.sold = Int32(doc[p].sold + q)]]
  BY DEF DeductStock
<1>4. doc'[p] = [doc[p] EXCEPT !.stock = doc[p].stock - q, !.sold = Int32(doc[p].sold + q)]
  BY <1>1, <1>3
<1>5. \A x \in Product \ {p} : doc'[x] = doc[x]
  BY <1>1, <1>3
<1> QED
  BY <1>1, <1>2, <1>4, <1>5

\* The indexing of a new product.
LEMMA IndexFields ==
  ASSUME DocTypeOK, NEW p \in Product, NEW n \in Int, IndexDocument(p, n)
  PROVE  /\ \A x \in Product \ {p} : doc'[x] = doc[x]
         /\ doc'[p].found = TRUE
         /\ doc'[p].stock = n
         /\ doc'[p].sold = 0
         /\ doc'[p].out_of_stock = FALSE
<1>1. doc \in [Product -> Document]
  BY DEF DocTypeOK
<1>2. doc'[p] = NewDocument(n) /\ \A x \in Product \ {p} : doc'[x] = doc[x]
  BY <1>1 DEF IndexDocument
<1>3. \A d \in Document : \A b, m :
         LET e == [d EXCEPT !.found = b, !.stock = m]
         IN  /\ e.found = b /\ e.stock = m
             /\ e.sold = d.sold /\ e.out_of_stock = d.out_of_stock
  BY DEF Document
<1>4. Missing \in Document /\ Missing.sold = 0 /\ Missing.out_of_stock = FALSE
  BY DEF Missing, Document
<1> QED
  BY <1>2, <1>3, <1>4 DEF NewDocument

\* A restock.
LEMMA RestockFields ==
  ASSUME DocTypeOK, NEW p \in Product, NEW n \in Int, Restock(p, n)
  PROVE  /\ \A x \in Product \ {p} : doc'[x] = doc[x]
         /\ doc'[p].found = doc[p].found
         /\ doc'[p].stock = n
         /\ doc'[p].sold = doc[p].sold
         /\ doc'[p].out_of_stock = FALSE
<1>1. doc[p] \in Document /\ doc \in [Product -> Document]
  BY DEF DocTypeOK
<1>2. \A d \in Document : \A m, b :
         LET e == [d EXCEPT !.stock = m, !.out_of_stock = b]
         IN  e.found = d.found /\ e.sold = d.sold /\ e.stock = m /\ e.out_of_stock = b
  BY DEF Document
<1>3. doc'[p] = [doc[p] EXCEPT !.stock = n, !.out_of_stock = FALSE]
  BY <1>1 DEF Restock
<1>4. \A x \in Product \ {p} : doc'[x] = doc[x]
  BY <1>1 DEF Restock
<1> QED
  BY <1>1, <1>2, <1>3, <1>4

\* A soft delete.
LEMMA DeleteFields ==
  ASSUME DocTypeOK, NEW p \in Product, SoftDelete(p)
  PROVE  /\ \A x \in Product \ {p} : doc'[x] = doc[x]
         /\ doc'[p].found = doc[p].found
         /\ doc'[p].stock = 0
         /\ doc'[p].sold = doc[p].sold
         /\ doc'[p].out_of_stock = TRUE
<1>1. doc[p] \in Document /\ doc \in [Product -> Document]
  BY DEF DocTypeOK
<1>2. \A d \in Document : \A m, b :
         LET e == [d EXCEPT !.out_of_stock = b, !.stock = m]
         IN  e.found = d.found /\ e.sold = d.sold /\ e.stock = m /\ e.out_of_stock = b
  BY DEF Document
<1>3. doc'[p] = [doc[p] EXCEPT !.out_of_stock = TRUE, !.stock = 0]
  BY <1>1 DEF SoftDelete
<1>4. \A x \in Product \ {p} : doc'[x] = doc[x]
  BY <1>1 DEF SoftDelete
<1> QED
  BY <1>1, <1>2, <1>3, <1>4
=============================================================================
