----------------------------- MODULE MCOrderSaga -----------------------------
(* Small instances of OrderSaga for TLC. *)
EXTENDS OrderSaga

CONSTANTS A, B

One(p, n) == [id |-> p, qty |-> n]

\* Contending requests: the same products in different orders and quantities.
ContendingCarts == {<<One(A, 1), One(B, 1)>>, <<One(B, 1), One(A, 2)>>}

\* The edges: no product (the gateway refuses it, the order service checks for
\* itself), a product twice, a quantity of 2^32 that the gateway made zero.
EdgeCarts == {<<>>, <<One(A, 1), One(A, 2)>>, <<One(A, 0), One(B, 1)>>}

Levels == 1..2
==============================================================================
