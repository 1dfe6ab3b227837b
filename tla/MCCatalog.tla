------------------------------ MODULE MCCatalog ------------------------------
(* Small instances of Catalog for TLC. *)
EXTENDS Catalog, TLC

\* With WordHalf = 4: a stock within the range, newStock at -WordHalf and at
\* zero after the conversion to int32.
BoundaryAmounts == {2, 4, 8}
InRangeAmounts == {1, 2}

OrderQuantities == 0..2

CallSymmetry == Permutations(Call)
==============================================================================
