---------------------------- MODULE MCOrderStatus ----------------------------
(* Small instances of OrderStatus for TLC. *)
EXTENDS OrderStatus, TLC
==============================================================================
