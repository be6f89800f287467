------------------------------ MODULE MCOrders ------------------------------
(* Instances of Orders for TLC. *)
EXTENDS Orders

CONSTANTS p1, p2

OnePayment == {p1}
TwoPayments == {p1, p2}
=============================================================================
