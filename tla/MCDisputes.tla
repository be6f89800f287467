----------------------------- MODULE MCDisputes -----------------------------
(* An instance of Disputes for TLC. *)
EXTENDS Disputes

CONSTANT p1

OnePayment == {p1}
=============================================================================
