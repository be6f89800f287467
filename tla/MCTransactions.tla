--------------------------- MODULE MCTransactions ---------------------------
(* Instances of Transactions for TLC. *)
EXTENDS Transactions

CONSTANTS listing, followers, rating
=============================================================================
