---------------------------- MODULE MCMessenger ----------------------------
(* Instances of Messenger for TLC. *)
EXTENDS Messenger

CONSTANT m1

OneMessage == {m1}
=============================================================================
