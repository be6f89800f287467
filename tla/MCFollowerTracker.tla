-------------------------- MODULE MCFollowerTracker --------------------------
(* Instances of FollowerTracker for TLC. *)
EXTENDS FollowerTracker

CONSTANTS a, b
=============================================================================
