---------------------------- MODULE MCBroadcast -----------------------------
(* Broadcast for TLC; the bounds are in the configurations. *)
EXTENDS Broadcast
=============================================================================
