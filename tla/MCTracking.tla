----------------------------- MODULE MCTracking -----------------------------
(* Tracking for TLC: two connections of one peer, a stream on each. *)
EXTENDS Tracking, TLC
CONSTANTS k1, k2, w1, w2, p1
MCOnConn == w1 :> k1 @@ w2 :> k2
MCPeerOf == k1 :> p1 @@ k2 :> p1
=============================================================================
