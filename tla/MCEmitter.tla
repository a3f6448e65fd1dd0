----------------------------- MODULE MCEmitter -----------------------------
(* Emitter for TLC. *)
EXTENDS Emitter
=============================================================================
