--------------------------- MODULE MCSlotPipeline ---------------------------
(* SlotPipeline for TLC; the bounds are in the configurations. *)
EXTENDS SlotPipeline
=============================================================================
