---------------------------- MODULE MCSlotMark -----------------------------
(* Model-checking instances of SlotMark. *)
EXTENDS SlotMark
=============================================================================
