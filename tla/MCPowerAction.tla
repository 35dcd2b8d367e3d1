---------------------------- MODULE MCPowerAction -----------------------------
(* Model-checking instances of PowerAction. *)
EXTENDS PowerAction
=============================================================================
