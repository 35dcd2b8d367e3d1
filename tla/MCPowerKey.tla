---------------------------- MODULE MCPowerKey -----------------------------
(* Model-checking instances of PowerKey. *)
EXTENDS PowerKey
=============================================================================
