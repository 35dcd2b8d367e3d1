---------------------------- MODULE MCBootSwitch ----------------------------
(* Model-checking instances of BootSwitch. *)
EXTENDS BootSwitch
=============================================================================
