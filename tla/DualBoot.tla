------------------------------ MODULE DualBoot ------------------------------
(***************************************************************************)
(* What liuqin-switch promises about Android: boot_a is overwritten only   *)
(* inside a switch, a switch over an Android image begins only when the    *)
(* archive holds that very image, and the archive is not given up before   *)
(* the switch is over, whichever way it ends.                              *)
(***************************************************************************)
CONSTANTS
  Image,    \* contents boot_a may have
  Android,  \* those that identify as an Android boot image
  Absent    \* no usable archive

VARIABLES
  boot,       \* content of boot_a
  archive,    \* the archived Android image that would survive a power loss
  switching   \* a switch may be writing boot_a

vars == <<boot, archive, switching>>

Init == boot \in Image /\ archive \in Android \cup {Absent} /\ switching = FALSE

Begin ==
  /\ ~switching /\ switching' = TRUE
  /\ boot \in Android => archive = boot
  /\ UNCHANGED <<boot, archive>>

Write == switching /\ boot' \in Image /\ UNCHANGED <<archive, switching>>

\* However it ends, the archive is still there; a power loss may at most bring
\* back one that a commit cut short had moved away.
End ==
  /\ switching /\ switching' = FALSE
  /\ archive' \in Android \cup {Absent} /\ (archive # Absent => archive' = archive)
  /\ UNCHANGED boot

Rearchive == ~switching /\ archive' \in Android \cup {Absent} /\ UNCHANGED <<boot, switching>>

\* Another program, or a host, replaces boot_a.
Replace == ~switching /\ boot' \in Image /\ UNCHANGED <<archive, switching>>

Next == Begin \/ Write \/ End \/ Rearchive \/ Replace

Spec == Init /\ [][Next]_vars

=============================================================================
