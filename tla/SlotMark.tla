------------------------------ MODULE SlotMark ------------------------------
(***************************************************************************)
(* liuqin-mark-slot-successful, and the place in the initramfs that calls  *)
(* it: before the root is handed over, the slot this boot came from is     *)
(* checked, marked successful if it is not, and checked again.             *)
(*                                                                         *)
(* The partition table of the disk sde has two copies, each an array of    *)
(* entries and a header with the checksum of the array.  An array stands   *)
(* for the attributes of boot_a and boot_b; a header for the array it was  *)
(* made for, so a copy is valid when the two are equal.  Torn is what an   *)
(* interrupted write of either leaves: it matches nothing.                 *)
(***************************************************************************)
EXTENDS Naturals

CONSTANTS
  MaxTries,    \* largest retry count (three bits of the attributes)
  MaxFaults,   \* bound: failing ioctls, opens, reads and writes
  MaxCrashes,  \* bound: power losses
  Torn

Slots  == {"a", "b"}
Copies == {"primary", "backup"}
Attributes == [top: BOOLEAN, active: BOOLEAN, tries: 0..MaxTries,
               successful: BOOLEAN, unbootable: BOOLEAN]
Tables == [Slots -> Attributes]

ASSUME TriesAssumption == MaxTries \in Nat /\ Torn \notin Tables
ASSUME BoundAssumption == MaxFaults \in Nat /\ MaxCrashes \in Nat

VARIABLES
  entries, header,  \* what the medium holds, per copy
  ro,               \* kernel read-only flag of the disk
  running,          \* slot in the kernel command line, or "none"
  stage,            \* of the boot: which call of the tool is under way
  at,               \* where that call is
  want,             \* the array to be written (mark)
  rc,               \* the call's result so far
  faults, crashes

medium == <<entries, header>>
budget == <<faults, crashes>>
vars   == <<entries, header, ro, running, stage, at, want, rc, faults, crashes>>

Calls    == {"check", "mark", "recheck"}
Stages   == {"down", "handover", "refused"} \cup Calls
Writing  == {"backupEntries", "backupHeader", "primaryEntries", "primaryHeader"}
Places   == {"load", "unseal", "readBack", "seal", "none"} \cup Writing

Valid(copy) == entries[copy] # Torn /\ header[copy] = entries[copy]

\* The copy a reader goes by: the primary one while it is valid.
Chosen == IF Valid("primary") THEN entries["primary"] ELSE entries["backup"]

\* Slip: marking also gives a try back.
MarkedWithTry(table, slot) ==
  [table EXCEPT ![slot].successful = TRUE, ![slot].unbootable = FALSE, ![slot].tries = @ + 1]
Marked(table, slot) == [table EXCEPT ![slot].successful = TRUE, ![slot].unbootable = FALSE]

Fault == faults < MaxFaults /\ faults' = faults + 1

Init ==
  /\ \E slot \in Slots, a \in Attributes, b \in Attributes :
        /\ b = [a EXCEPT !.top = FALSE, !.active = FALSE]
        /\ LET table == [s \in Slots |-> IF s = slot THEN a ELSE b]
           IN entries = [c \in Copies |-> table] /\ header = entries
  /\ ro = TRUE /\ running = "none" /\ stage = "down" /\ at = "none"
  /\ want = Torn /\ rc = 1 /\ faults = 0 /\ crashes = 0

-----------------------------------------------------------------------------
(* The bootloader and the caller *)

\* ABL picks a slot and counts a try in both arrays; it may leave the checksum
\* of the backup array stale.  It may also repair the primary copy.
Boot ==
  /\ stage = "down"
  /\ running' \in Slots \cup {"none"}
  /\ \/ UNCHANGED medium
     \/ /\ Valid("primary") /\ running' \in Slots
        /\ LET table == entries["primary"]
               tries == table[running'].tries
               next  == [table EXCEPT ![running'].tries = IF tries = 0 THEN 0 ELSE tries - 1]
           IN /\ entries' = [c \in Copies |-> next]
              /\ header' \in {[header EXCEPT !["primary"] = next], [c \in Copies |-> next]}
     \/ /\ ~Valid("primary") /\ Valid("backup")
        /\ entries' = [c \in Copies |-> entries["backup"]] /\ header' = entries'
  /\ ro' = TRUE  \* storage_lock_all
  /\ stage' = (IF running' = "none" THEN "refused" ELSE "check")
  /\ at' = (IF running' = "none" THEN "none" ELSE "load")
  /\ want' = Torn /\ rc' = 1
  /\ UNCHANGED budget

\* check, else mark and check again; anything else refuses the hand-over.
Return(status) ==
  /\ stage' = CASE stage = "check"   -> IF status = 0 THEN "handover" ELSE "mark"
                [] stage = "mark"    -> IF status = 0 THEN "recheck" ELSE "refused"
                [] stage = "recheck" -> IF status = 0 THEN "handover" ELSE "refused"
                [] OTHER -> stage
  /\ at' = (IF stage' \in Calls THEN "load" ELSE "none")
  /\ rc' = 1

-----------------------------------------------------------------------------
(* One call of the tool *)

\* The running slot has to look like the one ABL chose.
ChosenByABL(attr) == attr.top /\ attr.active /\ (attr.tries > 0 \/ attr.successful)
\* Slip: a slot that ABL gave up is taken for a successful one.
SuccessfulOnce(attr) == attr.successful
Successful(attr) == attr.successful /\ ~attr.unbootable

\* Slip: a backup copy whose checksum is stale is not accepted.
ReadableIfValid == Valid("primary") /\ Valid("backup")
\* A stale checksum of the backup array is accepted, a bad header is not.
Readable == Valid("primary") /\ header["backup"] # Torn

Accepts == ro /\ Readable /\ ChosenByABL(entries["primary"][running])

Load ==
  /\ at = "load"
  /\ \/ /\ Accepts /\ stage = "mark"
        /\ want' = Marked(entries["primary"], running)
        /\ at' = "unseal" /\ UNCHANGED <<stage, rc, faults>>
     \/ /\ Accepts /\ stage # "mark"
        /\ Return(IF Successful(entries["primary"][running]) THEN 0 ELSE 1)
        /\ UNCHANGED <<want, faults>>
     \/ /\ ~Accepts \/ entries["backup"] = Torn  \* find_boot may fail in a torn array
        /\ Return(1) /\ UNCHANGED <<want, faults>>
     \/ Fault /\ Return(1) /\ UNCHANGED want
  /\ UNCHANGED <<medium, ro, running, crashes>>

\* Slip: the primary copy is written first.
AfterPrimaryFirst ==
  [unseal |-> "primaryEntries", primaryEntries |-> "primaryHeader", primaryHeader |-> "backupEntries",
   backupEntries |-> "backupHeader", backupHeader |-> "readBack"]
\* "Backup GPT first"; every write is on the medium before the next begins.
After ==
  [unseal |-> "backupEntries", backupEntries |-> "backupHeader", backupHeader |-> "primaryEntries",
   primaryEntries |-> "primaryHeader", primaryHeader |-> "readBack"]

CopyAt == IF at \in {"backupEntries", "backupHeader"} THEN "backup" ELSE "primary"
Write(content) ==
  IF at \in {"backupEntries", "primaryEntries"}
  THEN entries' = [entries EXCEPT ![CopyAt] = content] /\ UNCHANGED header
  ELSE header' = [header EXCEPT ![CopyAt] = content] /\ UNCHANGED entries
\* A write cut short: nothing of it, a part of it, or all of it is there.
CutShort == UNCHANGED medium \/ Write(Torn) \/ Write(want)

\* BLKROSET 0, then the disk is opened again for writing.
Unseal ==
  /\ at = "unseal"
  /\ \/ ro' = FALSE /\ at' = After[at] /\ UNCHANGED <<stage, rc, faults>>
     \/ Fault /\ UNCHANGED ro /\ Return(1)
     \/ Fault /\ ro' = FALSE /\ at' = "seal" /\ UNCHANGED <<stage, rc>>
  /\ UNCHANGED <<medium, running, want, crashes>>

WriteNext ==
  /\ at \in Writing
  /\ \/ Write(want) /\ at' = After[at] /\ UNCHANGED faults
     \/ Fault /\ CutShort /\ at' = "seal"
  /\ UNCHANGED <<ro, running, stage, want, rc, crashes>>

\* Both copies are read again, compared and looked at.
Written ==
  /\ Valid("primary") /\ Valid("backup") /\ entries["primary"] = entries["backup"]
  /\ entries["primary"][running] = want[running]

ReadBack ==
  /\ at = "readBack"
  /\ \/ rc' = (IF Written THEN 0 ELSE 1) /\ UNCHANGED faults
     \/ Fault /\ UNCHANGED rc
  /\ at' = "seal"
  /\ UNCHANGED <<medium, ro, running, stage, want, crashes>>

\* BLKROSET 1; a flag that stays open makes the call fail.
Seal ==
  /\ at = "seal"
  /\ \/ ro' = TRUE /\ Return(rc) /\ UNCHANGED faults
     \/ Fault /\ UNCHANGED ro /\ Return(1)
  /\ UNCHANGED <<medium, running, want, crashes>>

-----------------------------------------------------------------------------
PowerLoss ==
  /\ stage # "down" /\ crashes < MaxCrashes /\ crashes' = crashes + 1
  /\ IF at \in Writing THEN CutShort ELSE UNCHANGED medium
  /\ stage' = "down" /\ at' = "none"
  /\ UNCHANGED <<ro, running, want, rc, faults>>

\* The boot is over: the tablet is restarted in order.
Restart ==
  /\ stage \in {"handover", "refused"}
  /\ stage' = "down"
  /\ UNCHANGED <<medium, ro, running, at, want, rc, budget>>

Tool == Load \/ Unseal \/ WriteNext \/ ReadBack \/ Seal
Next == Boot \/ Tool \/ PowerLoss \/ Restart

Spec == Init /\ [][Next]_vars
\* The tool runs on; nobody has to restart the tablet.
FairSpec == Spec /\ WF_vars(Tool)

-----------------------------------------------------------------------------
(* Properties *)

\* Every variable holds a value of its kind, whatever is cut short.
TypeOK ==
  /\ entries \in [Copies -> Tables \cup {Torn}] /\ header \in [Copies -> Tables \cup {Torn}]
  /\ ro \in BOOLEAN /\ running \in Slots \cup {"none"} /\ stage \in Stages /\ at \in Places
  /\ want \in Tables \cup {Torn} /\ rc \in {0, 1}
  /\ faults \in 0..MaxFaults /\ crashes \in 0..MaxCrashes

\* "A power loss always leaves at least one old/new copy": whatever is cut
\* short, and however often, one copy of the table is valid.
OneCopyValid == \E copy \in Copies : Valid(copy)

\* "It must never select a slot": by the copy a reader goes by, a call changes
\* nothing but the two bits of the slot that runs, even half way through.
NeverSelects ==
  [][stage # "down" =>
       \A slot \in Slots :
         \/ Chosen'[slot] = Chosen[slot]
         \/ /\ slot = running
            /\ \E ok, dead \in BOOLEAN :
                 Chosen'[slot] = [Chosen[slot] EXCEPT !.successful = ok, !.unbootable = dead]]_vars

\* The root is handed over only with the disk sealed again, the primary copy
\* valid and the running slot successful in it, so that no retry counter of
\* the bootloader takes the boot back.
HandoverVerified ==
  stage = "handover" =>
    /\ ro /\ running \in Slots /\ Valid("primary")
    /\ entries["primary"][running].successful /\ ~entries["primary"][running].unbootable

\* A slot that ABL has chosen, with a valid primary copy and a backup copy at
\* worst stale, is handed over unless an operation fails or power is lost.
SlotIsMarked ==
  /\ at = "load" /\ stage = "check" /\ ro
  /\ Valid("primary") /\ ChosenByABL(entries["primary"][running])
  /\ entries["backup"] # Torn /\ header["backup"] # Torn
  ~> stage = "handover" \/ faults > 0 \/ crashes > 0

=============================================================================
