--------------------------- MODULE SlotMarkProof ----------------------------
(***************************************************************************)
(* Theorems about SlotMark, for any retry count, any table and any number  *)
(* of errors and power losses.                                             *)
(***************************************************************************)
EXTENDS SlotMark, TLAPS

\* What a write of the new array may rely on, place by place: until the backup
\* copy is complete the primary one is untouched, and from then on the backup
\* copy is the new array.
Ahead == Valid("primary") /\ want = Marked(entries["primary"], running)
Saved == Valid("backup") /\ entries["backup"] = want
PhaseInv ==
  /\ at \in {"unseal", "backupEntries", "backupHeader", "primaryEntries"} => Ahead
  /\ at = "backupHeader" => entries["backup"] = want
  /\ at \in {"primaryEntries", "primaryHeader", "readBack"} => Saved
  /\ at \in {"primaryHeader", "readBack"} => entries["primary"] = want
  /\ at = "readBack" => Valid("primary")

PlaceInv ==
  /\ at = "load" => stage \in Calls
  /\ at \notin {"load", "none"} => stage = "mark" /\ want \in Tables
  /\ stage \in Calls => running \in Slots /\ at # "none"

Inv == TypeOK /\ OneCopyValid /\ PhaseInv /\ PlaceInv /\ HandoverVerified

LEMMA MarkedType ==
  ASSUME NEW table \in Tables, NEW slot \in Slots
  PROVE  Marked(table, slot) \in Tables
  BY DEF Marked, Tables, Attributes

\* Whatever a call returns, the next place fits the next stage.
LEMMA ReturnPlace ==
  ASSUME Inv, NEW status \in {0, 1}, stage \in Calls, Return(status)
  PROVE  /\ stage' \in Calls \cup {"handover", "refused"}
         /\ at' = (IF stage' \in Calls THEN "load" ELSE "none")
         /\ rc' \in {0, 1}
         /\ stage' = "handover" => status = 0 /\ stage \in {"check", "recheck"}
  BY DEF Return, Calls

\* The writes, the ones cut short too, leave what they leave.
LEMMA WriteLeaves ==
  ASSUME Inv, at \in Writing, Write(want) \/ CutShort
  PROVE  /\ entries' \in [Copies -> Tables \cup {Torn}] /\ header' \in [Copies -> Tables \cup {Torn}]
         /\ at \in {"backupEntries", "backupHeader"} =>
              entries'["primary"] = entries["primary"] /\ header'["primary"] = header["primary"]
         /\ at \in {"primaryEntries", "primaryHeader"} =>
              entries'["backup"] = entries["backup"] /\ header'["backup"] = header["backup"]
         /\ at \in {"backupHeader", "primaryHeader"} => entries' = entries
         /\ at \in {"backupEntries", "primaryEntries"} => header' = header
         /\ at = "primaryEntries" => entries'["primary"] \in {entries["primary"], Torn, want}
         /\ Write(want) => /\ at = "backupEntries"  => entries'["backup"] = want
                           /\ at = "backupHeader"   => header'["backup"] = want
                           /\ at = "primaryEntries" => entries'["primary"] = want
                           /\ at = "primaryHeader"  => header'["primary"] = want
<1>1. entries \in [Copies -> Tables \cup {Torn}] /\ header \in [Copies -> Tables \cup {Torn}]
      /\ want \in Tables
  BY DEF Inv, TypeOK, PlaceInv, Writing
<1>2. "primary" \in Copies /\ "backup" \in Copies
  BY DEF Copies
<1>3. CASE at = "backupEntries"
  BY <1>1, <1>2, <1>3 DEF CutShort, Write, CopyAt, medium, Copies
<1>4. CASE at = "backupHeader"
  BY <1>1, <1>2, <1>4 DEF CutShort, Write, CopyAt, medium, Copies
<1>5. CASE at = "primaryEntries"
  BY <1>1, <1>2, <1>5 DEF CutShort, Write, CopyAt, medium, Copies
<1>6. CASE at = "primaryHeader"
  BY <1>1, <1>2, <1>6 DEF CutShort, Write, CopyAt, medium, Copies
<1>7. QED
  BY <1>3, <1>4, <1>5, <1>6 DEF Writing

\* Through every write, one copy stays valid.
LEMMA WriteKeepsCopy ==
  ASSUME Inv, at \in Writing, Write(want) \/ CutShort
  PROVE  OneCopyValid'
<1>1. CASE at \in {"backupEntries", "backupHeader"}
  BY <1>1, WriteLeaves DEF Inv, PhaseInv, Ahead, OneCopyValid, Valid, Copies
<1>2. CASE at \in {"primaryEntries", "primaryHeader"}
  BY <1>2, WriteLeaves DEF Inv, PhaseInv, Saved, OneCopyValid, Valid, Copies
<1>3. QED
  BY <1>1, <1>2 DEF Writing

LEMMA LoadStep == ASSUME Inv, Load PROVE Inv'
<1> stage \in Calls /\ running \in Slots
  BY DEF Load, Inv, PlaceInv
<1>1. CASE Accepts /\ stage = "mark" /\ want' = Marked(entries["primary"], running)
           /\ at' = "unseal" /\ UNCHANGED <<stage, rc, faults>>
  <2>1. Valid("primary") /\ entries["primary"] \in Tables
    BY <1>1 DEF Accepts, Readable, Valid, Inv, TypeOK, Copies
  <2>2. want' \in Tables
    BY <1>1, <2>1, MarkedType
  <2>3. QED
    BY <1>1, <2>1, <2>2 DEF Load, Inv, TypeOK, OneCopyValid, PhaseInv, PlaceInv, HandoverVerified,
       Ahead, Saved, Valid, medium, Marked, Places, Calls
<1>2. ASSUME NEW status \in {0, 1}, Return(status), UNCHANGED want, faults' \in 0..MaxFaults,
             status = 0 => Accepts /\ Successful(entries["primary"][running])
      PROVE  Inv'
  <2>1. UNCHANGED <<entries, header, ro, running, want, crashes>>
    BY <1>2 DEF Load, medium
  <2>2. TypeOK' /\ PlaceInv' /\ PhaseInv' /\ OneCopyValid'
    BY <1>2, <2>1, ReturnPlace DEF Inv, TypeOK, OneCopyValid, PhaseInv, PlaceInv, Ahead, Saved,
       Valid, Places, Stages, Calls
  <2>3. HandoverVerified'
    BY <1>2, <2>1, ReturnPlace DEF HandoverVerified, Accepts, Readable, Successful, Valid
  <2>4. QED
    BY <2>2, <2>3 DEF Inv
<1>3. faults \in 0..MaxFaults /\ (Fault => faults' \in 0..MaxFaults)
  BY BoundAssumption DEF Inv, TypeOK, Fault
<1>4. QED
  BY <1>1, <1>2, <1>3 DEF Load

LEMMA UnsealStep == ASSUME Inv, Unseal PROVE Inv'
<1> stage = "mark" /\ running \in Slots /\ want \in Tables /\ at = "unseal"
  BY DEF Unseal, Inv, PlaceInv, Calls
<1>1. UNCHANGED <<entries, header, running, want, crashes>> /\ ro' \in BOOLEAN
  BY DEF Unseal, medium, Inv, TypeOK
<1>2. faults \in 0..MaxFaults /\ (Fault => faults' \in 0..MaxFaults)
  BY BoundAssumption DEF Inv, TypeOK, Fault
<1>3. CASE at' \in {"backupEntries", "seal"} /\ UNCHANGED <<stage, rc>>
  BY <1>1, <1>2, <1>3 DEF Unseal, Inv, TypeOK, OneCopyValid, PhaseInv, PlaceInv, HandoverVerified,
     Ahead, Saved, Valid, Places, Writing
<1>4. CASE Return(1)
  BY <1>1, <1>2, <1>4, ReturnPlace DEF Unseal, Inv, TypeOK, OneCopyValid, PhaseInv, PlaceInv,
     HandoverVerified, Valid, Places, Stages, Calls
<1>5. QED
  BY <1>3, <1>4 DEF Unseal, After

LEMMA WriteStep == ASSUME Inv, WriteNext PROVE Inv'
<1> at \in Writing /\ (Write(want) \/ CutShort) /\ UNCHANGED <<ro, running, stage, want, rc, crashes>>
  BY DEF WriteNext
<1> stage = "mark" /\ running \in Slots /\ want \in Tables /\ want # Torn
  BY TriesAssumption DEF Inv, PlaceInv, Calls, Writing
<1>1. faults' \in 0..MaxFaults
  BY BoundAssumption DEF WriteNext, Inv, TypeOK, Fault
<1>2. OneCopyValid'
  BY WriteKeepsCopy
<1>3. at' \in {After[at], "seal"} /\ (at' # "seal" => Write(want))
  BY DEF WriteNext
<1>4. TypeOK' /\ PlaceInv' /\ HandoverVerified'
  BY <1>1, <1>3, WriteLeaves DEF Inv, TypeOK, PlaceInv, HandoverVerified, After, Writing, Places, Calls
<1>5. PhaseInv'
  <2>1. CASE at' = "seal"
    BY <2>1 DEF PhaseInv
  <2>2. CASE at' # "seal" /\ at \in {"backupEntries", "backupHeader"}
    <3>1. Ahead /\ (at = "backupHeader" => entries["backup"] = want)
      BY <2>2 DEF Inv, PhaseInv
    <3>2. Ahead'
      BY <2>2, <3>1, WriteLeaves DEF Ahead, Valid
    <3>3. /\ at = "backupEntries" => at' = "backupHeader" /\ entries'["backup"] = want
          /\ at = "backupHeader" => at' = "primaryEntries" /\ Saved'
      BY <1>3, <2>2, <3>1, WriteLeaves DEF Saved, Valid, After
    <3>4. QED
      BY <2>2, <3>2, <3>3 DEF PhaseInv
  <2>3. CASE at' # "seal" /\ at \in {"primaryEntries", "primaryHeader"}
    BY <1>3, <2>3, WriteLeaves DEF Inv, PhaseInv, Ahead, Saved, Valid, After
  <2>4. QED
    BY <2>1, <2>2, <2>3 DEF Writing
<1>6. QED
  BY <1>2, <1>4, <1>5 DEF Inv

LEMMA ToolStep == ASSUME Inv, Tool PROVE Inv'
<1>1. CASE ReadBack
  <2>1. faults' \in 0..MaxFaults
    BY <1>1, BoundAssumption DEF ReadBack, Inv, TypeOK, Fault
  <2>2. QED
    BY <1>1, <2>1 DEF ReadBack, medium, Inv, TypeOK, OneCopyValid, PhaseInv, PlaceInv, HandoverVerified,
       Valid, Places, Calls
<1>2. CASE Seal
  <2> USE <1>2
  <2>5. faults' \in 0..MaxFaults
    BY BoundAssumption DEF Seal, Inv, TypeOK, Fault
  <2>6. ro' \in BOOLEAN
    BY DEF Seal, Inv, TypeOK
  <2>1. faults' \in 0..MaxFaults /\ UNCHANGED <<entries, header, running, want, crashes>> /\ ro' \in BOOLEAN
    BY <2>5, <2>6 DEF Seal, medium
  <2>2. stage = "mark" /\ rc \in {0, 1} /\ (Return(rc) \/ Return(1))
    BY <1>2 DEF Seal, Inv, PlaceInv, TypeOK
  <2>3. stage \in Calls /\ running \in Slots
    BY <2>2 DEF Inv, PlaceInv, Calls
  <2>4. QED
    BY <2>1, <2>2, <2>3, ReturnPlace DEF Inv, TypeOK, OneCopyValid, PhaseInv, PlaceInv, HandoverVerified,
       Valid, Places, Stages, Calls
<1>3. QED
  BY <1>1, <1>2, LoadStep, UnsealStep, WriteStep DEF Tool

LEMMA BootStep == ASSUME Inv, Boot PROVE Inv'
<1> DEFINE slot == running'
           table == entries["primary"]
           tries == table[slot].tries
           next == [table EXCEPT ![slot].tries = IF tries = 0 THEN 0 ELSE tries - 1]
<1>1. OneCopyValid' /\ entries' \in [Copies -> Tables \cup {Torn}] /\ header' \in [Copies -> Tables \cup {Torn}]
  <2>1. CASE UNCHANGED medium
    BY <2>1 DEF medium, Inv, TypeOK, OneCopyValid, Valid
  <2>2. CASE Valid("primary") /\ slot \in Slots /\ entries' = [c \in Copies |-> next]
             /\ header' \in {[header EXCEPT !["primary"] = next], [c \in Copies |-> next]}
    <3>1. table \in Tables
      BY <2>2 DEF Valid, Inv, TypeOK, Copies
    <3>2. next \in Tables
      <4>1. table[slot] \in Attributes /\ tries \in 0..MaxTries
        BY <2>2, <3>1 DEF Tables, Attributes
      <4>2. (IF tries = 0 THEN 0 ELSE tries - 1) \in 0..MaxTries
        BY <4>1, TriesAssumption
      <4>3. QED
        BY <2>2, <3>1, <4>1, <4>2 DEF Tables, Attributes
    <3>3. header' \in [Copies -> Tables \cup {Torn}] /\ entries' \in [Copies -> Tables \cup {Torn}]
      BY <2>2, <3>2 DEF Inv, TypeOK
    <3>4. entries'["primary"] = next /\ header'["primary"] = next /\ next # Torn
      BY <2>2, <3>2, TriesAssumption DEF Inv, TypeOK, Copies
    <3>5. QED
      BY <3>3, <3>4 DEF OneCopyValid, Valid, Copies
  <2>3. CASE Valid("backup") /\ entries' = [c \in Copies |-> entries["backup"]] /\ header' = entries'
    BY <2>3 DEF Inv, TypeOK, OneCopyValid, Valid, Copies
  <2>4. QED
    BY <2>1, <2>2, <2>3 DEF Boot
<1>2. QED
  BY <1>1 DEF Boot, budget, Inv, TypeOK, PhaseInv, PlaceInv, HandoverVerified, Stages, Calls, Places

LEMMA Inductive == Inv /\ [Next]_vars => Inv'
<1> SUFFICES ASSUME Inv, [Next]_vars PROVE Inv'
  OBVIOUS
<1>1. CASE Boot
  BY <1>1, BootStep
<1>2. CASE Tool
  BY <1>2, ToolStep
<1>3. CASE PowerLoss
  <2>1. OneCopyValid' /\ entries' \in [Copies -> Tables \cup {Torn}] /\ header' \in [Copies -> Tables \cup {Torn}]
    <3>1. CASE at \in Writing
      BY <1>3, <3>1, WriteLeaves, WriteKeepsCopy DEF PowerLoss
    <3>2. CASE at \notin Writing
      BY <1>3, <3>2 DEF PowerLoss, medium, Inv, TypeOK, OneCopyValid, Valid
    <3>3. QED
      BY <3>1, <3>2
  <2>2. crashes' \in 0..MaxCrashes
    BY <1>3, BoundAssumption DEF PowerLoss, Inv, TypeOK
  <2>3. QED
    BY <1>3, <2>1, <2>2 DEF PowerLoss, Inv, TypeOK, PhaseInv, PlaceInv, HandoverVerified, Stages, Calls, Places
<1>4. CASE Restart \/ UNCHANGED vars
  BY <1>4 DEF Restart, vars, medium, budget, Inv, TypeOK, OneCopyValid, PhaseInv, PlaceInv, HandoverVerified,
     Ahead, Saved, Valid, Stages, Calls
<1>5. QED
  BY <1>1, <1>2, <1>3, <1>4 DEF Next

LEMMA Initial == Init => Inv
<1> SUFFICES ASSUME Init PROVE Inv
  OBVIOUS
<1>1. PICK slot \in Slots, a \in Attributes, b \in Attributes :
        LET table == [s \in Slots |-> IF s = slot THEN a ELSE b]
        IN entries = [c \in Copies |-> table] /\ header = entries
  BY DEF Init
<1>2. \E table \in Tables : entries = [c \in Copies |-> table] /\ header = entries
  BY <1>1 DEF Tables
<1>3. OneCopyValid /\ entries \in [Copies -> Tables \cup {Torn}] /\ header \in [Copies -> Tables \cup {Torn}]
  BY <1>2, TriesAssumption DEF OneCopyValid, Valid, Copies
<1>4. 0 \in 0..MaxFaults /\ 0 \in 0..MaxCrashes
  BY BoundAssumption
<1>5. QED
  BY <1>3, <1>4 DEF Init, Inv, TypeOK, PhaseInv, PlaceInv, HandoverVerified, Stages, Calls, Places, Writing

\* The invariant the proofs share: the types, the place in the program, and at
\* every write of save_gpt which copy is already the new one and which is torn.
THEOREM Invariance == Spec => []Inv
  BY Initial, Inductive, PTL DEF Spec

\* Either copy of the partition table, the image in memory and the place of the
\* tool keep their types, for any table and after any error or power loss.
THEOREM MarkerTypes == Spec => []TypeOK
<1>1. Inv => TypeOK
  BY DEF Inv
<1>2. QED
  BY <1>1, Invariance, PTL

\* "A power loss always leaves at least one old/new copy", of any table and
\* after any number of errors and power losses.
THEOREM AlwaysOneCopy == Spec => []OneCopyValid
<1>1. Inv => OneCopyValid
  BY DEF Inv
<1>2. QED
  BY <1>1, Invariance, PTL

\* The root is handed over only from a slot that is verified successful, with
\* the disk sealed.
THEOREM HandoverIsVerified == Spec => []HandoverVerified
<1>1. Inv => HandoverVerified
  BY DEF Inv
<1>2. QED
  BY <1>1, Invariance, PTL

\* What a write makes a reader see is the array of before, or that one marked.
LEMMA WriteChooses ==
  ASSUME Inv, at \in Writing, Write(want) \/ CutShort
  PROVE  Chosen' = Chosen \/ Chosen' = Marked(Chosen, running)
<1> "primary" \in Copies /\ "backup" \in Copies
  BY DEF Copies
<1>1. CASE at \in {"backupEntries", "backupHeader"}
  BY <1>1, WriteLeaves DEF Inv, PhaseInv, Ahead, Chosen, Valid
<1>2. CASE at = "primaryEntries"
  <2>1. Chosen = entries["primary"] /\ entries'["backup"] = want /\ want = Marked(Chosen, running)
    BY <1>2, WriteLeaves DEF Inv, PhaseInv, Ahead, Saved, Chosen
  <2>2. QED
    BY <1>2, <2>1, WriteLeaves DEF Chosen, Valid
<1>3. CASE at = "primaryHeader"
  <2>1. entries["primary"] = want /\ entries["backup"] = want
    BY <1>3 DEF Inv, PhaseInv, Saved
  <2>2. entries'["primary"] = want /\ entries'["backup"] = want
    BY <1>3, <2>1, WriteLeaves
  <2>3. QED
    BY <2>1, <2>2 DEF Chosen
<1>4. QED
  BY <1>1, <1>2, <1>3 DEF Writing

\* No step of the tool, whole or cut short, selects a slot.
THEOREM SelectsNothing == Spec => NeverSelects
<1> DEFINE Step ==
      stage # "down" =>
        \A slot \in Slots :
          \/ Chosen'[slot] = Chosen[slot]
          \/ /\ slot = running
             /\ \E ok, dead \in BOOLEAN :
                  Chosen'[slot] = [Chosen[slot] EXCEPT !.successful = ok, !.unbootable = dead]
<1>1. Inv /\ [Next]_vars => [Step]_vars
  <2> SUFFICES ASSUME Inv, Next, stage # "down", NEW slot \in Slots
               PROVE  \/ Chosen'[slot] = Chosen[slot]
                      \/ /\ slot = running
                         /\ \E ok, dead \in BOOLEAN :
                              Chosen'[slot] = [Chosen[slot] EXCEPT !.successful = ok, !.unbootable = dead]
    OBVIOUS
  <2>1. CASE at \in Writing /\ (Write(want) \/ CutShort)
    <3>1. CASE Chosen' = Chosen
      BY <3>1
    <3>2. CASE Chosen' = Marked(Chosen, running)
      <4>1. Chosen \in Tables \cup {Torn} /\ running \in Slots
        BY <2>1 DEF Chosen, Valid, Inv, TypeOK, PlaceInv, Copies, Calls, Writing
      <4>2. Chosen # Torn
        BY DEF Chosen, Valid, Inv, OneCopyValid, Copies
      <4>3. QED
        BY <3>2, <4>1, <4>2 DEF Marked, Tables, Attributes
    <3>3. QED
      BY <2>1, <3>1, <3>2, WriteChooses
  <2>2. CASE UNCHANGED medium
    BY <2>2 DEF medium, Chosen, Valid
  <2>3. QED
    BY <2>1, <2>2 DEF Next, Boot, Tool, Load, Unseal, WriteNext, ReadBack, Seal, PowerLoss, Restart
<1>2. QED
  BY <1>1, Invariance, PTL DEF Spec, NeverSelects

-----------------------------------------------------------------------------
(* What SlotIsMarked rests on: an undisturbed marking goes through.          *)

\* How far the calls of one boot have come.
Progress ==
  IF stage = "check" THEN 1 ELSE IF stage = "recheck" THEN 10 ELSE
  CASE at = "load"           -> 2 [] at = "unseal"        -> 3 [] at = "backupEntries" -> 4
    [] at = "backupHeader"   -> 5 [] at = "primaryEntries" -> 6 [] at = "primaryHeader" -> 7
    [] at = "readBack"       -> 8 [] OTHER                -> 9

\* The premise of SlotIsMarked.
MarkingBegins ==
  /\ at = "load" /\ stage = "check" /\ ro
  /\ Valid("primary") /\ ChosenByABL(entries["primary"][running])
  /\ entries["backup"] # Torn /\ header["backup"] # Torn

\* What holds at each place after it: every load finds a table the tool accepts,
\* and the last one finds the slot marked in it; in between the array in memory
\* is such a table, and when the disk is sealed it is on the medium.
Marking ==
  /\ stage \in Calls
  /\ at = "load" =>
       /\ ro /\ Valid("primary") /\ ChosenByABL(entries["primary"][running])
       /\ entries["backup"] # Torn /\ header["backup"] # Torn
       /\ stage = "recheck" => Successful(entries["primary"][running])
  /\ at # "load" => ChosenByABL(want[running]) /\ Successful(want[running])
  /\ at = "seal" => Written /\ rc = 0

Advancing ==
  \/ stage' = "handover" \/ faults < faults' \/ crashes < crashes'
  \/ Marking' /\ Progress < Progress'

LEMMA LoadAdvances == ASSUME Inv, Marking, Load PROVE Advancing
<1>1. /\ at = "load" /\ ro /\ stage \in Calls /\ running \in Slots
      /\ Valid("primary") /\ ChosenByABL(entries["primary"][running])
      /\ entries["backup"] # Torn /\ header["backup"] # Torn
      /\ stage = "recheck" => Successful(entries["primary"][running])
  BY DEF Load, Marking, Inv, PlaceInv
<1>2. Accepts
  BY <1>1 DEF Accepts, Readable
<1>3. CASE Fault
  BY <1>3, BoundAssumption DEF Fault, Inv, TypeOK, Advancing
<1>4. ASSUME stage = "mark", want' = Marked(entries["primary"], running), at' = "unseal", stage' = stage
      PROVE  Advancing
  <2>1. entries["primary"] \in Tables
    BY <1>1 DEF Valid, Inv, TypeOK, Copies
  <2>2. running' = running
    BY DEF Load
  <2>3. ChosenByABL(want'[running]) /\ Successful(want'[running])
    BY <1>1, <1>4, <2>1 DEF Marked, Tables, Attributes, ChosenByABL, Successful
  <2>4. Marking'
    BY <1>4, <2>2, <2>3 DEF Marking, ChosenByABL, Successful, Calls
  <2>5. Progress = 2 /\ Progress' = 3
    BY <1>1, <1>4 DEF Progress
  <2>6. QED
    BY <2>4, <2>5 DEF Advancing
<1>5. ASSUME stage # "mark", Return(IF Successful(entries["primary"][running]) THEN 0 ELSE 1)
      PROVE  Advancing
  <2>1. CASE Successful(entries["primary"][running])
    BY <1>1, <1>5, <2>1 DEF Return, Advancing, Calls
  <2>2. CASE ~Successful(entries["primary"][running])
    <3>1. stage = "check" /\ stage' = "mark" /\ at' = "load"
      BY <1>1, <1>5, <2>2 DEF Return, Calls
    <3>2. UNCHANGED <<entries, header, ro, running>>
      BY DEF Load, medium
    <3>3. /\ ro' /\ Valid("primary")' /\ ChosenByABL(entries["primary"][running])'
          /\ entries'["backup"] # Torn /\ header'["backup"] # Torn
      BY <1>1, <3>2 DEF Valid, ChosenByABL
    <3>4. Marking'
      BY <3>1, <3>3 DEF Marking, Calls
    <3>5. Progress = 1 /\ Progress' = 2
      BY <3>1 DEF Progress
    <3>6. QED
      BY <3>4, <3>5 DEF Advancing
  <2>3. QED
    BY <2>1, <2>2
<1>6. QED
  BY <1>1, <1>2, <1>3, <1>4, <1>5 DEF Load

LEMMA WriteAdvances == ASSUME Inv, Marking, Unseal \/ WriteNext PROVE Advancing
<1>1. stage = "mark" /\ at \in {"unseal"} \cup Writing /\ UNCHANGED <<running, want>>
  BY DEF Unseal, WriteNext, Inv, PlaceInv, Writing
<1>2. CASE Fault
  BY <1>2, BoundAssumption DEF Fault, Inv, TypeOK, Advancing
<1>3. ASSUME at' = After[at], stage' = stage PROVE Advancing
  <2>1. /\ at = "unseal" => at' = "backupEntries"
        /\ at = "backupEntries" => at' = "backupHeader"
        /\ at = "backupHeader" => at' = "primaryEntries"
        /\ at = "primaryEntries" => at' = "primaryHeader"
        /\ at = "primaryHeader" => at' = "readBack"
    BY <1>3 DEF After
  <2>2. Progress < Progress'
    BY <1>1, <1>3, <2>1 DEF Progress, Writing
  <2>3. Marking'
    BY <1>1, <1>3, <2>1 DEF Marking, ChosenByABL, Successful, Writing, Calls
  <2>4. QED
    BY <2>2, <2>3 DEF Advancing
<1>4. QED
  BY <1>2, <1>3 DEF Unseal, WriteNext

LEMMA SealAdvances == ASSUME Inv, Marking, ReadBack \/ Seal PROVE Advancing
<1>1. stage = "mark" /\ UNCHANGED <<entries, header, running, want>> /\ running \in Slots
  BY DEF ReadBack, Seal, medium, Inv, PlaceInv, Calls
<1>2. ChosenByABL(want[running]) /\ Successful(want[running])
  BY DEF ReadBack, Seal, Marking
<1>3. CASE Fault
  BY <1>3, BoundAssumption DEF Fault, Inv, TypeOK, Advancing
<1>4. ASSUME ReadBack, rc' = (IF Written THEN 0 ELSE 1) PROVE Advancing
  <2>1. at = "readBack" /\ at' = "seal" /\ stage' = stage
    BY <1>4 DEF ReadBack
  <2>2. Written
    BY <2>1 DEF Inv, PhaseInv, Saved, Written
  <2>3. rc' = 0 /\ Written'
    BY <1>1, <1>4, <2>2 DEF Written, Valid
  <2>4. Marking'
    BY <1>1, <1>2, <2>1, <2>3 DEF Marking, ChosenByABL, Successful, Calls
  <2>5. QED
    BY <1>1, <2>1, <2>4 DEF Advancing, Progress
<1>5. ASSUME Seal, ro' = TRUE, Return(rc) PROVE Advancing
  <2>1. at = "seal" /\ Written /\ rc = 0
    BY <1>5 DEF Seal, Marking
  <2>2. stage' = "recheck" /\ at' = "load"
    BY <1>1, <1>5, <2>1 DEF Return, Calls
  <2>3. /\ Valid("primary") /\ Valid("backup") /\ entries["primary"][running] = want[running]
    BY <2>1 DEF Written
  <2>4. ChosenByABL(entries["primary"][running]) /\ Successful(entries["primary"][running])
    BY <1>2, <2>3
  <2>5. /\ ro' /\ Valid("primary")' /\ entries'["backup"] # Torn /\ header'["backup"] # Torn
        /\ ChosenByABL(entries["primary"][running])' /\ Successful(entries["primary"][running])'
    BY <1>1, <1>5, <2>3, <2>4 DEF Valid, ChosenByABL, Successful
  <2>6. Marking'
    BY <2>2, <2>5 DEF Marking, Calls
  <2>7. QED
    BY <1>1, <2>1, <2>2, <2>6 DEF Advancing, Progress
<1>6. QED
  BY <1>3, <1>4, <1>5 DEF ReadBack, Seal

\* From the state SlotIsMarked starts in, nothing can go wrong but an operation
\* that fails or a power loss: each step of the calls check, mark and check
\* again leads to the next one with what that one needs to succeed, and the last
\* to the hand-over, after at most ten steps.  The tool is never refused by a
\* table that it wrote itself.
MarkingAdvances == [][Marking => Advancing]_vars
THEOREM MarkingGoesThrough == Spec => [](MarkingBegins => Marking) /\ MarkingAdvances
<1>1. Inv => (MarkingBegins => Marking)
  BY DEF MarkingBegins, Marking, Calls
<1>2. Inv /\ [Next]_vars => [Marking => Advancing]_vars
  <2> SUFFICES ASSUME Inv, Next, Marking PROVE Advancing
    OBVIOUS
  <2>1. CASE Tool
    BY <2>1, LoadAdvances, WriteAdvances, SealAdvances DEF Tool
  <2>2. CASE PowerLoss
    BY <2>2, BoundAssumption DEF PowerLoss, Inv, TypeOK, Advancing
  <2>3. CASE Boot \/ Restart
    BY <2>3 DEF Boot, Restart, Marking, Calls
  <2>4. QED
    BY <2>1, <2>2, <2>3 DEF Next
<1>3. QED
  BY <1>1, <1>2, Invariance, PTL DEF Spec, MarkingAdvances

=============================================================================
