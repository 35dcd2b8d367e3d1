----------------------- MODULE BootSwitchPromiseProof -----------------------
(***************************************************************************)
(* BootSwitch implements DualBoot, the note in state.json is honest, and   *)
(* the last Android image is not given up.                                 *)
(***************************************************************************)
EXTENDS BootSwitchStoreProof

-----------------------------------------------------------------------------
(* state.json *)

\* state.json names the set that boot_a holds at the time it is written.
THEOREM NoteIsHonest == Spec => NoteHonest
<1>1. LockInv /\ StoreInv /\ [Next]_vars => (note' # note => bootA = store[note'])
  <2> SUFFICES ASSUME LockInv, StoreInv, [Next]_vars, note' # note PROVE bootA = store[note']
    OBVIOUS
  <2>1. PICK p \in Proc : WriteState(p)
    <3>1. ~(Shutdown \/ PowerLoss \/ BootUp \/ HostFlash \/ KsuPatch \/ UNCHANGED vars)
      BY DEF Shutdown, PowerLoss, BootUp, HostFlash, KsuPatch, disk, vars
    <3>2. ASSUME NEW p \in Proc PROVE ~(Start(p) \/ Signal(p) \/ Kill(p))
      BY DEF Start, Signal, Kill, disk
    <3>3. ASSUME NEW p \in Proc PROVE ~Reads(p)
      BY ReadsMove DEF disk
    <3>4. ASSUME NEW p \in Proc PROVE ~Stages(p)
      BY DEF Stages, StageCopy, SealCopy, CommitSync, CommitAside, CommitPlace, CommitFlush, disk
    <3>5. ASSUME NEW p \in Proc, Step(p) PROVE WriteState(p)
      BY <3>3, <3>4, <3>5 DEF Step, Reads, Stages, TakeLock, SetUp, OpenRW, WriteBegin, WriteEnd, CloseRW, ReadBack,
         DoReboot, RequestReboot, ExitCleanup, Unlock, disk
    <3>6. QED
      BY <3>1, <3>2, <3>5 DEF Next
  <2>2. note' = Target(p) /\ pc[p] \in {"state", "stateOnly"}
    BY <2>1 DEF WriteState
  <2>3. DoneOK(p)
    BY DEF StoreInv
  <2>4. QED
    BY <2>2, <2>3 DEF DoneOK, Done
<1>2. QED
  BY <1>1, ScriptInvariant, PTL DEF NoteHonest, Spec

-----------------------------------------------------------------------------
(* The refinement of DualBoot *)

Busy(p) == pc[p] \in {"write", "writing", "close", "verify"} \/ (pc[p] = "open" /\ back[p])

LEMMA SwitchingIsBusy == Switching <=> \E p \in Proc : Busy(p)
  BY DEF Switching, Busy

LEMMA ArchiveType == SafeArchive \in Android \cup {Absent}
  BY DEF SafeArchive, Archived

\* What decides the archive a power loss would leave.
LEMMA SafeArchiveIs ==
  SafeArchive = IF store["android"] \in Android /\ durable["android"] = store["android"] /\ "android" \notin soft
                THEN store["android"] ELSE Absent
  BY DEF SafeArchive, Archived

\* A step that leaves the android set alone leaves the archive alone, unless
\* it makes a stale one durable.
LEMMA ArchiveSame ==
  ASSUME StoreInv, store'["android"] = store["android"], "android" \notin soft',
         \/ durable'["android"] = durable["android"]
         \/ durable'["android"] = store'["android"] /\ ~Stale
  PROVE  SafeArchive' = SafeArchive
<1>1. "android" \notin soft
  BY DEF StoreInv
<1>2. QED
  BY <1>1, SafeArchiveIs, Distinct DEF Stale, SafeArchive, Archived

\* The process that is writing boot_a is inside the lock, and nothing is stale.
LEMMA BusyInside ==
  ASSUME LockInv, StoreInv, NEW p \in Proc, Busy(p)
  PROVE  Inside(p) /\ ~Stale /\ up /\ \A q \in Proc : Busy(q) \/ Inside(q) => q = p
<1>1. \A q \in Proc : Busy(q) => Inside(q)
  BY DEF Busy, LockInv, Inside, Working
<1>2. Inside(p) /\ pc[p] # "flush" /\ pc[p] # "idle"
  BY <1>1 DEF Busy
<1>3. QED
  BY <1>1, <1>2, NotStale DEF LockInv, LockExclusive

\* One step of the script is one step of the promise, or none.
LEMMA PromiseStep ==
  ASSUME LockInv, StoreInv, NEW p \in Proc, Step(p)
  PROVE  [Promise!Next]_Promise!vars
<1> USE DEF Goto, Leave, Die
<1>0. pc \in [Proc -> Labels] /\ back \in [Proc -> BOOLEAN] /\ LockInv' /\ StoreInv'
  BY LockStep, StoreStep DEF StoreInv, ProcType
<1>1. \A q \in Proc \ {p} : Busy(q)' <=> Busy(q)
  BY ProcStep DEF Busy
<1>2. CASE \E q \in Proc \ {p} : Busy(q)
  <2>1. PICK q \in Proc \ {p} : Busy(q)
    BY <1>2
  <2>2. ~Inside(p) /\ ~Stale
    BY <2>1, BusyInside
  <2>3. UNCHANGED <<bootA, store>> /\ (UNCHANGED <<durable, soft>> \/ Sync)
    BY <2>2, OutsideStep
  <2>4. SafeArchive' = SafeArchive
    BY <2>2, <2>3, ArchiveSame DEF Sync, StoreInv
  <2>5. Switching /\ Switching'
    BY <1>1, <2>1 DEF Switching, Busy
  <2>6. QED
    BY <2>3, <2>4, <2>5 DEF Promise!vars
<1>3. CASE (\A q \in Proc \ {p} : ~Busy(q)) /\ Busy(p)
  <2>1. Inside(p) /\ ~Stale /\ Switching
    BY <1>3, BusyInside, SwitchingIsBusy
  <2>2. OpenRW(p) \/ WriteBegin(p) \/ WriteEnd(p) \/ CloseRW(p) \/ ReadBack(p)
    BY <1>3, ReadsMove DEF Busy, Step, Reads, TakeLock, SetUp, StageCopy, SealCopy, CommitSync, CommitAside,
       CommitPlace, CommitFlush, WriteState, DoReboot, RequestReboot, ExitCleanup, Unlock
  <2>3. UNCHANGED <<store, durable, soft>>
    BY <2>2 DEF OpenRW, WriteBegin, WriteEnd, CloseRW, ReadBack, disk
  <2>4. SafeArchive' = SafeArchive
    BY <2>3 DEF SafeArchive, Archived
  <2>5. CASE WriteBegin(p) \/ WriteEnd(p)
    <3>1. Busy(p)'
      BY <1>0, <2>5 DEF WriteBegin, WriteEnd, Busy
    <3>2. Switching' /\ bootA' \in Image
      BY <1>0, <3>1 DEF StoreInv, DiskType, Switching, Busy
    <3>3. Promise!Write
      BY <2>1, <2>4, <3>2 DEF Promise!Write
    <3>4. QED
      BY <3>3 DEF Promise!Next
  <2>6. CASE ~(WriteBegin(p) \/ WriteEnd(p))
    <3>1. UNCHANGED bootA
      BY <2>2, <2>6 DEF OpenRW, CloseRW, ReadBack
    <3>2. CASE Switching'
      BY <2>1, <2>4, <3>1, <3>2 DEF Promise!vars
    <3>3. CASE ~Switching'
      <4>1. Promise!End
        BY <2>1, <2>4, <3>1, <3>3, ArchiveType DEF Promise!End
      <4>2. QED
        BY <4>1 DEF Promise!Next
    <3>4. Switching' \in BOOLEAN
      BY DEF Switching
    <3>5. QED
      BY <3>2, <3>3
  <2>7. QED
    BY <2>5, <2>6
<1>4. CASE \A q \in Proc : ~Busy(q)
  <2>1. ~Switching
    BY <1>4, SwitchingIsBusy
  <2>2. CASE Busy(p)'
    <3>1. OpenRW(p) /\ ~back[p]
      <4>1. pc'[p] \in {"write", "writing", "close", "verify", "open"}
        BY <2>2 DEF Busy
      <4>2. OpenRW(p) \/ pc'[p] = "open"
        BY <1>0, <1>4, <4>1, ReadsMove DEF Busy, Step, Reads, TakeLock, SetUp, StageCopy, SealCopy, CommitSync,
           CommitAside, CommitPlace, CommitFlush, WriteBegin, WriteEnd, CloseRW, ReadBack, WriteState, DoReboot,
           RequestReboot, ExitCleanup, Unlock, Gone
      <4>3. pc'[p] = "open" => ~back'[p]
        <5>1. WriteOK(p)
          BY DEF StoreInv
        <5>2. pc'[p] = "open" => pc[p] \in {"check", "flush"} /\ back' = back
          BY <1>0, <1>4, ReadsMove DEF Busy, Step, Reads, TakeLock, SetUp, StageCopy, SealCopy, CommitSync,
             CommitAside, CommitPlace, CommitFlush, OpenRW, WriteBegin, WriteEnd, CloseRW, ReadBack, WriteState,
             DoReboot, RequestReboot, ExitCleanup, Unlock, Gone
        <5>3. QED
          BY <5>1, <5>2 DEF WriteOK, Writing, Leaving
      <4>4. pc'[p] # "open"
        BY <2>2, <4>3 DEF Busy
      <4>5. QED
        BY <1>4, <4>2, <4>4 DEF OpenRW, Busy
    <3>2. UNCHANGED <<bootA, store, durable, soft>> /\ pc[p] = "open"
      BY <3>1 DEF OpenRW, disk
    <3>3. SafeArchive' = SafeArchive
      BY <3>2 DEF SafeArchive, Archived
    <3>4. bootA \in Android => SafeArchive = bootA
      <4>1. WriteOK(p)
        BY DEF StoreInv
      <4>2. bootA \in Android => Archived(bootA)
        BY <3>1, <3>2, <4>1 DEF WriteOK
      <4>3. QED
        BY <4>2, SafeArchiveIs DEF Archived
    <3>5. Switching' = TRUE
      BY <2>2 DEF Switching, Busy
    <3>6. Promise!Begin
      BY <2>1, <3>2, <3>3, <3>4, <3>5 DEF Promise!Begin
    <3>7. QED
      BY <3>6 DEF Promise!Next
  <2>3. CASE ~Busy(p)'
    <3>1. ~Switching'
      BY <1>1, <1>4, <2>3 DEF Switching, Busy
    <3>2. UNCHANGED bootA
      BY <1>4, ReadsMove DEF Busy, Step, Reads, TakeLock, SetUp, StageCopy, SealCopy, CommitSync, CommitAside,
         CommitPlace, CommitFlush, OpenRW, WriteBegin, WriteEnd, CloseRW, ReadBack, WriteState, DoReboot,
         RequestReboot, ExitCleanup, Unlock
    <3>3. SafeArchive' \in Android \cup {Absent}
      BY ArchiveType DEF SafeArchive, Archived
    <3>4. Promise!Rearchive
      BY <2>1, <3>1, <3>2, <3>3 DEF Promise!Rearchive, Switching
    <3>5. QED
      BY <3>4 DEF Promise!Next
  <2>4. QED
    BY <2>2, <2>3
<1>5. QED
  BY <1>2, <1>3, <1>4

\* A step of the script's surroundings, too.
LEMMA PromiseAround ==
  ASSUME LockInv, StoreInv, NEW p \in Proc, Start(p) \/ Signal(p) \/ Kill(p)
  PROVE  [Promise!Next]_Promise!vars
<1>1. UNCHANGED <<bootA, store, durable, soft>>
  BY DEF Start, Signal, Kill, disk
<1>2. SafeArchive' = SafeArchive
  BY <1>1 DEF SafeArchive, Archived
<1>3. \A q \in Proc \ {p} : Busy(q)' <=> Busy(q)
  BY DEF Start, Signal, Kill, Goto, Leave, Gone, Busy, StoreInv, ProcType
<1>4. Busy(p)' => Busy(p)
  BY DEF Start, Signal, Kill, Goto, Leave, Gone, Busy, StoreInv, ProcType
<1>5. CASE Switching' = Switching
  BY <1>1, <1>2, <1>5 DEF Promise!vars
<1>6. CASE Switching /\ ~Switching'
  <2>1. Promise!End
    BY <1>1, <1>2, <1>6, ArchiveType DEF Promise!End, Switching
  <2>2. QED
    BY <2>1 DEF Promise!Next
<1>7. Switching' => Switching
  BY <1>3, <1>4 DEF Switching, Busy
<1>8. QED
  BY <1>5, <1>6, <1>7 DEF Switching

\* The tablet goes down: a switch is over, and its archive is still there.
LEMMA PromiseDown ==
  ASSUME LockInv, StoreInv, Shutdown \/ PowerLoss
  PROVE  [Promise!Next]_Promise!vars
<1>1. ~Switching' /\ UNCHANGED bootA
  BY DEF Shutdown, PowerLoss, Gone, Switching
<1>2. SafeArchive' \in Android \cup {Absent}
  BY DEF SafeArchive, Archived
<1>3. CASE ~Switching
  <2>1. Promise!Rearchive
    BY <1>1, <1>2, <1>3 DEF Promise!Rearchive, Switching
  <2>2. QED
    BY <2>1 DEF Promise!Next
<1>4. CASE Switching
  <2>1. SafeArchive # Absent => store["android"] \in Android /\ durable["android"] = store["android"]
                               /\ SafeArchive = store["android"]
    BY SafeArchiveIs
  <2>2. SafeArchive # Absent => store'["android"] = store["android"] /\ durable' = store' /\ soft' = {}
    BY <2>1 DEF Shutdown, PowerLoss, Sync, StoreInv, Dirs
  <2>3. SafeArchive # Absent => SafeArchive' = SafeArchive
    BY <2>1, <2>2 DEF SafeArchive, Archived
  <2>4. Promise!End
    BY <1>1, <1>2, <1>4, <2>3 DEF Promise!End, Switching
  <2>5. QED
    BY <2>4 DEF Promise!Next
<1>5. QED
  BY <1>3, <1>4

\* The tablet starts, or another program or a host replaces boot_a.
LEMMA PromiseReplaced ==
  ASSUME LockInv, StoreInv, BootUp \/ HostFlash \/ KsuPatch
  PROVE  [Promise!Next]_Promise!vars
<1>1. ~Switching /\ ~Switching'
  BY DEF BootUp, HostFlash, KsuPatch, Switching, LockInv, locals
<1>2. SafeArchive' = SafeArchive
  BY DEF BootUp, HostFlash, KsuPatch, disk, SafeArchive, Archived
<1>3. bootA' \in Image
  BY Distinct DEF BootUp, HostFlash, KsuPatch, StoreInv, DiskType
<1>4. Promise!Replace
  BY <1>1, <1>2, <1>3 DEF Promise!Replace, Switching
<1>5. QED
  BY <1>4 DEF Promise!Next

\* boot_a is overwritten only inside a switch that has archived the Android
\* image it overwrites, and the archive outlives the switch.
THEOREM PromiseKept == Spec => KeepsPromise
<1>1. Init => Promise!Init
  <2> SUFFICES ASSUME Init PROVE Promise!Init
    OBVIOUS
  <2>1. bootA \in Image /\ ~Switching
    BY StoreInit DEF Init, StoreInv, DiskType, Switching
  <2>2. QED
    BY <2>1, ArchiveType DEF Promise!Init, Switching
<1>2. LockInv /\ StoreInv /\ [Next]_vars => [Promise!Next]_Promise!vars
  <2> SUFFICES ASSUME LockInv, StoreInv, [Next]_vars PROVE [Promise!Next]_Promise!vars
    OBVIOUS
  <2>1. ASSUME NEW p \in Proc, Start(p) \/ Signal(p) \/ Kill(p) PROVE [Promise!Next]_Promise!vars
    BY <2>1, PromiseAround
  <2>2. ASSUME NEW p \in Proc, Step(p) PROVE [Promise!Next]_Promise!vars
    BY <2>2, PromiseStep
  <2>3. CASE Shutdown \/ PowerLoss
    BY <2>3, PromiseDown
  <2>4. CASE BootUp \/ HostFlash \/ KsuPatch
    BY <2>4, PromiseReplaced
  <2>5. CASE UNCHANGED vars
    BY <2>5 DEF vars, Promise!vars, SafeArchive, Archived, Switching
  <2>6. QED
    BY <2>1, <2>2, <2>3, <2>4, <2>5 DEF Next
<1>3. QED
  BY <1>1, <1>2, ScriptInvariant, PTL DEF Spec, KeepsPromise, Promise!Spec

-----------------------------------------------------------------------------
(* The last Android image *)

\* What is in boot_a while it is written is archived when it is an Android
\* image, provided a torn image is never taken for one; and commit_set puts
\* the copy where there is no set.
KeptInv ==
  /\ \A p \in Proc : pc[p] \in Writing /\ bootA \in Android => Archived(bootA)
  /\ \A p \in Proc : pc[p] = "place" => store["android"] = Absent

LEMMA KeptStep ==
  ASSUME Android \subseteq Whole, LockInv, StoreInv, KeptInv, NEW p \in Proc, Step(p)
  PROVE  KeptInv'
<1> USE DEF Goto, Leave, Die
<1>0. /\ pc \in [Proc -> Labels] /\ LockInv' /\ StoreInv' /\ store \in [Dirs -> Content]
      /\ StageOK(p) /\ WriteOK(p) /\ WriteOK(p)'
  BY LockStep, StoreStep DEF StoreInv, ProcType, DiskType
<1>1. \A q \in Proc \ {p} : pc'[q] = pc[q] /\ held'[q] = held[q]
  BY ProcStep
<1>2. \A q \in Proc : pc[q] \in Working => Inside(q)
  BY DEF LockInv, Inside
<1>3. ASSUME NEW q \in Proc \ {p}, pc'[q] \in Writing \cup {"place"}
      PROVE  /\ pc'[q] \in Writing /\ bootA' \in Android => Archived(bootA)'
             /\ pc'[q] = "place" => store'["android"] = Absent
  <2>1. Inside(q) /\ pc[q] \in Writing \cup {"place"}
    BY <1>1, <1>2, <1>3 DEF Working, Writing
  <2>2. ~Inside(p)
    BY <2>1 DEF LockInv, LockExclusive
  <2>3. UNCHANGED <<bootA, store>> /\ (UNCHANGED <<durable, soft>> \/ Sync)
    BY <2>2, OutsideStep
  <2>4. QED
    BY <1>1, <2>3 DEF KeptInv, Archived, Sync
<1>4. pc'[p] = "place" => store'["android"] = Absent
  <2>1. ASSUME pc'[p] = "place" PROVE CommitAside(p)
    BY <1>0, <2>1, ReadsMove DEF Step, Reads, TakeLock, SetUp, StageCopy, SealCopy, CommitSync, CommitAside,
       CommitPlace, CommitFlush, OpenRW, WriteBegin, WriteEnd, CloseRW, ReadBack, WriteState, DoReboot,
       RequestReboot, ExitCleanup, Unlock, Gone
  <2>2. CommitAside(p) /\ pc'[p] = "place" => store' = [store EXCEPT !["old"] = store["android"], !["android"] = Absent]
    BY <1>0 DEF CommitAside
  <2>3. QED
    BY <1>0, <2>1, <2>2 DEF Dirs
<1>5. ASSUME pc'[p] \in Writing, bootA' \in Android
      PROVE  Archived(bootA)'
  <2>1. CASE pc[p] \notin Writing
    <3>1. pc'[p] = "open" /\ ~back'[p]
      <4>1. pc'[p] = "open" /\ pc[p] \in {"check", "flush"} /\ back' = back
        BY <1>0, <1>5, <2>1, ReadsMove DEF Writing, Step, Reads, TakeLock, SetUp, StageCopy, SealCopy, CommitSync,
           CommitAside, CommitPlace, CommitFlush, OpenRW, WriteBegin, WriteEnd, CloseRW, ReadBack, WriteState,
           DoReboot, RequestReboot, ExitCleanup, Unlock, Gone
      <4>2. QED
        BY <1>0, <4>1 DEF WriteOK, Writing, Leaving
    <3>2. QED
      BY <1>0, <1>5, <3>1 DEF WriteOK
  <2>2. CASE pc[p] \in Writing
    <3>1. OpenRW(p) \/ WriteBegin(p) \/ WriteEnd(p) \/ CloseRW(p) \/ ReadBack(p)
      BY <2>2, ReadsMove DEF Writing, Step, Reads, TakeLock, SetUp, StageCopy, SealCopy, CommitSync, CommitAside,
         CommitPlace, CommitFlush, WriteState, DoReboot, RequestReboot, ExitCleanup, Unlock
    <3>2. UNCHANGED <<store, durable, soft>>
      BY <3>1 DEF OpenRW, WriteBegin, WriteEnd, CloseRW, ReadBack, disk
    <3>3. CASE bootA' = bootA
      BY <1>5, <2>2, <3>2, <3>3 DEF KeptInv, Archived
    <3>4. CASE bootA' # bootA
      <4>1. bootA' \in Torn \cup {Writes(p)}
        BY <3>1, <3>4 DEF OpenRW, WriteBegin, WriteEnd, CloseRW, ReadBack
      <4>2. bootA' = Writes(p)
        BY <1>5, <4>1 DEF Torn
      <4>3. Usable(IF back[p] THEN WayBack(p) ELSE Target(p))
        BY <1>0, <2>2 DEF WriteOK
      <4>4. store["android"] = bootA'
        BY <1>5, <4>2, <4>3, Distinct DEF Writes, Usable, Of, WayBack, Target
      <4>5. ~Stale /\ "android" \notin soft
        BY <1>2, <2>2, NotStale DEF Writing, Working, StoreInv
      <4>6. QED
        BY <1>5, <3>2, <4>4, <4>5, Distinct DEF Archived, Stale
    <3>5. QED
      BY <3>3, <3>4
  <2>3. QED
    BY <2>1, <2>2
<1>6. QED
  BY <1>3, <1>4, <1>5 DEF KeptInv

LEMMA KeptNext ==
  ASSUME Android \subseteq Whole, LockInv, StoreInv, KeptInv, [Next]_vars
  PROVE  KeptInv'
<1>1. ASSUME NEW p \in Proc, Step(p) PROVE KeptInv'
  BY <1>1, KeptStep
<1>2. ASSUME NEW p \in Proc, Start(p) \/ Signal(p) \/ Kill(p) PROVE KeptInv'
  <2>1. UNCHANGED <<bootA, store, durable, soft>>
    BY <1>2 DEF Start, Signal, Kill, disk
  <2>2. \A q \in Proc : pc'[q] = pc[q] \/ pc'[q] \in {"mkdir", "exit", "idle"}
    BY <1>2 DEF Start, Signal, Kill, Goto, Leave, Gone, StoreInv, ProcType
  <2>3. QED
    BY <2>1, <2>2 DEF KeptInv, Writing, Archived
<1>3. CASE Shutdown \/ PowerLoss \/ BootUp \/ HostFlash \/ KsuPatch
  <2>1. \A q \in Proc : pc'[q] = "idle"
    BY <1>3 DEF Shutdown, PowerLoss, BootUp, HostFlash, KsuPatch, Gone, LockInv
  <2>2. QED
    BY <2>1 DEF KeptInv, Writing
<1>4. CASE UNCHANGED vars
  BY <1>4 DEF vars, KeptInv, Archived
<1>5. QED
  BY <1>1, <1>2, <1>3, <1>4 DEF Next

\* An image that is safe stays so when neither boot_a nor the android set changes.
LEMMA SafeSame ==
  ASSUME StoreInv, AndroidSafe, store'["android"] = store["android"], "android" \notin soft',
         durable'["android"] = durable["android"] \/ durable'["android"] = store'["android"],
         bootA' = bootA \/ (bootA \in Android => Archived(bootA))
  PROVE  AndroidSafe'
  BY DEF AndroidSafe, Archived

LEMMA KeptAction ==
  ASSUME Android \subseteq Whole, LockInv, StoreInv, KeptInv, NEW p \in Proc, Step(p), AndroidSafe, ~AndroidSafe'
  PROVE  pc[p] = "aside" /\ pc'[p] = "place" /\ durable["new"] \in Android \cap Whole
<1> USE DEF Goto, Leave, Die
<1>0. /\ pc \in [Proc -> Labels] /\ store \in [Dirs -> Content] /\ soft \subseteq {"new"}
      /\ StageOK(p) /\ "android" \in Dirs /\ StoreInv'
  BY StoreStep DEF StoreInv, ProcType, DiskType, Dirs
<1>1. "android" \notin soft'
  BY <1>0 DEF StoreInv
<1>2. Inside(p)
  BY <1>1, OutsideStep, SafeSame DEF Sync
<1>3. ~Reads(p)
  BY <1>1, ReadsMove, SafeSame DEF disk
<1>4. CASE Stages(p)
  <2>1. UNCHANGED bootA /\ (UNCHANGED durable \/ durable' = store')
    BY <1>4 DEF Stages, StageCopy, SealCopy, CommitSync, CommitAside, CommitPlace, CommitFlush, Sync
  <2>2. store'["android"] # store["android"]
    BY <1>1, <2>1, SafeSame
  <2>3. (CommitAside(p) \/ CommitPlace(p)) /\ pc'[p] \in {"place", "flush"}
    BY <1>0, <1>4, <2>2 DEF Stages, StageCopy, SealCopy, CommitSync, CommitAside, CommitPlace, CommitFlush, Dirs
  <2>4. CASE CommitPlace(p)
    <3>1. store["android"] = Absent
      BY <2>4 DEF CommitPlace, KeptInv
    <3>2. bootA \in Android \cap Whole
      BY <3>1, Distinct DEF AndroidSafe, Archived
    <3>3. QED
      BY <2>1, <3>2 DEF AndroidSafe
  <2>5. CASE CommitAside(p)
    <3>1. pc[p] = "aside" /\ pc'[p] = "place"
      BY <1>0, <2>3, <2>5 DEF CommitAside
    <3>2. durable["new"] \in Android
      BY <1>0, <3>1 DEF StageOK
    <3>3. QED
      BY <3>1, <3>2
  <2>6. QED
    BY <2>3, <2>4, <2>5
<1>5. CASE ~Stages(p)
  <2>1. store' = store /\ (UNCHANGED durable \/ durable' = store')
    BY <1>3, <1>5 DEF Reads, Stages, Step, TakeLock, SetUp, OpenRW, WriteBegin, WriteEnd, CloseRW, ReadBack,
       WriteState, DoReboot, RequestReboot, ExitCleanup, Unlock, Sync, disk
  <2>2. bootA' = bootA \/ pc[p] \in Writing
    BY <1>3, <1>5 DEF Writing, Reads, Stages, Step, TakeLock, SetUp, OpenRW, WriteBegin, WriteEnd, CloseRW,
       ReadBack, WriteState, DoReboot, RequestReboot, ExitCleanup, Unlock
  <2>3. bootA' = bootA \/ (bootA \in Android => Archived(bootA))
    BY <2>2 DEF KeptInv
  <2>4. QED
    BY <1>1, <2>1, <2>3, SafeSame
<1>6. QED
  BY <1>4, <1>5

\* No sequence of commands, errors and crashes gives up the last Android image,
\* but for the one step of commit_set between the two renames, provided a torn
\* boot_a never carries an Android header.
THEOREM LastAndroidKept ==
  ASSUME Android \subseteq Whole
  PROVE  Spec => AndroidKept
<1>1. Init => KeptInv
  BY DEF Init, KeptInv, Writing
<1>2. LockInv /\ StoreInv /\ KeptInv /\ [Next]_vars => KeptInv'
  BY KeptNext
<1>3. Spec => []KeptInv
  BY <1>1, <1>2, ScriptInvariant, PTL DEF Spec
<1>4. LockInv /\ StoreInv /\ KeptInv /\ [Next]_vars =>
        (AndroidSafe /\ ~AndroidSafe' =>
           \E p \in Proc : /\ pc[p] = "aside" /\ pc'[p] = "place"
                           /\ durable["new"] \in Android \cap Whole)
  <2> SUFFICES ASSUME LockInv, StoreInv, KeptInv, [Next]_vars, AndroidSafe, ~AndroidSafe'
               PROVE  \E p \in Proc : /\ pc[p] = "aside" /\ pc'[p] = "place"
                                      /\ durable["new"] \in Android \cap Whole
    OBVIOUS
  <2>1. ASSUME NEW p \in Proc, Step(p)
        PROVE  pc[p] = "aside" /\ pc'[p] = "place" /\ durable["new"] \in Android \cap Whole
    BY <2>1, KeptAction
  <2>2. ASSUME NEW p \in Proc, Start(p) \/ Signal(p) \/ Kill(p) PROVE FALSE
    BY <2>2 DEF Start, Signal, Kill, disk, AndroidSafe, Archived
  <2>3. ~(Shutdown \/ PowerLoss)
    <3>1. Shutdown \/ PowerLoss => UNCHANGED bootA /\ durable' = store' /\ soft' = {}
      BY DEF Shutdown, PowerLoss, Sync
    <3>2. ASSUME Shutdown \/ PowerLoss, NEW image \in Android \cap Whole, Archived(image) PROVE Archived(image)'
      BY <3>1, <3>2 DEF Shutdown, PowerLoss, Archived, Dirs, StoreInv
    <3>3. QED
      BY <3>1, <3>2 DEF AndroidSafe
  <2>4. ~BootUp
    BY DEF BootUp, disk, AndroidSafe, Archived
  <2>5. ~HostFlash
    BY DEF HostFlash, disk, AndroidSafe, Archived
  <2>6. ~KsuPatch
    BY DEF KsuPatch, AndroidSafe
  <2>7. ~UNCHANGED vars
    BY DEF vars, AndroidSafe, Archived
  <2>8. QED
    BY <2>1, <2>2, <2>3, <2>4, <2>5, <2>6, <2>7 DEF Next
<1>5. QED
  BY <1>3, <1>4, ScriptInvariant, PTL DEF Spec, AndroidKept

-----------------------------------------------------------------------------
(* --dry-run *)

\* A command with --dry-run does not get past its checks.
Inert(p) == pc[p] \in {"idle", "mkdir", "own", "check", "stateOnly", "exit", "unlock"} /\ ~saved[p].armed
DryInv == /\ DOMAIN saved = Proc
          /\ \A p \in Proc : pc[p] = "idle" \/ job[p].opt = "dry" => Inert(p)

\* A step of a process leaves what the others have saved alone.
LEMMA SavedStep ==
  ASSUME LockInv, StoreInv, DOMAIN saved = Proc, NEW p \in Proc, Step(p)
  PROVE  DOMAIN saved' = Proc /\ \A q \in Proc \ {p} : saved'[q] = saved[q]
<1>1. CASE Reads(p)
  BY <1>1, ReadsMove
<1>2. CASE TakeLock(p) \/ SetUp(p) \/ StageCopy(p) \/ SealCopy(p) \/ CommitSync(p) \/ CommitAside(p)
           \/ CommitPlace(p) \/ CommitFlush(p) \/ WriteBegin(p) \/ WriteEnd(p) \/ ReadBack(p)
           \/ WriteState(p) \/ DoReboot(p) \/ RequestReboot(p)
  BY <1>2 DEF TakeLock, SetUp, StageCopy, SealCopy, CommitSync, CommitAside, CommitPlace, CommitFlush,
     WriteBegin, WriteEnd, ReadBack, WriteState, DoReboot, RequestReboot
<1>3. CASE OpenRW(p) \/ CloseRW(p) \/ ExitCleanup(p)
  <2>1. UNCHANGED saved \/ \E v : saved' = [saved EXCEPT ![p] = v]
    BY <1>3, Zenon DEF OpenRW, CloseRW, ExitCleanup, PutBack, PutBackFails
  <2>2. QED
    BY <2>1
<1>4. CASE Unlock(p)
  BY <1>4 DEF Unlock, Gone
<1>5. QED
  BY <1>1, <1>2, <1>3, <1>4 DEF Step, Reads

\* A step of a command with --dry-run changes nothing and keeps it inert.
LEMMA DryMove ==
  ASSUME LockInv, StoreInv, NEW p \in Proc, Step(p), job[p].opt = "dry", Inert(p)
  PROVE  Inert(p)' /\ UNCHANGED <<bootA, ro, store, note>>
<1> USE DEF Goto, Leave, Die, disk
<1>0. pc \in [Proc -> Labels] /\ rc \in [Proc -> {0, 1, 130}]
  BY DEF StoreInv, ProcType
<1>1. /\ pc[p] \in {"mkdir", "own", "check", "stateOnly", "exit", "unlock"}
      /\ job[p].opt = "dry" /\ ~saved[p].armed
  BY ReadsMove DEF Inert, Step, Reads, TakeLock, SetUp, StageCopy, SealCopy, CommitSync, CommitAside, CommitPlace,
     CommitFlush, OpenRW, WriteBegin, WriteEnd, CloseRW, ReadBack, WriteState, DoReboot, RequestReboot,
     ExitCleanup, Unlock
<1>2. \/ TakeLock(p) \/ SetUp(p) \/ Reads(p) \/ WriteState(p) \/ ExitCleanup(p) \/ Unlock(p)
  BY <1>1 DEF Step, Reads, StageCopy, SealCopy, CommitSync, CommitAside, CommitPlace, CommitFlush,
     OpenRW, WriteBegin, WriteEnd, CloseRW, ReadBack, DoReboot, RequestReboot
<1>3. UNCHANGED <<bootA, ro, store, note>>
  BY <1>1, <1>2, ReadsMove DEF TakeLock, SetUp, WriteState, ExitCleanup, Unlock
<1>4. CASE TakeLock(p) \/ SetUp(p) \/ WriteState(p) \/ ExitCleanup(p)
  BY <1>0, <1>1, <1>3, <1>4 DEF TakeLock, SetUp, WriteState, ExitCleanup, Inert
<1>5. CASE Unlock(p)
  BY <1>3, <1>5 DEF Unlock, Gone, Unsaved, Inert
<1>6. CASE Reads(p)
  <2>1. UNCHANGED <<job, saved>>
    BY <1>6, ReadsMove
  <2>2. pc'[p] \in {"stateOnly", "exit"}
    BY <1>0, <1>1, <1>6 DEF Reads, Status, Verify, Stash, Import, ToUbuntu, ToAndroid, Proceed
  <2>3. QED
    BY <1>1, <1>3, <2>1, <2>2 DEF Inert
<1>7. QED
  BY <1>2, <1>4, <1>5, <1>6

\* Any other command is inert once it is gone.
LEMMA WetMove ==
  ASSUME LockInv, StoreInv, NEW p \in Proc, Step(p), job[p].opt # "dry"
  PROVE  (pc'[p] = "idle" /\ ~saved'[p].armed) \/ (pc'[p] # "idle" /\ job'[p] = job[p])
<1> USE DEF Goto, Leave, Die, Proceed
<1>0. pc \in [Proc -> Labels]
  BY DEF StoreInv, ProcType
<1>1. CASE Unlock(p)
  BY <1>1 DEF Unlock, Gone, Unsaved
<1>2. CASE Reads(p)
  <2>1. UNCHANGED job
    BY <1>2, ReadsMove
  <2>2. pc'[p] # "idle"
    BY <1>0, <1>2 DEF Reads, Status, Verify, Stash, Import, ToUbuntu, ToAndroid
  <2>3. QED
    BY <2>1, <2>2
<1>3. CASE TakeLock(p) \/ SetUp(p) \/ StageCopy(p) \/ SealCopy(p) \/ CommitSync(p) \/ CommitAside(p)
           \/ CommitPlace(p) \/ CommitFlush(p)
  BY <1>0, <1>3 DEF TakeLock, SetUp, StageCopy, SealCopy, CommitSync, CommitAside, CommitPlace, CommitFlush
<1>4. CASE OpenRW(p) \/ WriteBegin(p) \/ WriteEnd(p) \/ CloseRW(p) \/ ReadBack(p)
           \/ WriteState(p) \/ DoReboot(p) \/ RequestReboot(p) \/ ExitCleanup(p)
  BY <1>0, <1>4 DEF OpenRW, WriteBegin, WriteEnd, CloseRW, ReadBack, WriteState, DoReboot, RequestReboot, ExitCleanup
<1>5. QED
  BY <1>1, <1>2, <1>3, <1>4 DEF Step, Reads

LEMMA DryStep ==
  ASSUME LockInv, StoreInv, DryInv, NEW p \in Proc, Step(p)
  PROVE  DryInv' /\ (job[p].opt = "dry" => UNCHANGED <<bootA, ro, store, note>>)
<1>1. /\ DOMAIN saved' = Proc
      /\ \A q \in Proc \ {p} : pc'[q] = pc[q] /\ job'[q] = job[q] /\ saved'[q] = saved[q]
  BY ProcStep, SavedStep DEF DryInv
<1>2. CASE job[p].opt = "dry"
  <2>1. Inert(p)
    BY <1>2 DEF DryInv
  <2>2. Inert(p)' /\ UNCHANGED <<bootA, ro, store, note>>
    BY <1>2, <2>1, DryMove
  <2>3. QED
    BY <1>1, <2>2 DEF DryInv, Inert
<1>3. CASE job[p].opt # "dry"
  <2>1. pc'[p] = "idle" \/ job'[p].opt = "dry" => Inert(p)'
    BY <1>3, WetMove DEF Inert
  <2>2. QED
    BY <1>1, <1>3, <2>1 DEF DryInv, Inert
<1>4. QED
  BY <1>2, <1>3

\* --dry-run "writes nothing at all", whatever runs beside the command.
THEOREM DryRunIsDry == Spec => DryRunWritesNothing
<1> DEFINE Dry == \A p \in Proc : /\ up /\ up' /\ pc[p] # "idle" /\ job[p].opt = "dry"
                                  /\ pc'[p] # pc[p]
                                  => UNCHANGED <<bootA, ro, store, note>>
<1>1. Init => DryInv
  <2>1. Init => DOMAIN saved = Proc /\ \A p \in Proc : pc[p] = "idle" /\ saved[p] = Unsaved
    BY DEF Init
  <2>2. ~Unsaved.armed
    BY DEF Unsaved
  <2>3. QED
    BY <2>1, <2>2 DEF DryInv, Inert
<1>2. LockInv /\ StoreInv /\ DryInv /\ [Next]_vars => DryInv' /\ Dry
  <2> SUFFICES ASSUME LockInv, StoreInv, DryInv, [Next]_vars
               PROVE  DryInv' /\ Dry
    OBVIOUS
  <2>1. ASSUME NEW p \in Proc, Step(p) PROVE DryInv' /\ Dry
    <3>1. DryInv' /\ (job[p].opt = "dry" => UNCHANGED <<bootA, ro, store, note>>)
      BY <2>1, DryStep
    <3>2. \A q \in Proc \ {p} : pc'[q] = pc[q]
      BY <2>1, ProcStep
    <3>3. QED
      BY <3>1, <3>2
  <2>2. ASSUME NEW p \in Proc, Start(p) PROVE DryInv' /\ Dry
    <3>1. PICK j : job' = [job EXCEPT ![p] = j]
      BY <2>2, Zenon DEF Start
    <3>2. job \in [Proc -> Jobs \cup {NoJob}] /\ pc \in [Proc -> Labels]
      BY DEF StoreInv, ProcType
    <3>3. pc[p] = "idle" /\ pc' = [pc EXCEPT ![p] = "mkdir"] /\ UNCHANGED <<saved, bootA, ro, store, note>>
      BY <2>2 DEF Start, Goto, disk
    <3>4. \A q \in Proc \ {p} : job'[q] = job[q] /\ pc'[q] = pc[q]
      BY <3>1, <3>2, <3>3
    <3>5. DryInv'
      BY <3>2, <3>3, <3>4 DEF DryInv, Inert
    <3>6. QED
      BY <3>3, <3>5
  <2>3. ASSUME NEW p \in Proc, Signal(p) PROVE DryInv' /\ Dry
    <3>1. UNCHANGED <<bootA, ro, store, note, job, saved>> /\ pc' = [pc EXCEPT ![p] = "exit"]
          /\ pc[p] # "idle" /\ pc \in [Proc -> Labels]
      BY <2>3 DEF Signal, Leave, disk, StoreInv, ProcType
    <3>2. DryInv'
      BY <3>1 DEF DryInv, Inert
    <3>3. QED
      BY <3>1, <3>2
  <2>4. ASSUME NEW p \in Proc, Kill(p) PROVE DryInv' /\ Dry
    <3>1. Gone({p}) /\ UNCHANGED <<bootA, ro, store, note>>
      BY <2>4 DEF Kill, disk
    <3>2. DOMAIN saved' = Proc /\ \A q \in Proc \ {p} : pc'[q] = pc[q] /\ job'[q] = job[q] /\ saved'[q] = saved[q]
      BY <3>1 DEF Gone
    <3>3. pc'[p] = "idle" /\ ~saved'[p].armed
      BY <3>1 DEF Gone, Unsaved
    <3>4. QED
      BY <3>1, <3>2, <3>3 DEF DryInv, Inert
  <2>5. CASE Shutdown \/ PowerLoss
    <3>1. ~up' /\ DOMAIN saved' = Proc /\ \A p \in Proc : pc'[p] = "idle" /\ ~saved'[p].armed
      BY <2>5 DEF Shutdown, PowerLoss, Gone, Unsaved
    <3>2. QED
      BY <3>1 DEF DryInv, Inert
  <2>6. CASE BootUp \/ HostFlash \/ KsuPatch \/ UNCHANGED vars
    <3>1. UNCHANGED <<pc, job, saved>>
      BY <2>6 DEF BootUp, HostFlash, KsuPatch, vars, locals
    <3>2. QED
      BY <3>1 DEF DryInv, Inert
  <2>7. QED
    BY <2>1, <2>2, <2>3, <2>4, <2>5, <2>6 DEF Next
<1>3. QED
  BY <1>1, <1>2, ScriptInvariant, PTL DEF Spec, DryRunWritesNothing

=============================================================================
