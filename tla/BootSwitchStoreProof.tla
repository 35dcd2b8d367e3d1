------------------------ MODULE BootSwitchStoreProof ------------------------
(***************************************************************************)
(* The archive: what stash_live, commit_set and the write of boot_a rely   *)
(* on, and that every variable keeps its type on the way.                  *)
(***************************************************************************)
EXTENDS BootSwitchProof

-----------------------------------------------------------------------------
(* The invariant *)

TabletType ==
  /\ up \in BOOLEAN /\ os \in {"ubuntu", "android"} /\ slot \in {"a", "b"}
  /\ ro \in Flags /\ lock \in BOOLEAN /\ halting \in BOOLEAN
  /\ note \in {Absent, "ubuntu", "android"} /\ excused \in BOOLEAN
  /\ faults \in 0..MaxFaults /\ crashes \in 0..MaxCrashes

Content == Image \cup {Absent, Damaged}
DiskType ==
  /\ bootA \in Image /\ soft \subseteq Dirs
  /\ store \in [Dirs -> Content] /\ durable \in [Dirs -> Content]

Armed == [armed: BOOLEAN, part: BOOLEAN, disk: BOOLEAN]
ProcType ==
  /\ pc \in [Proc -> Labels] /\ job \in [Proc -> Jobs \cup {NoJob}]
  /\ held \in [Proc -> BOOLEAN] /\ live \in [Proc -> Image \cup {Absent}]
  /\ saved \in [Proc -> Armed] /\ wrote \in [Proc -> BOOLEAN] /\ back \in [Proc -> BOOLEAN]
  /\ rc \in [Proc -> {0, 1, 130}]

Staging == {"stage", "seal", "sync", "aside", "place", "flush"}
Writing == {"open", "write", "writing", "close", "verify"}

\* From the copy to the flush: the copy is an Android image, the live one on
\* the way to Ubuntu, and on the medium before the archived set moves.
StageOK(p) ==
  /\ pc[p] \in Staging => job[p].cmd \in {"stash-android", "import-android", "to-ubuntu"}
  /\ pc[p] \in Staging /\ job[p].cmd = "to-ubuntu" => Usable("ubuntu")
  /\ pc[p] \in {"sync", "aside", "place"} => store["new"] \in Android
  /\ pc[p] \in {"sync", "aside", "place"} /\ job[p].cmd = "to-ubuntu" => store["new"] = bootA
  /\ pc[p] \in {"aside", "place"} => durable["new"] = store["new"] /\ soft = {}
  /\ pc[p] = "flush" => store["android"] \in Android /\ soft = {}
  /\ pc[p] = "flush" /\ job[p].cmd = "to-ubuntu" => store["android"] = bootA

\* While boot_a is written: what is written is a usable set, and the Android
\* image the write is about to destroy is archived.
WriteOK(p) ==
  /\ pc[p] \in Writing => job[p].cmd \in {"to-ubuntu", "to-android"}
  /\ pc[p] \in Writing => Usable(IF back[p] THEN WayBack(p) ELSE Target(p))
  /\ pc[p] \in {"open", "write"} /\ ~back[p] /\ bootA \in Android => Archived(bootA)
  /\ back[p] => pc[p] \in Writing \cup Leaving

\* After it: boot_a holds what was asked for.
Done(p) ==
  \/ pc[p] \in {"state", "stateOnly", "reboot"}
  \/ /\ pc[p] \in Leaving /\ held[p] /\ rc[p] = 0
     /\ job[p].cmd \in {"to-ubuntu", "to-android"} /\ job[p].opt # "dry"
DoneOK(p) == Done(p) => bootA = store[Target(p)] /\ Usable(Target(p))

\* The archive processes see is the one on the medium, except between the
\* rename and the sync after it: then the lock exists, and it outlives a
\* process killed there, until the next boot.
Stale == store["android"] \in Image /\ durable["android"] # store["android"]
StaleOK == Stale => up /\ lock /\ \A p \in Proc : Inside(p) => pc[p] = "flush"

StoreInv ==
  /\ TabletType /\ DiskType /\ ProcType
  /\ soft \subseteq {"new"} /\ StaleOK
  /\ \A p \in Proc : StageOK(p) /\ WriteOK(p) /\ DoneOK(p)

LEMMA StoreInvType == StoreInv => TypeOK
  BY DEF StoreInv, TypeOK, TabletType, DiskType, ProcType, Content, Armed

\* The images, the flags and the labels are different things.
LEMMA Distinct ==
  /\ Absent \notin Image /\ Damaged \notin Image /\ Absent # Damaged
  /\ Ubuntu \cap Android = {} /\ Torn \subseteq Image /\ Whole \subseteq Image
  /\ ImportFiles \subseteq Image /\ Ubuntu \subseteq Image /\ Android \subseteq Image
  BY ImageAssumption DEF Image, Torn

LEMMA Counted ==
  ASSUME TabletType
  PROVE  /\ Fault => faults' \in 0..MaxFaults
         /\ Crash => crashes' \in 0..MaxCrashes
         /\ faults < MaxFaults => faults + 1 \in 0..MaxFaults
  BY BoundAssumption DEF TabletType, Fault, Crash

-----------------------------------------------------------------------------
(* Types *)

Reads(p) == Status(p) \/ Verify(p) \/ Stash(p) \/ Import(p) \/ ToUbuntu(p) \/ ToAndroid(p)
Stages(p) == StageCopy(p) \/ SealCopy(p) \/ CommitSync(p) \/ CommitAside(p) \/ CommitPlace(p) \/ CommitFlush(p)

\* The six subcommands read: where they lead, and what they leave alone.
LEMMA ReadsMove ==
  ASSUME LockInv, StoreInv, NEW p \in Proc, Reads(p)
  PROVE  /\ pc[p] = "check"
         /\ UNCHANGED <<machine, bootA, ro, lock, halting, disk, job, held, saved, wrote, back, excused, budget>>
         /\ \/ \E l \in {"stage", "open", "stateOnly"} : pc' = [pc EXCEPT ![p] = l] /\ rc' = rc
            \/ \E s \in {0, 1} : pc' = [pc EXCEPT ![p] = "exit"] /\ rc' = [rc EXCEPT ![p] = s]
         /\ live' \in [Proc -> Image \cup {Absent}]
<1> USE DEF Reads, Goto, Leave, Die
<1>1. pc[p] = "check" /\ ReadsOnly
  BY DEF Status, Verify, Stash, Import, ToUbuntu, ToAndroid, ReadsLive, At
<1>2. \/ \E l \in {"stage", "open", "stateOnly"} : pc' = [pc EXCEPT ![p] = l] /\ rc' = rc
      \/ \E s \in {0, 1} : pc' = [pc EXCEPT ![p] = "exit"] /\ rc' = [rc EXCEPT ![p] = s]
  BY DEF Status, Verify, Stash, Import, ToUbuntu, ToAndroid, Proceed
<1>3. ReadsLive(p) \/ live' = live
  BY DEF Status, Verify, Stash, Import, ToUbuntu, ToAndroid
<1>4. live' \in [Proc -> Image \cup {Absent}]
  BY <1>3 DEF ReadsLive, StoreInv, ProcType, DiskType
<1>5. QED
  BY <1>1, <1>2, <1>4 DEF ReadsOnly

LEMMA TabletStep ==
  ASSUME LockInv, StoreInv, NEW p \in Proc, Step(p)
  PROVE  TabletType'
<1> USE DEF machine, disk, locals, budget
<1>1. TabletType
  BY DEF StoreInv
<1>2. up' = up /\ os' = os /\ slot' = slot
  BY ReadsMove DEF Step, Reads, TakeLock, SetUp, StageCopy, SealCopy, CommitSync, CommitAside, CommitPlace,
     CommitFlush, OpenRW, WriteBegin, WriteEnd, CloseRW, ReadBack, WriteState, DoReboot, RequestReboot,
     ExitCleanup, Unlock
<1>3. crashes' = crashes
  BY ReadsMove DEF Step, Reads, TakeLock, SetUp, StageCopy, SealCopy, CommitSync, CommitAside, CommitPlace,
     CommitFlush, OpenRW, WriteBegin, WriteEnd, CloseRW, ReadBack, WriteState, DoReboot, RequestReboot,
     ExitCleanup, Unlock
<1>4. faults' = faults \/ Fault \/ (faults < MaxFaults /\ faults' = faults + 1)
  BY ReadsMove DEF Step, Reads, TakeLock, SetUp, StageCopy, SealCopy, CommitSync, CommitAside, CommitPlace,
     CommitFlush, OpenRW, WriteBegin, WriteEnd, CloseRW, ReadBack, WriteState, DoReboot, RequestReboot,
     ExitCleanup, Unlock, PutBack, PutBackFails
<1>5. faults' \in 0..MaxFaults
  BY <1>1, <1>4, Counted DEF TabletType
<1>6. lock' \in BOOLEAN /\ halting' \in BOOLEAN
  BY <1>1, ReadsMove DEF Step, Reads, TakeLock, SetUp, StageCopy, SealCopy, CommitSync, CommitAside, CommitPlace,
     CommitFlush, OpenRW, WriteBegin, WriteEnd, CloseRW, ReadBack, WriteState, DoReboot, RequestReboot,
     ExitCleanup, Unlock, RmdirLock, TabletType
<1>7. note' \in {Absent, "ubuntu", "android"}
  BY <1>1, ReadsMove DEF Step, Reads, TakeLock, SetUp, StageCopy, SealCopy, CommitSync, CommitAside, CommitPlace,
     CommitFlush, OpenRW, WriteBegin, WriteEnd, CloseRW, ReadBack, WriteState, DoReboot, RequestReboot,
     ExitCleanup, Unlock, Target, TabletType
<1>8. UNCHANGED <<ro, excused>> \/ OpenRW(p) \/ PutBack(p) \/ PutBackFails(p)
  BY ReadsMove DEF Step, Reads, TakeLock, SetUp, StageCopy, SealCopy, CommitSync, CommitAside, CommitPlace,
     CommitFlush, WriteBegin, WriteEnd, CloseRW, ReadBack, WriteState, DoReboot, RequestReboot,
     ExitCleanup, Unlock
<1>9. excused' \in BOOLEAN
  BY <1>1, <1>8 DEF OpenRW, PutBack, PutBackFails, TabletType
<1>10. ro' \in Flags
  <2>1. CASE OpenRW(p)
    <3>1. CASE ro' = [part |-> FALSE, disk |-> FALSE]
      BY <3>1 DEF Flags
    <3>2. ASSUME NEW still \in BOOLEAN, ro' = [part |-> ro.part, disk |-> still /\ ro.disk]
          PROVE  ro' \in Flags
      BY <3>2, <1>1 DEF TabletType, Flags
    <3>3. QED
      BY <2>1, <3>1, <3>2 DEF OpenRW
  <2>2. CASE PutBack(p)
    BY <2>2 DEF PutBack, Reseal, Flags
  <2>3. CASE PutBackFails(p)
    <3>1. PICK part, dev \in BOOLEAN : ro' = [part |-> Reseal(p).part /\ part, disk |-> Reseal(p).disk /\ dev]
      BY <2>3 DEF PutBackFails
    <3>2. QED
      BY <3>1 DEF Flags
  <2>4. QED
    BY <1>1, <1>8, <2>1, <2>2, <2>3 DEF TabletType
<1>11. QED
  BY <1>1, <1>2, <1>3, <1>5, <1>6, <1>7, <1>9, <1>10 DEF TabletType

LEMMA GoneType ==
  ASSUME StoreInv, NEW S \in SUBSET Proc, Gone(S)
  PROVE  ProcType'
<1>1. ProcType
  BY DEF StoreInv
<1>2. NoJob \in Jobs \cup {NoJob} /\ Unsaved \in Armed /\ "idle" \in Labels
  BY DEF Unsaved, Armed, Labels
<1>3. pc' \in [Proc -> Labels] /\ job' \in [Proc -> Jobs \cup {NoJob}] /\ held' \in [Proc -> BOOLEAN]
  BY <1>1, <1>2 DEF Gone, ProcType
<1>4. live' \in [Proc -> Image \cup {Absent}] /\ saved' \in [Proc -> Armed]
  BY <1>1, <1>2 DEF Gone, ProcType
<1>5. wrote' \in [Proc -> BOOLEAN] /\ back' \in [Proc -> BOOLEAN] /\ rc' \in [Proc -> {0, 1, 130}]
  BY <1>1 DEF Gone, ProcType
<1>6. QED
  BY <1>3, <1>4, <1>5 DEF ProcType

\* A process that takes a step moves itself only, and Unlock ends it.
LEMMA ProcStep ==
  ASSUME LockInv, StoreInv, NEW p \in Proc, Step(p)
  PROVE  /\ ProcType'
         /\ \A q \in Proc \ {p} : /\ pc'[q] = pc[q] /\ job'[q] = job[q] /\ held'[q] = held[q]
                                  /\ back'[q] = back[q] /\ rc'[q] = rc[q]
<1> USE DEF machine, disk, locals, budget
<1>1. ProcType
  BY DEF StoreInv
<1>2. CASE Unlock(p)
  <2>1. Gone({p})
    BY <1>2 DEF Unlock
  <2>2. ProcType'
    BY <2>1, GoneType
  <2>3. \A q \in Proc \ {p} : /\ pc'[q] = pc[q] /\ job'[q] = job[q] /\ held'[q] = held[q]
                              /\ back'[q] = back[q] /\ rc'[q] = rc[q]
    BY <1>1, <2>1 DEF Gone, ProcType
  <2>4. QED
    BY <2>2, <2>3
<1>3. CASE ~Unlock(p)
  <2>1. /\ job' = job
        /\ \E l \in Labels : pc' = [pc EXCEPT ![p] = l]
    BY <1>3, ReadsMove DEF Step, Reads, TakeLock, SetUp, StageCopy, SealCopy, CommitSync, CommitAside, CommitPlace,
       CommitFlush, OpenRW, WriteBegin, WriteEnd, CloseRW, ReadBack, WriteState, DoReboot, RequestReboot,
       ExitCleanup, Goto, Leave, Die, Labels
  <2>2. rc' = rc \/ \E s \in {0, 1} : rc' = [rc EXCEPT ![p] = s]
    BY <1>1, <1>3, ReadsMove DEF Step, Reads, TakeLock, SetUp, StageCopy, SealCopy, CommitSync, CommitAside,
       CommitPlace, CommitFlush, OpenRW, WriteBegin, WriteEnd, CloseRW, ReadBack, WriteState, DoReboot,
       RequestReboot, ExitCleanup, Goto, Leave, Die, ProcType
  <2>3. held' = held \/ \E h \in BOOLEAN : held' = [held EXCEPT ![p] = h]
    BY <1>3, ReadsMove DEF Step, Reads, TakeLock, SetUp, StageCopy, SealCopy, CommitSync, CommitAside,
       CommitPlace, CommitFlush, OpenRW, WriteBegin, WriteEnd, CloseRW, ReadBack, WriteState, DoReboot,
       RequestReboot, ExitCleanup
  <2>4. /\ back' = back \/ back' = [back EXCEPT ![p] = TRUE]
        /\ wrote' = wrote \/ \E w \in BOOLEAN : wrote' = [wrote EXCEPT ![p] = w]
    BY <1>3, ReadsMove DEF Step, Reads, TakeLock, SetUp, StageCopy, SealCopy, CommitSync, CommitAside,
       CommitPlace, CommitFlush, OpenRW, WriteBegin, WriteEnd, CloseRW, ReadBack, WriteState, DoReboot,
       RequestReboot, ExitCleanup
  <2>5. live' \in [Proc -> Image \cup {Absent}]
    BY <1>1, <1>3, ReadsMove DEF Step, Reads, TakeLock, SetUp, StageCopy, SealCopy, CommitSync, CommitAside,
       CommitPlace, CommitFlush, OpenRW, WriteBegin, WriteEnd, CloseRW, ReadBack, WriteState, DoReboot,
       RequestReboot, ExitCleanup, ProcType
  <2>6. saved' = saved \/ saved' = [saved EXCEPT ![p] = Unsaved] \/ saved' = [saved EXCEPT ![p] = FlagsFound]
    BY <1>3, ReadsMove DEF Step, Reads, TakeLock, SetUp, StageCopy, SealCopy, CommitSync, CommitAside,
       CommitPlace, CommitFlush, OpenRW, WriteBegin, WriteEnd, CloseRW, ReadBack, WriteState, DoReboot,
       RequestReboot, ExitCleanup, PutBack, PutBackFails
  <2>7. FlagsFound \in Armed /\ Unsaved \in Armed
    BY DEF FlagsFound, Unsaved, Armed, StoreInv, TabletType, Flags
  <2>8. saved' \in [Proc -> Armed]
    BY <1>1, <2>6, <2>7 DEF ProcType
  <2>9. /\ pc' \in [Proc -> Labels] /\ job' \in [Proc -> Jobs \cup {NoJob}]
        /\ \A q \in Proc \ {p} : pc'[q] = pc[q] /\ job'[q] = job[q]
    BY <1>1, <2>1 DEF ProcType
  <2>10. rc' \in [Proc -> {0, 1, 130}] /\ \A q \in Proc \ {p} : rc'[q] = rc[q]
    BY <1>1, <2>2 DEF ProcType
  <2>11. held' \in [Proc -> BOOLEAN] /\ \A q \in Proc \ {p} : held'[q] = held[q]
    BY <1>1, <2>3 DEF ProcType
  <2>12. back' \in [Proc -> BOOLEAN] /\ \A q \in Proc \ {p} : back'[q] = back[q]
    <3>1. CASE back' = [back EXCEPT ![p] = TRUE]
      BY <1>1, <3>1 DEF ProcType
    <3>2. CASE back' = back
      BY <1>1, <3>2 DEF ProcType
    <3>3. QED
      BY <2>4, <3>1, <3>2
  <2>13. wrote' \in [Proc -> BOOLEAN]
    BY <1>1, <2>4 DEF ProcType
  <2>14. QED
    BY <2>5, <2>8, <2>9, <2>10, <2>11, <2>12, <2>13 DEF ProcType
<1>4. QED
  BY <1>2, <1>3

-----------------------------------------------------------------------------
(* The others *)

\* A process outside the lock leaves boot_a and the store alone; it may sync.
LEMMA OutsideStep ==
  ASSUME LockInv, StoreInv, NEW p \in Proc, Step(p), ~Inside(p)
  PROVE  /\ UNCHANGED <<bootA, store>>
         /\ UNCHANGED <<durable, soft>> \/ Sync
<1>1. pc[p] \notin Working \cup {"own"}
  BY DEF Inside, LockInv
<1>2. TakeLock(p) \/ RequestReboot(p) \/ ExitCleanup(p) \/ Unlock(p)
  BY <1>1, ReadsMove DEF Step, Reads, SetUp, StageCopy, SealCopy, CommitSync, CommitAside, CommitPlace,
     CommitFlush, OpenRW, WriteBegin, WriteEnd, CloseRW, ReadBack, WriteState, DoReboot, Working
<1>3. QED
  BY <1>2 DEF TakeLock, RequestReboot, ExitCleanup, Unlock, disk

\* What a process relies on survives the steps of the others.
LEMMA ReadyKept ==
  ASSUME LockInv, StoreInv, NEW q \in Proc,
         pc'[q] = pc[q], job'[q] = job[q], held'[q] = held[q], back'[q] = back[q], rc'[q] = rc[q],
         Inside(q) => UNCHANGED <<bootA, store>> /\ (UNCHANGED <<durable, soft>> \/ Sync)
  PROVE  StageOK(q)' /\ WriteOK(q)' /\ DoneOK(q)'
<1>1. StageOK(q) /\ WriteOK(q) /\ DoneOK(q)
  BY DEF StoreInv
<1>2. pc[q] \in Working => Inside(q)
  BY DEF LockInv, Inside
<1>3. pc[q] \in Leaving /\ held[q] => Inside(q)
  BY DEF Inside
<1>4. StageOK(q)'
  BY <1>1, <1>2 DEF StageOK, Staging, Working, Usable, Of, Sync
<1>5. WriteOK(q)'
  BY <1>1, <1>2 DEF WriteOK, Writing, Working, Leaving, Usable, Of, Target, WayBack, Archived, Sync
<1>6. DoneOK(q)'
  BY <1>1, <1>2, <1>3 DEF DoneOK, Done, Working, Leaving, Usable, Of, Target
<1>7. QED
  BY <1>4, <1>5, <1>6

-----------------------------------------------------------------------------
(* The process that takes the step *)

Own(p) == /\ DiskType /\ soft \subseteq {"new"} /\ StaleOK
          /\ StageOK(p) /\ WriteOK(p) /\ DoneOK(p)

LEMMA NotStale ==
  ASSUME LockInv, StoreInv, NEW p \in Proc, Inside(p), pc[p] # "flush"
  PROVE  ~Stale
  BY DEF StoreInv, StaleOK

LEMMA OwnOutside ==
  ASSUME LockInv, StoreInv, NEW p \in Proc, Step(p), ~Inside(p)
  PROVE  Own(p)'
<1> USE DEF Goto, Leave, Die
<1>1. UNCHANGED <<bootA, store>> /\ (UNCHANGED <<durable, soft>> \/ Sync)
  BY OutsideStep
<1>2. pc[p] \notin Working \cup {"own"}
  BY DEF Inside, LockInv
<1>3. TakeLock(p) \/ RequestReboot(p) \/ ExitCleanup(p) \/ Unlock(p)
  BY <1>2, ReadsMove DEF Step, Reads, SetUp, StageCopy, SealCopy, CommitSync, CommitAside, CommitPlace,
     CommitFlush, OpenRW, WriteBegin, WriteEnd, CloseRW, ReadBack, WriteState, DoReboot, Working
<1>4. DiskType' /\ soft' \subseteq {"new"}
  BY <1>1 DEF StoreInv, DiskType, Sync
<1>5. /\ pc'[p] \in {"own", "exit", "unlock", "idle"} /\ ~held'[p]
      /\ back'[p] => pc'[p] \in Leaving
  BY <1>3 DEF TakeLock, RequestReboot, ExitCleanup, Unlock, Gone, LockInv, Inside, Outside, StoreInv,
     WriteOK, Writing, ProcType, Leaving
<1>6. StageOK(p)' /\ WriteOK(p)' /\ DoneOK(p)'
  BY <1>5 DEF StageOK, Staging, WriteOK, Writing, Leaving, DoneOK, Done
<1>7. StaleOK'
  <2>1. CASE Sync
    BY <2>1 DEF Sync, StaleOK, Stale
  <2>2. CASE UNCHANGED <<durable, soft>> /\ Stale
    <3>1. up /\ lock /\ \A q \in Proc : Inside(q) => pc[q] = "flush"
      BY <2>2 DEF StoreInv, StaleOK
    <3>2. up' /\ lock' /\ ~Inside(p)'
      BY <1>3, <3>1 DEF TakeLock, RequestReboot, ExitCleanup, Unlock, RmdirLock, Gone, Inside, LockInv, machine
    <3>3. \A q \in Proc \ {p} : pc'[q] = pc[q] /\ held'[q] = held[q]
      BY ProcStep
    <3>4. QED
      BY <3>1, <3>2, <3>3 DEF StaleOK, Inside
  <2>3. CASE UNCHANGED <<durable, soft>> /\ ~Stale
    BY <1>1, <2>3 DEF StaleOK, Stale
  <2>4. QED
    BY <1>1, <2>1, <2>2, <2>3
<1>8. QED
  BY <1>4, <1>6, <1>7 DEF Own

\* Nothing on the disk changes, or it is synced.
LEMMA OwnQuiet ==
  ASSUME LockInv, StoreInv, NEW p \in Proc, Inside(p), pc[p] # "flush",
         UNCHANGED store, UNCHANGED <<durable, soft>> \/ Sync, bootA' \in Image,
         StageOK(p)', WriteOK(p)', DoneOK(p)'
  PROVE  Own(p)'
<1>1. DiskType' /\ soft' \subseteq {"new"}
  BY DEF StoreInv, DiskType, Sync
<1>2. StaleOK'
  BY NotStale DEF StaleOK, Stale, Sync
<1>3. QED
  BY <1>1, <1>2 DEF Own

LEMMA OwnReads ==
  ASSUME LockInv, StoreInv, NEW p \in Proc, Reads(p)
  PROVE  Own(p)'
<1> USE DEF Goto, Leave, Die
<1>0. pc \in [Proc -> Labels] /\ rc \in [Proc -> {0, 1, 130}]
  BY DEF StoreInv, ProcType
<1>1. pc[p] = "check" /\ UNCHANGED <<bootA, store, durable, soft, job, held, back>>
  BY ReadsMove DEF disk
<1>2. Inside(p) /\ ~back[p]
  BY <1>1 DEF LockInv, Inside, Working, StoreInv, WriteOK, Writing, Leaving
<1>3. ~Stale /\ "android" \notin soft
  BY <1>1, <1>2, NotStale DEF StoreInv
<1>4. bootA \in Image
  BY DEF StoreInv, DiskType
<1>5. CASE Status(p) \/ Verify(p)
  BY <1>0, <1>1, <1>2, <1>4, <1>5, OwnQuiet DEF Status, Verify, At, StageOK, Staging, WriteOK, Writing, DoneOK, Done, Leaving
<1>6. CASE Stash(p)
  BY <1>0, <1>1, <1>2, <1>4, <1>6, OwnQuiet DEF Stash, Proceed, At, StageOK, Staging, WriteOK, Writing, DoneOK, Done, Leaving
<1>7. CASE Import(p)
  BY <1>0, <1>1, <1>2, <1>4, <1>7, OwnQuiet DEF Import, Proceed, At, StageOK, Staging, WriteOK, Writing, DoneOK, Done, Leaving
<1>8. CASE ToUbuntu(p)
  <2>1. job[p].cmd = "to-ubuntu" /\ Target(p) = "ubuntu"
    BY <1>8 DEF ToUbuntu, At, Target
  <2>2. pc'[p] \in {"stage", "open", "stateOnly"} => Usable("ubuntu")
    BY <1>0, <1>8 DEF ToUbuntu
  <2>3. pc'[p] = "open" /\ bootA \in Android => LiveIs("android", bootA)
    BY <1>0, <1>8, Distinct DEF ToUbuntu, Proceed
  <2>4. pc'[p] = "open" /\ bootA \in Android => Archived(bootA)
    BY <1>3, <1>4, <2>3 DEF LiveIs, Archived, Stale
  <2>5. pc'[p] = "stateOnly" => LiveIs("ubuntu", bootA)
    BY <1>0, <1>8 DEF ToUbuntu, Proceed
  <2>6. pc'[p] = "exit" => rc'[p] # 0 \/ job[p].opt = "dry"
    BY <1>0, <1>8 DEF ToUbuntu, Proceed
  <2>7. pc'[p] \in {"stage", "open", "stateOnly", "exit"}
    BY <1>0, <1>8 DEF ToUbuntu, Proceed
  <2>8. StageOK(p)'
    BY <1>1, <2>1, <2>2, <2>7 DEF StageOK, Staging, Usable, Of
  <2>9. WriteOK(p)'
    BY <1>1, <1>2, <2>1, <2>2, <2>4, <2>7 DEF WriteOK, Writing, Leaving, Usable, Of, Archived, Target
  <2>10. DoneOK(p)'
    BY <1>1, <2>1, <2>2, <2>5, <2>6, <2>7 DEF DoneOK, Done, Leaving, Usable, LiveIs, Of, Target
  <2>11. QED
    BY <1>1, <1>2, <1>4, <2>8, <2>9, <2>10, OwnQuiet
<1>9. CASE ToAndroid(p)
  <2>1. job[p].cmd = "to-android" /\ Target(p) = "android"
    BY <1>9 DEF ToAndroid, At, Target
  <2>2. pc'[p] \in {"open", "stateOnly"} => Usable("android")
    BY <1>0, <1>9 DEF ToAndroid
  <2>3. pc'[p] = "open" => bootA \notin Android
    BY <1>0, <1>9, Distinct DEF ToAndroid, Proceed
  <2>4. pc'[p] = "stateOnly" => LiveIs("android", bootA)
    BY <1>0, <1>9 DEF ToAndroid, Proceed
  <2>5. pc'[p] = "exit" => rc'[p] # 0 \/ job[p].opt = "dry"
    BY <1>0, <1>9 DEF ToAndroid, Proceed
  <2>6. pc'[p] \in {"open", "stateOnly", "exit"}
    BY <1>0, <1>9 DEF ToAndroid, Proceed
  <2>7. StageOK(p)'
    BY <2>6 DEF StageOK, Staging
  <2>8. WriteOK(p)'
    BY <1>1, <1>2, <2>1, <2>2, <2>3, <2>6 DEF WriteOK, Writing, Leaving, Usable, Of, Target
  <2>9. DoneOK(p)'
    BY <1>1, <2>1, <2>2, <2>4, <2>5, <2>6 DEF DoneOK, Done, Leaving, Usable, LiveIs, Of, Target
  <2>10. QED
    BY <1>1, <1>2, <1>4, <2>7, <2>8, <2>9, OwnQuiet
<1>10. QED
  BY <1>5, <1>6, <1>7, <1>8, <1>9 DEF Reads

LEMMA OwnStages ==
  ASSUME LockInv, StoreInv, NEW p \in Proc, Stages(p)
  PROVE  Own(p)'
<1> USE DEF Goto, Leave, Die, StageOK, Staging
<1>0. /\ pc \in [Proc -> Labels] /\ rc \in [Proc -> {0, 1, 130}] /\ bootA \in Image
      /\ store \in [Dirs -> Content] /\ durable \in [Dirs -> Content] /\ soft \subseteq {"new"}
      /\ StageOK(p) /\ WriteOK(p)
  BY DEF StoreInv, ProcType, DiskType
<1>1. pc[p] \in Staging /\ UNCHANGED <<bootA, job, held, back, lock, up>>
  BY DEF Stages, StageCopy, SealCopy, CommitSync, CommitAside, CommitPlace, CommitFlush, machine
<1>2. Inside(p) /\ ~back[p]
  BY <1>0, <1>1 DEF LockInv, Inside, Working, WriteOK, Writing, Leaving
<1>3. up /\ lock /\ \A q \in Proc : Inside(q)' => q = p
  <2>1. up /\ lock /\ \A q \in Proc : Inside(q) => q = p
    BY <1>1, <1>2 DEF LockInv, LockExclusive, Staging
  <2>2. Step(p)
    BY DEF Stages, Step
  <2>3. QED
    BY <2>1, <2>2, ProcStep DEF Inside
<1>4. Absent \in Content /\ Damaged \in Content /\ Image \subseteq Content /\ Absent \notin Image
      /\ Android \subseteq Image /\ "new" # "android" /\ "old" # "android" /\ "ubuntu" # "new"
      /\ {"ubuntu", "android", "old", "new"} = Dirs
  BY Distinct DEF Content, Dirs
<1>5. CASE StageCopy(p)
  <2>1. pc'[p] \in {"seal", "exit"} /\ (pc'[p] = "exit" => rc'[p] = 1)
    BY <1>0, <1>5 DEF StageCopy
  <2>2. \E c \in {Absent, Damaged} : store' = [store EXCEPT !["new"] = c]
    BY <1>5 DEF StageCopy
  <2>3. DiskType' /\ soft' \subseteq {"new"}
    BY <1>0, <1>1, <1>4, <1>5, <2>2 DEF StageCopy, DiskType
  <2>4. StaleOK'
    BY <1>0, <1>2, <1>4, <1>5, <2>2, NotStale DEF StageCopy, StaleOK, Stale
  <2>5. store'["ubuntu"] = store["ubuntu"]
    BY <1>0, <1>4, <2>2
  <2>6. StageOK(p)'
    BY <1>0, <1>1, <2>1, <2>5 DEF Usable, Of
  <2>7. WriteOK(p)' /\ DoneOK(p)'
    BY <1>1, <1>2, <2>1 DEF WriteOK, Writing, DoneOK, Done, Leaving
  <2>8. QED
    BY <2>3, <2>4, <2>6, <2>7 DEF Own
<1>6. CASE SealCopy(p)
  <2>1. pc[p] = "seal" /\ UNCHANGED durable
    BY <1>6 DEF SealCopy
  <2>2. CASE pc'[p] = "sync"
    <3>1. PICK copied \in Android : /\ store' = [store EXCEPT !["new"] = copied] /\ soft' = soft \cup {"new"}
                                    /\ job[p].cmd = "to-ubuntu" => copied = bootA
      BY <1>0, <1>6, <2>2 DEF SealCopy
    <3>2. soft' \subseteq {"new"}
      BY <1>0, <3>1
    <3>3. store' \in [Dirs -> Content]
      BY <1>0, <1>4, <3>1
    <3>4. store'["android"] = store["android"] /\ store'["ubuntu"] = store["ubuntu"] /\ store'["new"] = copied
      BY <1>0, <1>4, <3>1
    <3>5. DiskType'
      BY <1>0, <1>1, <1>4, <2>1, <3>2, <3>3 DEF DiskType
    <3>6. StaleOK'
      BY <1>2, <2>1, <3>4, NotStale DEF StaleOK, Stale
    <3>7. StageOK(p)'
      BY <1>0, <1>1, <2>2, <3>1, <3>4 DEF Usable, Of
    <3>8. WriteOK(p)' /\ DoneOK(p)'
      BY <1>1, <1>2, <2>2 DEF WriteOK, Writing, DoneOK, Done, Leaving
    <3>9. QED
      BY <3>2, <3>5, <3>6, <3>7, <3>8 DEF Own
  <2>3. CASE pc'[p] # "sync"
    <3>1. pc'[p] = "exit" /\ rc'[p] = 1 /\ UNCHANGED <<store, soft>>
      BY <1>0, <1>6, <2>3 DEF SealCopy
    <3>2. StageOK(p)' /\ WriteOK(p)' /\ DoneOK(p)'
      BY <1>1, <1>2, <3>1 DEF WriteOK, Writing, DoneOK, Done, Leaving
    <3>3. QED
      BY <1>0, <1>1, <1>2, <2>1, <3>1, <3>2, OwnQuiet
  <2>4. QED
    BY <2>2, <2>3
<1>7. CASE CommitSync(p)
  <2>1. pc[p] = "sync" /\ pc'[p] = "aside" /\ UNCHANGED store /\ Sync
    BY <1>0, <1>7 DEF CommitSync
  <2>2. StageOK(p)' /\ WriteOK(p)' /\ DoneOK(p)'
    BY <1>0, <1>1, <1>2, <2>1 DEF WriteOK, Writing, DoneOK, Done, Leaving, Sync, Usable, Of
  <2>3. QED
    BY <1>0, <1>1, <1>2, <2>1, <2>2, OwnQuiet
<1>8. CASE CommitAside(p)
  <2>1. pc[p] = "aside" /\ UNCHANGED <<durable, soft>> /\ soft = {}
    BY <1>0, <1>8 DEF CommitAside
  <2>2. CASE pc'[p] = "place"
    <3>1. store' = [store EXCEPT !["old"] = store["android"], !["android"] = Absent]
      BY <1>0, <1>8, <2>2 DEF CommitAside
    <3>2. DiskType' /\ store'["android"] = Absent /\ store'["ubuntu"] = store["ubuntu"] /\ store'["new"] = store["new"]
      BY <1>0, <1>1, <1>4, <2>1, <3>1 DEF DiskType
    <3>3. StaleOK'
      BY <1>4, <3>2 DEF StaleOK, Stale, Image
    <3>4. StageOK(p)' /\ WriteOK(p)' /\ DoneOK(p)'
      BY <1>0, <1>1, <1>2, <2>1, <2>2, <3>2 DEF WriteOK, Writing, DoneOK, Done, Leaving, Usable, Of
    <3>5. QED
      BY <2>1, <3>2, <3>3, <3>4 DEF Own
  <2>3. CASE pc'[p] # "place"
    <3>1. pc'[p] = "exit" /\ rc'[p] = 1 /\ store' = [store EXCEPT !["old"] = Absent]
      BY <1>0, <1>8, <2>3 DEF CommitAside
    <3>2. DiskType' /\ store'["android"] = store["android"]
      BY <1>0, <1>1, <1>4, <2>1, <3>1 DEF DiskType
    <3>3. StaleOK'
      BY <1>2, <2>1, <3>2, NotStale DEF StaleOK, Stale
    <3>4. StageOK(p)' /\ WriteOK(p)' /\ DoneOK(p)'
      BY <1>1, <1>2, <3>1 DEF WriteOK, Writing, DoneOK, Done, Leaving
    <3>5. QED
      BY <2>1, <3>2, <3>3, <3>4 DEF Own
  <2>4. QED
    BY <2>2, <2>3
<1>9. CASE CommitPlace(p)
  <2>1. pc[p] = "place" /\ UNCHANGED durable /\ soft = {}
    BY <1>0, <1>9 DEF CommitPlace
  <2>2. CASE pc'[p] = "flush"
    <3>1. store' = [store EXCEPT !["android"] = store["new"], !["new"] = Absent] /\ soft' = {}
      BY <1>0, <1>9, <2>1, <2>2 DEF CommitPlace
    <3>2. DiskType' /\ store'["android"] = store["new"] /\ store'["ubuntu"] = store["ubuntu"]
      BY <1>0, <1>1, <1>4, <2>1, <3>1 DEF DiskType
    <3>3. StaleOK'
      BY <1>1, <1>3, <2>2 DEF StaleOK
    <3>4. StageOK(p)' /\ WriteOK(p)' /\ DoneOK(p)'
      BY <1>0, <1>1, <1>2, <2>1, <2>2, <3>1, <3>2 DEF WriteOK, Writing, DoneOK, Done, Leaving, Usable, Of
    <3>5. QED
      BY <3>1, <3>2, <3>3, <3>4 DEF Own
  <2>3. CASE pc'[p] # "flush"
    <3>1. pc'[p] = "exit" /\ rc'[p] = 1 /\ UNCHANGED <<store, soft>>
      BY <1>0, <1>9, <2>3 DEF CommitPlace
    <3>2. StageOK(p)' /\ WriteOK(p)' /\ DoneOK(p)'
      BY <1>1, <1>2, <3>1 DEF WriteOK, Writing, DoneOK, Done, Leaving
    <3>3. QED
      BY <1>0, <1>1, <1>2, <2>1, <3>1, <3>2, OwnQuiet
  <2>4. QED
    BY <2>2, <2>3
<1>10. CASE CommitFlush(p)
  <2>1. pc[p] = "flush" /\ store' = [store EXCEPT !["old"] = Absent] /\ Sync
    BY <1>10 DEF CommitFlush
  <2>2. DiskType' /\ soft' = {} /\ store'["android"] = store["android"] /\ store'["ubuntu"] = store["ubuntu"]
        /\ durable' = store'
    BY <1>0, <1>1, <1>4, <2>1 DEF DiskType, Sync
  <2>3. StaleOK'
    BY <2>2 DEF StaleOK, Stale
  <2>4. CASE job[p].cmd = "to-ubuntu"
    <3>1. pc'[p] = "open"
      BY <1>0, <2>4, <1>10 DEF CommitFlush
    <3>2. WriteOK(p)'
      BY <1>0, <1>1, <1>2, <2>1, <2>2, <2>4, <3>1 DEF WriteOK, Writing, Leaving, Usable, Of, Target, Archived
    <3>3. StageOK(p)' /\ DoneOK(p)'
      BY <3>1 DEF DoneOK, Done, Leaving
    <3>4. QED
      BY <2>2, <2>3, <3>2, <3>3 DEF Own
  <2>5. CASE job[p].cmd # "to-ubuntu"
    <3>1. pc'[p] = "exit" /\ job'[p].cmd \in {"stash-android", "import-android"}
      BY <1>0, <1>1, <2>5, <1>10 DEF CommitFlush
    <3>2. StageOK(p)' /\ WriteOK(p)' /\ DoneOK(p)'
      BY <1>1, <1>2, <3>1 DEF WriteOK, Writing, DoneOK, Done, Leaving
    <3>3. QED
      BY <2>2, <2>3, <3>2 DEF Own
  <2>6. QED
    BY <2>4, <2>5
<1>11. QED
  BY <1>5, <1>6, <1>7, <1>8, <1>9, <1>10 DEF Stages

LEMMA OwnWrites ==
  ASSUME LockInv, StoreInv, NEW p \in Proc,
         OpenRW(p) \/ WriteBegin(p) \/ WriteEnd(p) \/ CloseRW(p) \/ ReadBack(p)
  PROVE  Own(p)'
<1> USE DEF Goto, Leave, Die, Writing
<1>0. /\ pc \in [Proc -> Labels] /\ rc \in [Proc -> {0, 1, 130}] /\ back \in [Proc -> BOOLEAN]
      /\ bootA \in Image /\ WriteOK(p)
  BY DEF StoreInv, ProcType, DiskType
<1>1. pc[p] \in Writing /\ UNCHANGED <<job, held, lock, store, durable, soft>>
  BY DEF OpenRW, WriteBegin, WriteEnd, CloseRW, ReadBack, disk
<1>2. Inside(p) /\ pc[p] # "flush"
  BY <1>1 DEF LockInv, Inside, Working
<1>3. /\ job[p].cmd \in {"to-ubuntu", "to-android"}
      /\ Usable(IF back[p] THEN WayBack(p) ELSE Target(p))
  BY <1>0, <1>1 DEF WriteOK
<1>4. Writes(p) \in Image
  BY <1>3, Distinct DEF Writes, Usable, Of
<1>5. StageOK(p)'
  <2>1. pc'[p] \notin Staging
    BY <1>0 DEF OpenRW, WriteBegin, WriteEnd, CloseRW, ReadBack, Staging
  <2>2. QED
    BY <2>1 DEF StageOK, Staging
<1>6. CASE OpenRW(p)
  <2>1. pc'[p] \in {"write", "exit"} /\ (pc'[p] = "exit" => rc'[p] = 1) /\ UNCHANGED <<bootA, back>>
        /\ pc[p] = "open"
    BY <1>0, <1>6 DEF OpenRW
  <2>2. WriteOK(p)' /\ DoneOK(p)'
    BY <1>0, <1>1, <1>3, <2>1 DEF WriteOK, DoneOK, Done, Leaving, Usable, Of, Target, WayBack, Archived
  <2>3. QED
    BY <1>0, <1>1, <1>2, <1>5, <2>1, <2>2, OwnQuiet
<1>7. CASE WriteBegin(p) \/ WriteEnd(p)
  <2>1. pc'[p] \in {"writing", "close"} /\ UNCHANGED back
    BY <1>0, <1>7 DEF WriteBegin, WriteEnd
  <2>2. bootA' \in Image
    BY <1>0, <1>4, <1>7, Distinct DEF WriteBegin, WriteEnd
  <2>3. WriteOK(p)' /\ DoneOK(p)'
    BY <1>1, <1>3, <2>1 DEF WriteOK, DoneOK, Done, Leaving, Usable, Of, Target, WayBack
  <2>4. QED
    BY <1>1, <1>2, <1>5, <2>2, <2>3, OwnQuiet
<1>8. CASE CloseRW(p)
  <2>1. pc'[p] \in {"verify", "exit"} /\ (pc'[p] = "exit" => rc'[p] = 1) /\ UNCHANGED <<bootA, back>>
    BY <1>0, <1>8 DEF CloseRW
  <2>2. WriteOK(p)' /\ DoneOK(p)'
    BY <1>0, <1>1, <1>3, <2>1 DEF WriteOK, DoneOK, Done, Leaving, Usable, Of, Target, WayBack
  <2>3. QED
    BY <1>0, <1>1, <1>2, <1>5, <2>1, <2>2, OwnQuiet
<1>9. CASE ReadBack(p)
  <2>1. UNCHANGED bootA
    BY <1>9 DEF ReadBack
  <2>2. CASE pc'[p] = "state"
    <3>1. Good(p) /\ ~back[p] /\ UNCHANGED back
      BY <1>0, <1>9, <2>2 DEF ReadBack
    <3>2. WriteOK(p)' /\ DoneOK(p)'
      BY <1>1, <1>3, <2>1, <2>2, <3>1 DEF WriteOK, DoneOK, Done, Leaving, Good, Writes, Usable, Of, Target
    <3>3. QED
      BY <1>0, <1>1, <1>2, <1>5, <2>1, <3>2, OwnQuiet
  <2>3. CASE pc'[p] = "open"
    <3>1. Usable(WayBack(p)) /\ back' = [back EXCEPT ![p] = TRUE]
      BY <1>0, <1>9, <2>3 DEF ReadBack
    <3>2. back'[p]
      BY <1>0, <3>1
    <3>3. WriteOK(p)' /\ DoneOK(p)'
      BY <1>1, <1>3, <2>1, <2>3, <3>1, <3>2 DEF WriteOK, DoneOK, Done, Leaving, Usable, Of, WayBack
    <3>4. QED
      BY <1>0, <1>1, <1>2, <1>5, <2>1, <3>3, OwnQuiet
  <2>4. CASE pc'[p] \notin {"state", "open"}
    <3>1. pc'[p] = "exit" /\ rc'[p] = 1
      BY <1>0, <1>9, <2>4 DEF ReadBack
    <3>2. WriteOK(p)' /\ DoneOK(p)'
      BY <3>1 DEF WriteOK, DoneOK, Done, Leaving
    <3>3. QED
      BY <1>0, <1>1, <1>2, <1>5, <2>1, <3>2, OwnQuiet
  <2>5. QED
    BY <2>2, <2>3, <2>4
<1>10. QED
  BY <1>6, <1>7, <1>8, <1>9

\* Before the subcommand, and after the write.
LEMMA OwnEnds ==
  ASSUME LockInv, StoreInv, NEW p \in Proc, Inside(p),
         SetUp(p) \/ WriteState(p) \/ DoReboot(p) \/ ExitCleanup(p) \/ Unlock(p)
  PROVE  Own(p)'
<1> USE DEF Goto, Leave, Die, disk
<1>0. /\ pc \in [Proc -> Labels] /\ rc \in [Proc -> {0, 1, 130}] /\ back \in [Proc -> BOOLEAN]
      /\ held \in [Proc -> BOOLEAN] /\ bootA \in Image /\ WriteOK(p) /\ DoneOK(p)
  BY DEF StoreInv, ProcType, DiskType
<1>1. UNCHANGED <<bootA, store>> /\ (UNCHANGED <<durable, soft>> \/ Sync)
  BY DEF SetUp, WriteState, DoReboot, ExitCleanup, Unlock
<1>2. pc[p] \in {"own", "state", "stateOnly", "reboot", "exit", "unlock"}
      /\ pc'[p] \in {"check", "reboot", "exit", "request", "unlock", "idle"}
  BY <1>0 DEF SetUp, WriteState, DoReboot, ExitCleanup, Unlock, Gone
<1>3. StageOK(p)'
  BY <1>2 DEF StageOK, Staging
<1>4. WriteOK(p)'
  <2>1. back'[p] => back[p] /\ ~Unlock(p)
    BY <1>0 DEF SetUp, WriteState, DoReboot, ExitCleanup, Unlock, Gone
  <2>2. back'[p] => pc[p] \in Leaving
    BY <1>0, <1>2, <2>1 DEF WriteOK, Writing
  <2>3. back'[p] => pc'[p] \in Leaving
    BY <1>0, <2>1, <2>2 DEF SetUp, WriteState, DoReboot, ExitCleanup, Leaving
  <2>4. QED
    BY <1>2, <2>3 DEF WriteOK, Writing
<1>5. DoneOK(p)'
  <2>1. CASE Done(p)' /\ ~Unlock(p)
    <3>1. Done(p) /\ job' = job
      BY <1>0, <2>1 DEF Done, SetUp, WriteState, DoReboot, ExitCleanup, Leaving
    <3>2. QED
      BY <1>0, <1>1, <3>1 DEF DoneOK, Usable, Of, Target
  <2>2. CASE Unlock(p)
    BY <2>2 DEF Unlock, Gone, DoneOK, Done, Leaving
  <2>3. QED
    BY <2>1, <2>2 DEF DoneOK
<1>6. QED
  BY <1>0, <1>1, <1>2, <1>3, <1>4, <1>5, OwnQuiet

LEMMA StoreStep ==
  ASSUME LockInv, StoreInv, NEW p \in Proc, Step(p)
  PROVE  StoreInv'
<1>1. TabletType' /\ ProcType'
  BY TabletStep, ProcStep
<1>2. Own(p)'
  <2>1. CASE ~Inside(p)
    BY <2>1, OwnOutside
  <2>2. CASE Inside(p)
    <3>1. ~TakeLock(p) /\ ~RequestReboot(p)
      BY <2>2 DEF TakeLock, RequestReboot, Inside, LockInv, Outside
    <3>2. \/ Reads(p) \/ Stages(p)
          \/ OpenRW(p) \/ WriteBegin(p) \/ WriteEnd(p) \/ CloseRW(p) \/ ReadBack(p)
          \/ SetUp(p) \/ WriteState(p) \/ DoReboot(p) \/ ExitCleanup(p) \/ Unlock(p)
      BY <3>1 DEF Step, Reads, Stages
    <3>3. QED
      BY <2>2, <3>2, OwnReads, OwnStages, OwnWrites, OwnEnds
  <2>3. QED
    BY <2>1, <2>2
<1>3. ASSUME NEW q \in Proc \ {p}
      PROVE  StageOK(q)' /\ WriteOK(q)' /\ DoneOK(q)'
  <2>1. pc'[q] = pc[q] /\ job'[q] = job[q] /\ held'[q] = held[q] /\ back'[q] = back[q] /\ rc'[q] = rc[q]
    BY ProcStep
  <2>2. Inside(q) => ~Inside(p)
    BY DEF LockInv, LockExclusive
  <2>3. Inside(q) => UNCHANGED <<bootA, store>> /\ (UNCHANGED <<durable, soft>> \/ Sync)
    BY <2>2, OutsideStep
  <2>4. QED
    BY <2>1, <2>3, ReadyKept
<1>4. QED
  BY <1>1, <1>2, <1>3 DEF StoreInv, Own

-----------------------------------------------------------------------------
(* The other steps *)

\* A process starts, is told to leave, or is killed.
LEMMA StoreStart ==
  ASSUME LockInv, StoreInv, NEW p \in Proc, Start(p) \/ Signal(p) \/ Kill(p)
  PROVE  StoreInv'
<1> USE DEF machine, disk
<1>1. TabletType' /\ ProcType'
  <2>1. TabletType'
    <3>1. UNCHANGED <<up, os, slot, ro, lock, halting, note, faults>> /\ (crashes' = crashes \/ Crash)
      BY DEF Start, Signal, Kill, Crash, budget
    <3>2. TabletType /\ crashes' \in 0..MaxCrashes
      BY <3>1, Counted DEF StoreInv, TabletType
    <3>3. excused' \in BOOLEAN
      BY <3>2 DEF Start, Signal, Kill, TabletType
    <3>4. QED
      BY <3>1, <3>2, <3>3 DEF TabletType
  <2>2. CASE Start(p)
    <3>1. PICK cmd \in Asks, opt \in Options, storeRO \in BOOLEAN, src \in ImportFiles \cup {Absent} :
            job' = [job EXCEPT ![p] = [cmd |-> cmd, opt |-> opt, storeRO |-> storeRO, src |-> src]]
      BY <2>2 DEF Start
    <3>2. [cmd |-> cmd, opt |-> opt, storeRO |-> storeRO, src |-> src] \in Jobs
      BY Distinct DEF Jobs
    <3>3. pc' = [pc EXCEPT ![p] = "mkdir"] /\ UNCHANGED <<held, live, saved, wrote, back, rc>>
      BY <2>2 DEF Start, Goto
    <3>4. ProcType'
      BY <3>1, <3>2, <3>3 DEF StoreInv, ProcType, Labels
    <3>5. QED
      BY <2>1, <3>4
  <2>3. CASE Signal(p)
    <3>1. ProcType'
      BY <2>3 DEF Signal, Leave, StoreInv, ProcType, Labels
    <3>2. QED
      BY <2>1, <3>1
  <2>4. CASE Kill(p)
    <3>1. Gone({p})
      BY <2>4 DEF Kill
    <3>2. QED
      BY <2>1, <3>1, GoneType
  <2>5. QED
    BY <2>2, <2>3, <2>4
<1>2. UNCHANGED <<bootA, store, durable, soft, lock, up>>
  BY DEF Start, Signal, Kill
<1>3. ASSUME NEW q \in Proc
      PROVE  /\ Inside(q)' => Inside(q) /\ (pc'[q] = pc[q] \/ pc'[q] = "exit")
             /\ StageOK(q)' /\ WriteOK(q)' /\ DoneOK(q)'
  <2>1. CASE q = p
    <3>1. \/ pc'[p] = "mkdir" /\ ~held'[p] /\ ~back'[p]
          \/ pc'[p] = "exit" /\ rc'[p] = 130 /\ ~back'[p] /\ held'[p] = held[p]
          \/ pc'[p] = "idle" /\ ~held'[p] /\ ~back'[p]
      <4>1. pc \in [Proc -> Labels] /\ rc \in [Proc -> {0, 1, 130}] /\ held \in [Proc -> BOOLEAN] /\ WriteOK(p)
        BY DEF StoreInv, ProcType
      <4>2. CASE Start(p)
        BY <4>1, <4>2 DEF Start, Goto, LockInv, Outside, WriteOK, Writing, Leaving
      <4>3. CASE Signal(p)
        BY <4>1, <4>3 DEF Signal, Leave
      <4>4. CASE Kill(p)
        BY <4>4 DEF Kill, Gone
      <4>5. QED
        BY <4>2, <4>3, <4>4
    <3>2. QED
      BY <2>1, <3>1 DEF Inside, StageOK, Staging, WriteOK, Writing, DoneOK, Done, Leaving
  <2>2. CASE q # p
    <3>1. pc'[q] = pc[q] /\ job'[q] = job[q] /\ held'[q] = held[q] /\ back'[q] = back[q] /\ rc'[q] = rc[q]
      BY <2>2 DEF Start, Signal, Kill, Goto, Leave, Gone, StoreInv, ProcType
    <3>2. QED
      BY <1>2, <3>1, ReadyKept DEF Inside
  <2>3. QED
    BY <2>1, <2>2
<1>4. StaleOK'
  <2>1. SUFFICES ASSUME Stale PROVE up /\ lock /\ \A q \in Proc : Inside(q)' => pc'[q] = "flush"
    BY <1>2 DEF StaleOK, Stale
  <2>2. up /\ lock /\ \A q \in Proc : Inside(q) => pc[q] = "flush"
    BY <2>1 DEF StoreInv, StaleOK
  <2>3. ~(Signal(p) /\ Inside(p))
    BY <2>2 DEF Signal, Critical
  <2>4. ASSUME NEW q \in Proc, Inside(q)' PROVE pc'[q] = pc[q]
    BY <1>3, <2>3, <2>4 DEF Start, Signal, Kill, Goto, Leave, Gone, Inside, StoreInv, ProcType
  <2>5. QED
    BY <1>3, <2>2, <2>4
<1>5. QED
  BY <1>1, <1>2, <1>3, <1>4 DEF StoreInv, DiskType

\* The tablet goes down: what is left is on the medium, and nothing runs.
LEMMA StoreDown ==
  ASSUME LockInv, StoreInv, Shutdown \/ PowerLoss
  PROVE  StoreInv'
<1>1. Gone(Proc) /\ up' = FALSE /\ Sync /\ UNCHANGED <<os, slot, bootA, ro, lock, halting, note, excused>>
  BY DEF Shutdown, PowerLoss
<1>2. TabletType'
  BY <1>1, Counted DEF Shutdown, PowerLoss, budget, StoreInv, TabletType
<1>3. ProcType'
  BY <1>1, GoneType
<1>4. store' \in [Dirs -> Content]
  <2>1. CASE store' = store \/ store' = durable
    BY <2>1 DEF StoreInv, DiskType
  <2>2. CASE \E lost \in SUBSET soft : store' = [d \in Dirs |-> IF d \in lost THEN Damaged ELSE store[d]]
    BY <2>2 DEF StoreInv, DiskType, Content
  <2>3. QED
    BY <2>1, <2>2 DEF Shutdown, PowerLoss
<1>5. DiskType' /\ soft' \subseteq {"new"} /\ StaleOK'
  BY <1>1, <1>4 DEF Sync, StoreInv, DiskType, StaleOK, Stale
<1>6. ASSUME NEW q \in Proc PROVE StageOK(q)' /\ WriteOK(q)' /\ DoneOK(q)'
  <2>1. pc'[q] = "idle" /\ ~back'[q]
    BY <1>1 DEF Gone
  <2>2. QED
    BY <2>1 DEF StageOK, Staging, WriteOK, Writing, DoneOK, Done, Leaving
<1>7. QED
  BY <1>2, <1>3, <1>5, <1>6 DEF StoreInv

\* The tablet starts, or another program or a host replaces boot_a: no switch
\* is under way.
LEMMA StoreReplaced ==
  ASSUME LockInv, StoreInv, BootUp \/ HostFlash \/ KsuPatch
  PROVE  StoreInv'
<1> USE DEF machine, disk, locals, budget
<1>1. \A q \in Proc : pc[q] = "idle" /\ ~held[q]
  BY DEF BootUp, HostFlash, KsuPatch, LockInv, Outside
<1>2. UNCHANGED <<store, durable, soft, note, pc, job, held, live, saved, wrote, back, rc, faults, crashes>>
  BY DEF BootUp, HostFlash, KsuPatch
<1>3. ProcType' /\ soft' \subseteq {"new"}
  BY <1>2 DEF StoreInv, ProcType
<1>4. TabletType'
  <2>1. CASE BootUp
    <3>1. os' \in {"ubuntu", "android"} /\ slot' \in {"a", "b"} /\ up' = TRUE /\ ro' = BootFlags(os')
          /\ lock' = FALSE /\ halting' = FALSE /\ excused' = FALSE
      BY <2>1 DEF BootUp
    <3>2. ro' \in Flags
      BY <3>1 DEF BootFlags, Flags
    <3>3. QED
      BY <1>2, <3>1, <3>2 DEF StoreInv, TabletType
  <2>2. CASE HostFlash \/ KsuPatch
    BY <1>2, <2>2 DEF HostFlash, KsuPatch, StoreInv, TabletType
  <2>3. QED
    BY <2>1, <2>2
<1>5. DiskType'
  BY <1>2, Distinct DEF BootUp, HostFlash, KsuPatch, StoreInv, DiskType
<1>6. StaleOK'
  BY <1>1, <1>2 DEF BootUp, HostFlash, KsuPatch, StoreInv, StaleOK, Stale, Inside
<1>7. ASSUME NEW q \in Proc PROVE StageOK(q)' /\ WriteOK(q)' /\ DoneOK(q)'
  <2>1. WriteOK(q)
    BY DEF StoreInv
  <2>2. pc'[q] = "idle" /\ ~back'[q]
    BY <1>1, <1>2, <2>1 DEF WriteOK, Writing, Leaving
  <2>3. QED
    BY <2>2 DEF StageOK, Staging, WriteOK, Writing, DoneOK, Done, Leaving
<1>8. QED
  BY <1>3, <1>4, <1>5, <1>6, <1>7 DEF StoreInv

-----------------------------------------------------------------------------
(* The theorems *)

LEMMA StoreInit == Init => StoreInv
<1> SUFFICES ASSUME Init PROVE StoreInv
  OBVIOUS
<1>1. TabletType
  <2>1. faults \in 0..MaxFaults /\ crashes \in 0..MaxCrashes
    BY BoundAssumption DEF Init
  <2>2. BootFlags("ubuntu") \in Flags
    BY DEF BootFlags, Flags
  <2>3. QED
    BY <2>1, <2>2 DEF Init, TabletType
<1>2. \E u \in (Ubuntu \cap Whole) \cup {Damaged}, a \in (Android \cap Whole) \cup {Absent, Damaged} :
        store = [d \in Dirs |-> CASE d = "ubuntu" -> u [] d = "android" -> a [] OTHER -> Absent]
  BY DEF Init
<1>3. store \in [Dirs -> Content]
  <2>1. PICK u \in (Ubuntu \cap Whole) \cup {Damaged}, a \in (Android \cap Whole) \cup {Absent, Damaged} :
          store = [d \in Dirs |-> CASE d = "ubuntu" -> u [] d = "android" -> a [] OTHER -> Absent]
    BY <1>2
  <2>2. u \in Content /\ a \in Content /\ Absent \in Content
    BY Distinct DEF Content
  <2>3. QED
    BY <2>1, <2>2, Zenon
<1>4. DiskType /\ soft \subseteq {"new"} /\ StaleOK
  BY <1>3, Distinct DEF Init, DiskType, StaleOK, Stale
<1>5. ProcType
  <2>1. NoJob \in Jobs \cup {NoJob} /\ Unsaved \in Armed /\ "idle" \in Labels
    BY DEF Unsaved, Armed, Labels
  <2>2. QED
    BY <2>1 DEF Init, ProcType
<1>6. ASSUME NEW p \in Proc PROVE StageOK(p) /\ WriteOK(p) /\ DoneOK(p)
  <2>1. pc[p] = "idle" /\ ~back[p]
    BY DEF Init
  <2>2. QED
    BY <2>1 DEF StageOK, Staging, WriteOK, Writing, DoneOK, Done, Leaving
<1>7. QED
  BY <1>1, <1>4, <1>5, <1>6 DEF StoreInv

LEMMA StoreNext ==
  ASSUME LockInv, StoreInv, [Next]_vars
  PROVE  StoreInv'
<1>1. ASSUME NEW p \in Proc, Start(p) \/ Signal(p) \/ Kill(p) PROVE StoreInv'
  BY <1>1, StoreStart
<1>2. ASSUME NEW p \in Proc, Step(p) PROVE StoreInv'
  BY <1>2, StoreStep
<1>3. CASE Shutdown \/ PowerLoss
  BY <1>3, StoreDown
<1>4. CASE BootUp \/ HostFlash \/ KsuPatch
  BY <1>4, StoreReplaced
<1>5. CASE UNCHANGED vars
  BY <1>5 DEF vars, StoreInv, TabletType, DiskType, ProcType, StaleOK, Stale, Inside, StageOK, WriteOK,
     DoneOK, Done, Usable, Of, Target, WayBack, Archived
<1>6. QED
  BY <1>1, <1>2, <1>3, <1>4, <1>5 DEF Next

\* Both invariants hold in every reachable state.
THEOREM ScriptInvariant == Spec => [](LockInv /\ StoreInv)
<1>1. Init => LockInv /\ StoreInv
  BY LockInit, StoreInit
<1>2. LockInv /\ StoreInv /\ [Next]_vars => (LockInv /\ StoreInv)'
  BY LockNext, StoreNext
<1>3. QED
  BY <1>1, <1>2, PTL DEF Spec

\* Every variable keeps its type.
THEOREM TypeCorrect == Spec => []TypeOK
  BY ScriptInvariant, StoreInvType, PTL

\* commit_set moves the archived set only when its replacement is on the medium.
THEOREM ReplacementIsReady == Spec => []ReplacementReady
<1>1. StoreInv => ReplacementReady
  BY DEF StoreInv, StageOK, ReplacementReady
<1>2. QED
  BY <1>1, ScriptInvariant, PTL

\* "store/android has to hold exactly what is in boot_a before boot_a is overwritten".
THEOREM ArchivedFirst == Spec => []ArchivedBeforeOverwrite
<1>1. StoreInv => ArchivedBeforeOverwrite
  BY DEF StoreInv, WriteOK, ArchivedBeforeOverwrite
<1>2. QED
  BY <1>1, ScriptInvariant, PTL

\* A switch that reports success has boot_a hold the set it was asked for.
THEOREM SuccessMeansWritten == Spec => []SuccessIsVerified
<1>1. StoreInv => SuccessIsVerified
  BY DEF StoreInv, DoneOK, Done, Leaving, SuccessIsVerified
<1>2. QED
  BY <1>1, ScriptInvariant, PTL


-----------------------------------------------------------------------------
(* The way back: WayBackVerified, as far as it holds. *)

\* What is known of boot_a and of the store when a switch is about to write.
WayOK(p) ==
  pc[p] = "open" /\ ~back[p] =>
     \/ job[p].cmd = "to-android" /\ Usable("ubuntu")
     \/ job[p].cmd = "to-ubuntu" /\ bootA \in Ubuntu \cup Android
WayInv == \A p \in Proc : WayOK(p)

\* The steps that lead to the first write, and to the write of the rollback.
LEMMA OpenedBy ==
  ASSUME LockInv, StoreInv, NEW p \in Proc, Step(p), pc'[p] = "open"
  PROVE  ToUbuntu(p) \/ ToAndroid(p) \/ CommitFlush(p) \/ ReadBack(p)
<1> USE DEF Goto, Leave, Die
<1>0. pc \in [Proc -> Labels]
  BY DEF LockInv
<1>1. ~(TakeLock(p) \/ SetUp(p))
  BY <1>0 DEF TakeLock, SetUp
<1>2. ~(Status(p) \/ Verify(p) \/ Stash(p) \/ Import(p))
  BY <1>0 DEF Status, Verify, Stash, Import, Proceed
<1>3. ~(StageCopy(p) \/ SealCopy(p) \/ CommitSync(p) \/ CommitAside(p) \/ CommitPlace(p))
  BY <1>0 DEF StageCopy, SealCopy, CommitSync, CommitAside, CommitPlace
<1>4. ~(OpenRW(p) \/ WriteBegin(p) \/ WriteEnd(p) \/ CloseRW(p))
  BY <1>0 DEF OpenRW, WriteBegin, WriteEnd, CloseRW
<1>5. ~(WriteState(p) \/ DoReboot(p) \/ RequestReboot(p) \/ ExitCleanup(p))
  BY <1>0 DEF WriteState, DoReboot, RequestReboot, ExitCleanup
<1>6. ~Unlock(p)
  BY DEF Unlock, Gone
<1>7. QED
  BY <1>1, <1>2, <1>3, <1>4, <1>5, <1>6 DEF Step

LEMMA WayOwn ==
  ASSUME LockInv, StoreInv, NEW p \in Proc, Step(p)
  PROVE  WayOK(p)'
<1> USE DEF Goto, Leave, Die
<1>0. pc \in [Proc -> Labels] /\ back \in [Proc -> BOOLEAN] /\ StageOK(p)
  BY DEF StoreInv, ProcType
<1>1. SUFFICES ASSUME pc'[p] = "open", ~back'[p]
               PROVE  \/ job'[p].cmd = "to-android" /\ Usable("ubuntu")'
                      \/ job'[p].cmd = "to-ubuntu" /\ bootA' \in Ubuntu \cup Android
  BY DEF WayOK
<1>2. CASE ToUbuntu(p)
  <2>1. job[p].cmd = "to-ubuntu" /\ UNCHANGED <<job, bootA>>
    BY <1>2, ReadsMove DEF ToUbuntu, At, Reads
  <2>2. bootA \in Ubuntu \/ LiveIs("android", bootA)
    BY <1>0, <1>1, <1>2 DEF ToUbuntu, Proceed
  <2>3. QED
    BY <2>1, <2>2 DEF LiveIs, Usable, Of
<1>3. CASE ToAndroid(p)
  <2>1. job[p].cmd = "to-android" /\ UNCHANGED <<job, store>>
    BY <1>3, ReadsMove DEF ToAndroid, At, Reads, disk
  <2>2. Usable("ubuntu")
    BY <1>0, <1>1, <1>3 DEF ToAndroid, Proceed
  <2>3. QED
    BY <2>1, <2>2 DEF Usable
<1>4. CASE CommitFlush(p)
  <2>1. pc[p] = "flush" /\ job[p].cmd = "to-ubuntu" /\ UNCHANGED <<job, bootA>>
    BY <1>0, <1>1, <1>4 DEF CommitFlush
  <2>2. QED
    BY <1>0, <2>1 DEF StageOK
<1>5. CASE ReadBack(p)
  BY <1>0, <1>1, <1>5 DEF ReadBack
<1>6. QED
  BY <1>1, <1>2, <1>3, <1>4, <1>5, OpenedBy

\* Between its opening and its read-back a switch has the store to itself: no
\* other process changes a set it may have to fall back on.
LEMMA StoreHeld ==
  ASSUME LockInv, StoreInv, [Next]_vars, NEW p \in Proc, pc[p] \in Writing, pc'[p] \in Writing
  PROVE  store' = store /\ job'[p] = job[p]
<1>0. ProcType /\ pc[p] # "idle" /\ pc'[p] # "idle" /\ Inside(p)
  BY DEF Writing, StoreInv, LockInv, Working, Inside
<1>1. ASSUME NEW q \in Proc, Start(q)
      PROVE  store' = store /\ job'[p] = job[p]
  BY <1>0, <1>1 DEF Start, disk, ProcType
<1>2. ASSUME NEW q \in Proc, Signal(q)
      PROVE  store' = store /\ job'[p] = job[p]
  BY <1>2 DEF Signal, disk
<1>3. ASSUME NEW q \in Proc, Kill(q)
      PROVE  store' = store /\ job'[p] = job[p]
  BY <1>0, <1>3 DEF Kill, Gone, disk
<1>4. ASSUME NEW q \in Proc, Step(q), q # p
      PROVE  store' = store /\ job'[p] = job[p]
  <2>1. ~Inside(q)
    BY <1>0, <1>4 DEF LockInv, LockExclusive
  <2>2. QED
    BY <1>4, <2>1, OutsideStep, ProcStep
<1>5. CASE Step(p)
  <2>1. OpenRW(p) \/ WriteBegin(p) \/ WriteEnd(p) \/ CloseRW(p) \/ ReadBack(p)
    BY <1>5, ReadsMove DEF Step, Reads, TakeLock, SetUp, StageCopy, SealCopy, CommitSync, CommitAside,
       CommitPlace, CommitFlush, WriteState, DoReboot, RequestReboot, ExitCleanup, Unlock, Writing
  <2>2. QED
    BY <2>1 DEF OpenRW, WriteBegin, WriteEnd, CloseRW, ReadBack, disk
<1>6. CASE Shutdown \/ PowerLoss
  BY <1>0, <1>6 DEF Shutdown, PowerLoss, Gone
<1>7. CASE BootUp \/ HostFlash \/ KsuPatch \/ UNCHANGED vars
  BY <1>7 DEF BootUp, HostFlash, KsuPatch, vars, disk, locals
<1>8. QED
  BY <1>1, <1>2, <1>3, <1>4, <1>5, <1>6, <1>7 DEF Next

LEMMA WayNext ==
  ASSUME LockInv, StoreInv, WayInv, [Next]_vars
  PROVE  WayInv'
<1>1. SUFFICES ASSUME NEW p \in Proc, pc'[p] = "open" PROVE WayOK(p)'
  BY DEF WayInv, WayOK
<1>0. ProcType /\ WayOK(p)
  BY DEF StoreInv, WayInv
<1>2. CASE Step(p)
  BY <1>2, WayOwn
<1>3. ASSUME NEW q \in Proc, Step(q), q # p
      PROVE  WayOK(p)'
  <2>1. pc[p] = "open" /\ job'[p] = job[p] /\ back'[p] = back[p]
    BY <1>1, <1>3, ProcStep
  <2>2. ~Inside(q)
    <3>1. Inside(p)
      BY <2>1 DEF LockInv, Working, Inside
    <3>2. QED
      BY <1>3, <3>1 DEF LockInv, LockExclusive
  <2>3. UNCHANGED <<bootA, store>>
    BY <1>3, <2>2, OutsideStep
  <2>4. QED
    BY <1>0, <2>1, <2>3 DEF WayOK, Usable
<1>4. ASSUME NEW q \in Proc, Start(q) \/ Signal(q) \/ Kill(q)
      PROVE  WayOK(p)'
  <2>1. UNCHANGED <<bootA, store>>
    BY <1>4 DEF Start, Signal, Kill, disk
  <2>2. q # p
    BY <1>0, <1>1, <1>4 DEF Start, Signal, Kill, Goto, Leave, Gone, ProcType
  <2>3. pc'[p] = pc[p] /\ job'[p] = job[p] /\ back'[p] = back[p]
    BY <1>0, <1>4, <2>2 DEF Start, Signal, Kill, Goto, Leave, Gone, ProcType
  <2>4. QED
    BY <1>0, <2>1, <2>3 DEF WayOK, Usable
<1>5. CASE Shutdown \/ PowerLoss
  BY <1>1, <1>5 DEF Shutdown, PowerLoss, Gone
<1>6. CASE BootUp \/ HostFlash \/ KsuPatch
  <2>1. pc' = pc /\ pc[p] = "idle"
    BY <1>6 DEF BootUp, HostFlash, KsuPatch, LockInv
  <2>2. QED
    BY <1>1, <2>1
<1>7. CASE UNCHANGED vars
  BY <1>0, <1>7 DEF vars, WayOK, Usable
<1>8. QED
  BY <1>2, <1>3, <1>4, <1>5, <1>6, <1>7 DEF Next

\* What "No switch starts without a verified way back" leaves out: boot_a holds
\* an Ubuntu image, not the one of the store, and another one replaces it.
OnlyUbuntuWithoutWayBack ==
  \A p \in Proc : pc[p] = "open" /\ ~Usable(WayBack(p)) =>
     job[p].cmd = "to-ubuntu" /\ ~back[p] /\ bootA \in Ubuntu

\* WayBackVerified, as far as it holds: with any number of processes, errors
\* and crashes, only a switch that replaces one Ubuntu image by another may
\* start without the set of the other system; every switch that is about to
\* overwrite an Android image, and every rollback, has one.
THEOREM WayBackUnlessUbuntu == Spec => []OnlyUbuntuWithoutWayBack
<1> DEFINE Inv == LockInv /\ StoreInv /\ WayInv
<1>1. Init => Inv
  BY LockInit, StoreInit DEF Init, WayInv, WayOK
<1>2. Inv /\ [Next]_vars => Inv'
  BY LockNext, StoreNext, WayNext
<1>3. Inv => OnlyUbuntuWithoutWayBack
  <2>1. SUFFICES ASSUME Inv, NEW p \in Proc, pc[p] = "open", ~Usable(WayBack(p))
                 PROVE  job[p].cmd = "to-ubuntu" /\ ~back[p] /\ bootA \in Ubuntu
    BY DEF OnlyUbuntuWithoutWayBack
  <2>2. WriteOK(p) /\ WayOK(p)
    BY <2>1 DEF StoreInv, WayInv
  <2>3. ~back[p]
    BY <2>1, <2>2 DEF WriteOK, Writing
  <2>4. job[p].cmd = "to-ubuntu" /\ bootA \in Ubuntu \cup Android
    BY <2>1, <2>2, <2>3 DEF WayOK, WayBack
  <2>5. bootA \notin Android
    BY <2>1, <2>2, <2>3, <2>4 DEF WriteOK, Archived, Usable, Of, WayBack
  <2>6. QED
    BY <2>3, <2>4, <2>5
<1> HIDE DEF Inv
<1>4. QED
  BY <1>1, <1>2, <1>3, PTL DEF Spec

\* A way back that is there when a switch opens boot_a is there until its
\* read-back is judged, and in the rollback after it.
WayBackKept ==
  [][\A p \in Proc : pc[p] \in Writing /\ pc'[p] \in Writing /\ Usable(WayBack(p))
                       => Usable(WayBack(p))']_vars

\* The lock is held from the unsealing to the read-back, so no other command
\* takes the set away that a rollback would write.
THEOREM WayBackStays == Spec => WayBackKept
<1>1. LockInv /\ StoreInv /\ [Next]_vars =>
        [\A p \in Proc : pc[p] \in Writing /\ pc'[p] \in Writing /\ Usable(WayBack(p))
                           => Usable(WayBack(p))']_vars
  <2>1. SUFFICES ASSUME LockInv, StoreInv, [Next]_vars,
                        NEW p \in Proc, pc[p] \in Writing, pc'[p] \in Writing, Usable(WayBack(p))
                 PROVE  Usable(WayBack(p))'
    OBVIOUS
  <2>2. store' = store /\ job'[p] = job[p]
    BY <2>1, StoreHeld
  <2>3. QED
    BY <2>1, <2>2 DEF Usable, WayBack
<1>2. QED
  BY <1>1, ScriptInvariant, PTL DEF Spec, WayBackKept

-----------------------------------------------------------------------------
(* What SwitchArrives rests on: an undisturbed switch to Ubuntu goes         *)
(* through, whatever the other processes do but ask for Android.             *)

\* The premise of SwitchArrives.
SwitchBegins(p) ==
  /\ At(p, "to-ubuntu") /\ job[p].opt = "reboot"
  /\ Usable("ubuntu") /\ LiveIs("android", bootA) /\ slot = "a" /\ NoReboot

\* With the lock: what each step needs in order to lead to the next one.
OnWay == {"check", "open", "write", "writing", "close", "verify", "state", "reboot"}
Switches(p) ==
  /\ up /\ NoReboot /\ pc[p] \in OnWay /\ Usable("ubuntu")
  /\ job[p].cmd = "to-ubuntu" /\ job[p].opt = "reboot" /\ ~back[p]
  /\ pc[p] = "check" => LiveIs("android", bootA) /\ slot = "a"
  /\ pc[p] = "write" => ~ro.part /\ ~ro.disk
  /\ pc[p] \in {"close", "verify"} => wrote[p]
  /\ pc[p] \in {"close", "verify", "state", "reboot"} => bootA = store["ubuntu"]

\* Without it, from do_reboot on: boot_a holds the set, and nobody is about to write.
NoWriter ==
  \A q \in Proc : pc[q] \notin Writing /\ (pc[q] \in Staging => job[q].cmd # "to-ubuntu")
Switched == up /\ Usable("ubuntu") /\ bootA = store["ubuntu"] /\ NoWriter

OnItsWay(p) ==
  \/ Switches(p)
  \/ Switched /\ (halting \/ pc[p] = "request")
  \/ ~up /\ bootA \in Ubuntu
Disturbed ==
  \/ faults < faults' \/ crashes < crashes'
  \/ \E q \in Proc : pc[q] # "idle" /\ job[q].cmd = "to-android"
Arrives(p) == OnItsWay(p)' \/ (up' /\ os' = "ubuntu") \/ Disturbed

LEMMA Counts ==
  ASSUME StoreInv
  PROVE  (Fault => Disturbed) /\ (Crash => Disturbed)
  BY BoundAssumption DEF StoreInv, TabletType, Fault, Crash, Disturbed

\* A process outside the lock takes nothing from one inside.
LEMMA OutsideLeaves ==
  ASSUME LockInv, SealInv, StoreInv, NEW q \in Proc, Step(q), ~Inside(q), pc[q] # "request", lock
  PROVE  /\ UNCHANGED <<up, slot, bootA, store, ro, halting>> /\ pc'[q] \in Leaving \cup {"idle"}
         /\ \A p \in Proc \ {q} : wrote'[p] = wrote[p]
<1>1. pc[q] \notin Working \cup {"own"} /\ ~held[q] /\ ~saved[q].armed
  BY DEF Inside, LockInv, SealInv
<1>2. TakeLock(q) \/ ExitCleanup(q) \/ Unlock(q)
  BY <1>1, ReadsMove DEF Step, Reads, SetUp, StageCopy, SealCopy, CommitSync, CommitAside, CommitPlace,
     CommitFlush, OpenRW, WriteBegin, WriteEnd, CloseRW, ReadBack, WriteState, DoReboot, RequestReboot, Working
<1>3. pc \in [Proc -> Labels] /\ wrote \in [Proc -> BOOLEAN]
  BY DEF LockInv, StoreInv, ProcType
<1>4. CASE TakeLock(q)
  BY <1>3, <1>4 DEF TakeLock, Die, Leave, Leaving, machine, disk
<1>5. CASE ExitCleanup(q)
  BY <1>1, <1>3, <1>5 DEF ExitCleanup, Leaving, machine, disk
<1>6. CASE Unlock(q)
  <2>1. UNCHANGED <<up, slot, bootA, store, ro, halting>> /\ Gone({q})
    BY <1>6 DEF Unlock, machine, disk
  <2>2. pc'[q] = "idle" /\ \A p \in Proc \ {q} : wrote'[p] = wrote[p]
    BY <1>3, <2>1 DEF Gone
  <2>3. QED
    BY <2>1, <2>2
<1>7. QED
  BY <1>2, <1>4, <1>5, <1>6

LEMMA OthersLeave ==
  ASSUME LockInv, SealInv, StoreInv, NEW p \in Proc, Switches(p), NEW q \in Proc \ {p}, Step(q)
  PROVE  Switches(p)'
<1>1. Inside(p) /\ lock /\ ~Inside(q) /\ pc[q] # "request"
  BY DEF Switches, NoReboot, OnWay, LockInv, LockExclusive, Inside, Working
<1>2. /\ UNCHANGED <<up, slot, bootA, store, ro, halting>> /\ pc'[q] \in Leaving \cup {"idle"}
      /\ wrote'[p] = wrote[p]
  BY <1>1, OutsideLeaves
<1>3. \A r \in Proc \ {q} : pc'[r] = pc[r] /\ job'[r] = job[r] /\ back'[r] = back[r]
  BY ProcStep
<1>4. NoReboot'
  BY <1>2, <1>3 DEF Switches, NoReboot, Leaving
<1>5. QED
  BY <1>2, <1>3, <1>4 DEF Switches, Usable, Of, LiveIs

\* The step of the switch itself.
LEMMA SwitchGoesOn ==
  ASSUME LockInv, SealInv, StoreInv, NEW p \in Proc, Switches(p), Step(p)
  PROVE  Arrives(p)
<1> USE DEF Goto, Leave, Die
<1>1. /\ pc[p] \in OnWay /\ up /\ NoReboot /\ Usable("ubuntu") /\ ~back[p]
      /\ job[p].cmd = "to-ubuntu" /\ job[p].opt = "reboot"
      /\ pc \in [Proc -> Labels] /\ wrote \in [Proc -> BOOLEAN] /\ back \in [Proc -> BOOLEAN]
  BY DEF Switches, LockInv, StoreInv, ProcType
<1>2. (Fault => Arrives(p)) /\ (Switches(p)' => Arrives(p))
  BY Counts DEF Arrives, OnItsWay
<1>3. \A q \in Proc \ {p} : pc'[q] = pc[q] /\ job'[q] = job[q]
  BY ProcStep
<1>4. ASSUME pc'[p] \in OnWay, halting' = halting PROVE NoReboot'
  BY <1>1, <1>3, <1>4 DEF NoReboot, OnWay
<1>5. CASE pc[p] = "check"
  <2>1. ToUbuntu(p)
    BY <1>1, <1>5 DEF Step, TakeLock, SetUp, Status, Verify, Stash, Import, ToAndroid, StageCopy, SealCopy,
       CommitSync, CommitAside, CommitPlace, CommitFlush, OpenRW, WriteBegin, WriteEnd, CloseRW, ReadBack,
       WriteState, DoReboot, RequestReboot, ExitCleanup, Unlock, At
  <2>2. LiveIs("android", bootA) /\ slot = "a" /\ bootA \in Android /\ bootA \notin Ubuntu
    BY <1>5, Distinct DEF Switches, LiveIs, Usable, Of
  <2>3. bootA \notin Other /\ ~LiveIs("ubuntu", bootA)
    BY <2>2, ImageAssumption DEF LiveIs, Usable, Of
  <2>4. Proceed(p, "open") /\ ReadsLive(p)
    BY <1>1, <2>1, <2>2, <2>3 DEF ToUbuntu
  <2>5. /\ pc' = [pc EXCEPT ![p] = "open"]
        /\ UNCHANGED <<up, bootA, store, halting, job, back>>
    BY <1>1, <2>4 DEF Proceed, ReadsLive, ReadsOnly, machine, disk
  <2>6. pc'[p] = "open"
    BY <1>1, <2>5
  <2>7. Switches(p)'
    BY <1>1, <1>4, <2>5, <2>6 DEF Switches, OnWay, Usable, Of
  <2>8. QED
    BY <1>2, <2>7
<1>6. CASE pc[p] \in {"open", "write", "writing"}
  <2>1. OpenRW(p) \/ WriteBegin(p) \/ WriteEnd(p)
    BY <1>6, ReadsMove DEF Step, Reads, TakeLock, SetUp, StageCopy, SealCopy, CommitSync, CommitAside, CommitPlace,
       CommitFlush, CloseRW, ReadBack, WriteState, DoReboot, RequestReboot, ExitCleanup, Unlock
  <2>2. UNCHANGED <<up, store, halting, job, back>>
    BY <2>1 DEF OpenRW, WriteBegin, WriteEnd, machine, disk
  <2>3. CASE OpenRW(p) /\ ro' = [part |-> FALSE, disk |-> FALSE] /\ pc' = [pc EXCEPT ![p] = "write"]
    <3>1. pc'[p] = "write" /\ ~ro'.part /\ ~ro'.disk
      BY <1>1, <2>3
    <3>2. Switches(p)'
      BY <1>1, <1>4, <2>2, <3>1 DEF Switches, OnWay, Usable, Of
    <3>3. QED
      BY <1>2, <3>2
  <2>4. CASE WriteBegin(p) /\ pc' = [pc EXCEPT ![p] = "writing"]
    <3>1. pc'[p] = "writing"
      BY <1>1, <2>4
    <3>2. Switches(p)'
      BY <1>1, <1>4, <2>2, <3>1 DEF Switches, OnWay, Usable, Of
    <3>3. QED
      BY <1>2, <3>2
  <2>5. CASE WriteEnd(p) /\ bootA' = Writes(p) /\ wrote' = [wrote EXCEPT ![p] = TRUE]
    <3>1. pc'[p] = "close" /\ wrote'[p]
      BY <1>1, <2>5 DEF WriteEnd
    <3>2. bootA' = store'["ubuntu"]
      BY <1>1, <2>2, <2>5 DEF Writes, Target
    <3>3. Switches(p)'
      BY <1>1, <1>4, <2>2, <3>1, <3>2 DEF Switches, OnWay, Usable, Of
    <3>4. QED
      BY <1>2, <3>3
  <2>6. CASE Fault
    BY <1>2, <2>6
  <2>7. ASSUME WriteBegin(p) PROVE Fault \/ pc' = [pc EXCEPT ![p] = "writing"]
    <3>1. pc[p] = "write" /\ ~ro.part /\ ~ro.disk
      BY <2>7 DEF WriteBegin, Switches
    <3>2. QED
      BY <2>7, <3>1 DEF WriteBegin, Fault
  <2>8. QED
    BY <2>1, <2>3, <2>4, <2>5, <2>6, <2>7 DEF OpenRW, WriteEnd
<1>7. CASE pc[p] \in {"close", "verify"}
  <2>1. CloseRW(p) \/ ReadBack(p)
    BY <1>7, ReadsMove DEF Step, Reads, TakeLock, SetUp, StageCopy, SealCopy, CommitSync, CommitAside, CommitPlace,
       CommitFlush, OpenRW, WriteBegin, WriteEnd, WriteState, DoReboot, RequestReboot, ExitCleanup, Unlock
  <2>2. wrote[p] /\ bootA = store["ubuntu"] /\ Good(p)
    BY <1>1, <1>7 DEF Switches, Good, Writes, Target
  <2>3. UNCHANGED <<up, bootA, store, halting, job>>
    BY <2>1 DEF CloseRW, ReadBack, machine, disk
  <2>4. CASE CloseRW(p) /\ pc' = [pc EXCEPT ![p] = "verify"]
    <3>1. pc'[p] = "verify" /\ wrote' = wrote /\ back' = back
      BY <1>1, <2>4 DEF CloseRW
    <3>2. Switches(p)'
      BY <1>1, <1>4, <2>2, <2>3, <3>1 DEF Switches, OnWay, Usable, Of
    <3>3. QED
      BY <1>2, <3>2
  <2>5. CASE ReadBack(p)
    <3>1. pc'[p] = "state" /\ back' = back
      BY <1>1, <2>2, <2>5 DEF ReadBack
    <3>2. Switches(p)'
      BY <1>1, <1>4, <2>2, <2>3, <3>1 DEF Switches, OnWay, Usable, Of
    <3>3. QED
      BY <1>2, <3>2
  <2>6. CASE CloseRW(p) /\ Fault
    BY <1>2, <2>6
  <2>7. QED
    BY <1>1, <2>1, <2>4, <2>5, <2>6 DEF CloseRW, PutBackFails
<1>8. CASE pc[p] = "state"
  <2>1. WriteState(p)
    BY <1>8, ReadsMove DEF Step, Reads, TakeLock, SetUp, StageCopy, SealCopy, CommitSync, CommitAside, CommitPlace,
       CommitFlush, OpenRW, WriteBegin, WriteEnd, CloseRW, ReadBack, DoReboot, RequestReboot, ExitCleanup, Unlock
  <2>2. pc'[p] = "reboot" /\ UNCHANGED <<up, bootA, store, halting, job, back>>
    BY <1>1, <1>8, <2>1 DEF WriteState, machine
  <2>3. bootA = store["ubuntu"]
    BY <1>8 DEF Switches
  <2>4. Switches(p)'
    BY <1>1, <1>4, <2>2, <2>3 DEF Switches, OnWay, Usable, Of
  <2>5. QED
    BY <1>2, <2>4
<1>9. CASE pc[p] = "reboot"
  <2>1. DoReboot(p)
    BY <1>9, ReadsMove DEF Step, Reads, TakeLock, SetUp, StageCopy, SealCopy, CommitSync, CommitAside, CommitPlace,
       CommitFlush, OpenRW, WriteBegin, WriteEnd, CloseRW, ReadBack, WriteState, RequestReboot, ExitCleanup, Unlock
  <2>2. pc'[p] = "request" /\ UNCHANGED <<up, bootA, store>>
    BY <1>1, <2>1 DEF DoReboot, Reboots, machine, disk
  <2>3. \A q \in Proc \ {p} : pc[q] \notin Working
    BY <1>9 DEF LockInv, LockExclusive, Inside, Working
  <2>4. NoWriter'
    BY <1>3, <2>2, <2>3 DEF NoWriter, Writing, Staging, Working
  <2>5. bootA = store["ubuntu"]
    BY <1>9 DEF Switches
  <2>6. Switched'
    BY <1>1, <2>2, <2>4, <2>5 DEF Switched, Usable, Of
  <2>7. QED
    BY <2>2, <2>6 DEF Arrives, OnItsWay
<1>10. QED
  BY <1>1, <1>5, <1>6, <1>7, <1>8, <1>9 DEF OnWay

\* Once it is written, nothing a process may do writes boot_a again before the reboot.
LEMMA SwitchedStays ==
  ASSUME LockInv, StoreInv, Switched, NEW q \in Proc, Step(q), job[q].cmd # "to-android"
  PROVE  Switched' /\ (halting => halting') /\ (pc[q] = "request" => halting' \/ Disturbed)
<1> USE DEF Goto, Leave, Die
<1>1. /\ up /\ Usable("ubuntu") /\ bootA = store["ubuntu"] /\ NoWriter /\ pc[q] \notin Writing
      /\ bootA \in Ubuntu /\ bootA \notin Android /\ bootA \notin Other /\ LiveIs("ubuntu", bootA)
  BY Distinct, ImageAssumption DEF Switched, NoWriter, Usable, Of, LiveIs
<1>2. pc \in [Proc -> Labels] /\ store \in [Dirs -> Content] /\ "ubuntu" \in Dirs
  BY DEF LockInv, StoreInv, DiskType, Dirs
<1>3. \A r \in Proc \ {q} : pc'[r] = pc[r] /\ job'[r] = job[r]
  BY ProcStep
<1>4. ASSUME UNCHANGED <<up, bootA>>, store'["ubuntu"] = store["ubuntu"], halting => halting',
             pc'[q] \notin Writing, pc'[q] \in Staging => job'[q].cmd # "to-ubuntu"
      PROVE  Switched' /\ (halting => halting')
  <2>1. NoWriter'
    BY <1>1, <1>3, <1>4 DEF NoWriter
  <2>2. QED
    BY <1>1, <1>4, <2>1 DEF Switched, Usable, Of
<1>5. ASSUME Reads(q) PROVE Switched' /\ (halting => halting')
  <2>1. UNCHANGED <<up, bootA, store, halting, job>> /\ pc[q] = "check"
    BY <1>5, ReadsMove DEF machine, disk
  <2>2. pc'[q] \in {"exit", "stateOnly"} \/ (pc'[q] = "stage" /\ job[q].cmd # "to-ubuntu")
    <3>1. CASE ToUbuntu(q)
      <4>1. ~LiveIs("android", bootA)
        BY <1>1 DEF LiveIs, Usable, Of
      <4>2. pc' = [pc EXCEPT ![q] = "exit"] \/ pc' = [pc EXCEPT ![q] = "stateOnly"]
        BY <1>1, <3>1, <4>1 DEF ToUbuntu
      <4>3. QED
        BY <1>2, <4>2
    <3>2. CASE Status(q) \/ Verify(q) \/ Stash(q)
      <4>1. ~LiveIs("android", bootA)
        BY <1>1 DEF LiveIs, Usable, Of
      <4>2. pc' = [pc EXCEPT ![q] = "exit"]
        BY <1>1, <3>2, <4>1 DEF Status, Verify, Stash
      <4>3. QED
        BY <1>2, <4>2
    <3>3. CASE Import(q)
      <4>1. job[q].cmd # "to-ubuntu"
        BY <3>3 DEF Import, At
      <4>2. pc' = [pc EXCEPT ![q] = "exit"] \/ pc' = [pc EXCEPT ![q] = "stage"]
        BY <3>3 DEF Import, Proceed
      <4>3. QED
        BY <1>2, <4>1, <4>2
    <3>4. QED
      BY <1>5, <3>1, <3>2, <3>3 DEF Reads, ToAndroid, At
  <2>3. QED
    BY <1>4, <2>1, <2>2 DEF Writing, Staging
<1>6. ASSUME Stages(q) PROVE Switched' /\ (halting => halting')
  <2>1. /\ pc[q] \in Staging /\ UNCHANGED <<up, bootA, halting, job>>
        /\ pc'[q] \in Staging \cup {"exit", "open"}
    BY <1>2, <1>6 DEF Stages, StageCopy, SealCopy, CommitSync, CommitAside, CommitPlace, CommitFlush, Staging, machine
  <2>2. job[q].cmd # "to-ubuntu"
    BY <1>1, <2>1 DEF NoWriter
  <2>3. pc'[q] # "open"
    BY <1>2, <1>6, <2>2 DEF Stages, StageCopy, SealCopy, CommitSync, CommitAside, CommitPlace, CommitFlush
  <2>4. store'["ubuntu"] = store["ubuntu"]
    BY <1>2, <1>6 DEF Stages, StageCopy, SealCopy, CommitSync, CommitAside, CommitPlace, CommitFlush
  <2>5. QED
    BY <1>4, <2>1, <2>2, <2>3, <2>4 DEF Writing, Staging
<1>7. ASSUME \/ TakeLock(q) \/ SetUp(q) \/ WriteState(q) \/ DoReboot(q) \/ RequestReboot(q)
             \/ ExitCleanup(q)
      PROVE  Switched' /\ (halting => halting')
  <2>1. /\ UNCHANGED <<up, bootA, store>> /\ (halting => halting')
        /\ pc'[q] \in {"own", "check", "exit", "reboot", "request", "unlock"}
    BY <1>2, <1>7 DEF TakeLock, SetUp, WriteState, DoReboot, RequestReboot, ExitCleanup, machine, disk
  <2>2. QED
    BY <1>4, <2>1 DEF Writing, Staging
<1>8. ASSUME Unlock(q) PROVE Switched' /\ (halting => halting')
  <2>1. UNCHANGED <<up, bootA, store, halting>> /\ Gone({q})
    BY <1>8 DEF Unlock, machine, disk
  <2>2. pc'[q] = "idle"
    BY <2>1 DEF Gone
  <2>3. QED
    BY <1>4, <2>1, <2>2 DEF Writing, Staging
<1>9. Switched' /\ (halting => halting')
  BY <1>1, <1>5, <1>6, <1>7, <1>8 DEF Step, Reads, Stages, OpenRW, WriteBegin, WriteEnd, CloseRW, ReadBack, Writing
<1>10. pc[q] = "request" => halting' \/ Disturbed
  <2>1. ASSUME pc[q] = "request" PROVE halting' = TRUE \/ Fault
    BY <2>1, ReadsMove DEF Step, Reads, TakeLock, SetUp, StageCopy, SealCopy, CommitSync, CommitAside, CommitPlace,
       CommitFlush, OpenRW, WriteBegin, WriteEnd, CloseRW, ReadBack, WriteState, DoReboot, RequestReboot,
       ExitCleanup, Unlock
  <2>2. QED
    BY <2>1, Counts
<1>11. QED
  BY <1>9, <1>10

\* A new command finds the lock taken, or boot_a as it is wanted.
LEMMA StartArrives ==
  ASSUME LockInv, StoreInv, NEW p \in Proc, OnItsWay(p), NEW q \in Proc, Start(q)
  PROVE  OnItsWay(p)'
<1>1. /\ UNCHANGED <<up, slot, bootA, ro, store, halting, wrote, back>> /\ pc[q] = "idle"
      /\ pc' = [pc EXCEPT ![q] = "mkdir"] /\ \E new : job' = [job EXCEPT ![q] = new]
  BY DEF Start, Goto, machine, disk
<1>2. pc \in [Proc -> Labels] /\ job \in [Proc -> Jobs \cup {NoJob}]
  BY DEF StoreInv, ProcType
<1>3. pc'[q] = "mkdir" /\ \A r \in Proc \ {q} : pc'[r] = pc[r] /\ job'[r] = job[r]
  BY <1>1, <1>2
<1>4. CASE Switches(p)
  <2>1. p # q
    BY <1>1, <1>4 DEF Switches, OnWay
  <2>2. NoReboot'
    BY <1>1, <1>3, <1>4 DEF Switches, NoReboot
  <2>3. Switches(p)'
    BY <1>1, <1>3, <1>4, <2>1, <2>2 DEF Switches, Usable, Of, LiveIs
  <2>4. QED
    BY <2>3 DEF OnItsWay
<1>5. CASE Switched /\ (halting \/ pc[p] = "request")
  <2>1. NoWriter'
    BY <1>3, <1>5 DEF Switched, NoWriter, Writing, Staging
  <2>2. Switched'
    BY <1>1, <1>5, <2>1 DEF Switched, Usable, Of
  <2>3. halting' \/ pc'[p] = "request"
    BY <1>1, <1>3, <1>5
  <2>4. QED
    BY <2>2, <2>3 DEF OnItsWay
<1>6. CASE ~up /\ bootA \in Ubuntu
  BY <1>1, <1>6 DEF OnItsWay
<1>7. QED
  BY <1>4, <1>5, <1>6 DEF OnItsWay

LEMMA StepArrives ==
  ASSUME LockInv, SealInv, StoreInv, NEW p \in Proc, OnItsWay(p), NEW q \in Proc, Step(q)
  PROVE  Arrives(p)
<1>1. pc[q] # "idle" /\ up
  <2>1. pc[q] # "idle"
    BY ReadsMove DEF Step, Reads, TakeLock, SetUp, StageCopy, SealCopy, CommitSync, CommitAside, CommitPlace,
       CommitFlush, OpenRW, WriteBegin, WriteEnd, CloseRW, ReadBack, WriteState, DoReboot, RequestReboot,
       ExitCleanup, Unlock
  <2>2. QED
    BY <2>1 DEF LockInv
<1>2. CASE job[q].cmd = "to-android"
  BY <1>1, <1>2 DEF Arrives, Disturbed
<1>3. CASE Switches(p)
  <2>1. CASE q = p
    BY <1>3, <2>1, SwitchGoesOn
  <2>2. CASE q # p
    BY <1>3, <2>2, OthersLeave DEF Arrives, OnItsWay
  <2>3. QED
    BY <2>1, <2>2
<1>4. CASE Switched /\ (halting \/ pc[p] = "request") /\ job[q].cmd # "to-android"
  <2>1. Switched' /\ (halting => halting') /\ (pc[q] = "request" => halting' \/ Disturbed)
    BY <1>4, SwitchedStays
  <2>2. q # p => pc'[p] = pc[p]
    BY ProcStep
  <2>3. QED
    BY <1>4, <2>1, <2>2 DEF Arrives, OnItsWay
<1>5. QED
  BY <1>1, <1>2, <1>3, <1>4 DEF OnItsWay

LEMMA TabletArrives ==
  ASSUME LockInv, StoreInv, NEW p \in Proc, OnItsWay(p), Shutdown \/ BootUp \/ HostFlash \/ KsuPatch
  PROVE  Arrives(p)
<1>1. CASE Shutdown
  <2>1. up /\ up' = FALSE /\ bootA' = bootA /\ (halting \/ \A r \in Proc : pc[r] = "idle")
    BY <1>1 DEF Shutdown
  <2>2. ~Switches(p)
    BY <2>1 DEF Switches, NoReboot, OnWay
  <2>3. bootA \in Ubuntu
    BY <2>1, <2>2 DEF OnItsWay, Switched, Usable, Of
  <2>4. QED
    BY <2>1, <2>3 DEF Arrives, OnItsWay
<1>2. CASE BootUp
  <2>1. bootA \in Ubuntu /\ bootA \notin Android
    BY <1>2, Distinct DEF BootUp, OnItsWay, Switches, Switched
  <2>2. up' /\ os' = "ubuntu"
    BY <1>2, <2>1 DEF BootUp
  <2>3. QED
    BY <2>2 DEF Arrives
<1>3. CASE HostFlash
  BY <1>3 DEF HostFlash, machine, Arrives, OnItsWay
<1>4. CASE KsuPatch
  <2>1. up /\ bootA \in Android /\ \A r \in Proc : pc[r] = "idle"
    BY <1>4 DEF KsuPatch
  <2>2. QED
    BY <2>1, Distinct DEF OnItsWay, Switches, OnWay, Switched, Usable, Of
<1>5. QED
  BY <1>1, <1>2, <1>3, <1>4

\* A switch to Ubuntu that finds its sets in order and no reboot on its way is
\* disturbed by nothing but an error, a signal, a crash or a to-android beside
\* it: each step of any process, of the user and of the bootloader leaves it on
\* its way (archived, verified, then rebooting with the lock already released)
\* or ends with Ubuntu running.  It never meets a check of its own that refuses
\* what an earlier step of it made.
SwitchStaysOnItsWay ==
  [][\A p \in Proc : OnItsWay(p) => Arrives(p)]_vars
THEOREM SwitchGoesThrough ==
  Spec => [](\A p \in Proc : SwitchBegins(p) => OnItsWay(p)) /\ SwitchStaysOnItsWay
<1> DEFINE Inv == LockInv /\ SealInv /\ StoreInv
<1>1. Init => Inv
  BY LockInit, SealInit, StoreInit
<1>2. Inv /\ [Next]_vars => Inv'
  BY LockNext, SealNext, StoreNext
<1>3. Inv => \A p \in Proc : SwitchBegins(p) => OnItsWay(p)
  <2> SUFFICES ASSUME Inv, NEW p \in Proc, SwitchBegins(p) PROVE Switches(p)
    BY DEF OnItsWay
  <2>1. pc[p] = "check" /\ up
    BY DEF SwitchBegins, At, LockInv
  <2>2. ~back[p]
    BY <2>1 DEF StoreInv, WriteOK, Writing, Leaving
  <2>3. QED
    BY <2>1, <2>2 DEF SwitchBegins, At, Switches, OnWay
<1>4. Inv /\ [Next]_vars => [\A p \in Proc : OnItsWay(p) => Arrives(p)]_vars
  <2> SUFFICES ASSUME Inv, Next, NEW p \in Proc, OnItsWay(p) PROVE Arrives(p)
    OBVIOUS
  <2>1. ASSUME NEW q \in Proc, Start(q) PROVE Arrives(p)
    BY <2>1, StartArrives DEF Arrives
  <2>2. ASSUME NEW q \in Proc, Step(q) PROVE Arrives(p)
    BY <2>2, StepArrives
  <2>3. ASSUME (\E q \in Proc : Signal(q) \/ Kill(q)) \/ PowerLoss PROVE Arrives(p)
    <3>1. Crash
      BY <2>3 DEF Signal, Kill, PowerLoss
    <3>2. QED
      BY <3>1, Counts DEF Arrives
  <2>4. ASSUME Shutdown \/ BootUp \/ HostFlash \/ KsuPatch PROVE Arrives(p)
    BY <2>4, TabletArrives
  <2>5. QED
    BY <2>1, <2>2, <2>3, <2>4 DEF Next
<1>5. QED
  BY <1>1, <1>2, <1>3, <1>4, PTL DEF Spec, SwitchStaysOnItsWay

=============================================================================
