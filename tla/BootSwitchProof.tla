-------------------------- MODULE BootSwitchProof ---------------------------
(***************************************************************************)
(* Theorems about BootSwitch, for any number of processes, any images and  *)
(* any number of errors and crashes.                                       *)
(***************************************************************************)
EXTENDS BootSwitch, TLAPS

-----------------------------------------------------------------------------
(* The lock *)

Outside == {"idle", "mkdir", "own", "request"}
Working == {"check", "stage", "seal", "sync", "aside", "place", "flush", "open", "write",
            "writing", "close", "verify", "state", "stateOnly", "reboot"}

\* LockExclusive with what makes it inductive: where LOCKED is set, and that
\* nothing runs while the tablet is off (the lock directory goes at boot).
LockInv ==
  /\ pc \in [Proc -> Labels] /\ held \in [Proc -> BOOLEAN] /\ lock \in BOOLEAN /\ up \in BOOLEAN
  /\ \A p \in Proc : pc[p] \in Outside => ~held[p]
  /\ \A p \in Proc : pc[p] \in Working => held[p]
  /\ LockExclusive
  /\ ~up => \A p \in Proc : pc[p] = "idle"

LEMMA LabelsSplit == Labels = Outside \cup Working \cup Leaving
  BY DEF Labels, Outside, Working, Leaving

\* The tablet running, p moves past the lock or leaves, and nobody's lock changes.
LEMMA PlainMove ==
  ASSUME LockInv, NEW p \in Proc, NEW l \in Working \cup Leaving, pc[p] \in Working \cup Leaving,
         pc' = [pc EXCEPT ![p] = l], l \in Working => pc[p] \in Working,
         UNCHANGED <<held, lock, up>>
  PROVE  LockInv'
  BY LabelsSplit DEF LockInv, LockExclusive, Inside, Outside, Working, Leaving

\* A process on its way to the lock, or past do_reboot, leaves.
LEMMA LeaveMove ==
  ASSUME LockInv, NEW p \in Proc, pc[p] # "idle", pc' = [pc EXCEPT ![p] = "exit"],
         UNCHANGED <<held, lock, up>>
  PROVE  LockInv'
  BY LabelsSplit DEF LockInv, LockExclusive, Inside, Outside, Working, Leaving

\* Processes that are gone hold nothing.
LEMMA GoneMove ==
  ASSUME LockInv, NEW S \in SUBSET Proc, Gone(S), UNCHANGED lock, up' \in BOOLEAN,
         ~up' => ~up \/ S = Proc
  PROVE  LockInv'
  BY DEF LockInv, LockExclusive, Inside, Gone, Outside, Working, Labels

LEMMA LockStep ==
  ASSUME LockInv, NEW p \in Proc, Step(p)
  PROVE  LockInv'
<1> USE DEF Goto, Leave, Die
<1> pc[p] \in Labels
  BY DEF LockInv
<1>1. CASE TakeLock(p)
  <2>1. pc[p] = "mkdir" /\ held' = held /\ up' = up
    BY <1>1 DEF TakeLock, machine
  <2>2. CASE Die(p) /\ lock' = lock
    BY <2>1, <2>2, LeaveMove
  <2>3. CASE ~lock /\ lock' = TRUE /\ Goto(p, "own")
    <3>1. up /\ \A q \in Proc : ~held[q] /\ pc[q] # "own"
      BY <2>1, <2>3 DEF LockInv, LockExclusive, Inside
    <3>2. QED
      BY <2>1, <2>3, <3>1 DEF LockInv, LockExclusive, Inside, Outside, Working, Labels
  <2>4. QED
    BY <1>1, <2>2, <2>3 DEF TakeLock
<1>2. CASE SetUp(p)
  BY <1>2 DEF SetUp, machine, LockInv, LockExclusive, Inside, Outside, Working, Labels
<1>3. CASE Status(p) \/ Verify(p) \/ Stash(p) \/ Import(p) \/ ToUbuntu(p) \/ ToAndroid(p)
  <2>1. pc[p] = "check" /\ UNCHANGED <<held, lock, up>>
    BY <1>3 DEF Status, Verify, Stash, Import, ToUbuntu, ToAndroid, ReadsLive, ReadsOnly, At, machine
  <2>2. \E l \in {"stage", "open", "stateOnly", "exit"} : pc' = [pc EXCEPT ![p] = l]
    BY <1>3 DEF Status, Verify, Stash, Import, ToUbuntu, ToAndroid, Proceed
  <2>3. QED
    BY <2>1, <2>2, PlainMove DEF Working, Leaving
<1>4. CASE StageCopy(p) \/ SealCopy(p) \/ CommitSync(p) \/ CommitAside(p) \/ CommitPlace(p) \/ CommitFlush(p)
  <2>1. pc[p] \in Working /\ UNCHANGED <<held, lock, up>>
    BY <1>4 DEF StageCopy, SealCopy, CommitSync, CommitAside, CommitPlace, CommitFlush, machine, Working
  <2>2. \E l \in Working \cup Leaving : pc' = [pc EXCEPT ![p] = l]
    BY <1>4 DEF StageCopy, SealCopy, CommitSync, CommitAside, CommitPlace, CommitFlush, Working, Leaving
  <2>3. QED
    BY <2>1, <2>2, PlainMove
<1>5. CASE OpenRW(p) \/ WriteBegin(p) \/ WriteEnd(p) \/ CloseRW(p) \/ ReadBack(p) \/ WriteState(p)
  <2>1. pc[p] \in Working /\ UNCHANGED <<held, lock, up>>
    BY <1>5 DEF OpenRW, WriteBegin, WriteEnd, CloseRW, ReadBack, WriteState, machine, Working
  <2>2. \E l \in Working \cup Leaving : pc' = [pc EXCEPT ![p] = l]
    BY <1>5 DEF OpenRW, WriteBegin, WriteEnd, CloseRW, ReadBack, WriteState, Working, Leaving
  <2>3. QED
    BY <2>1, <2>2, PlainMove
<1>6. CASE DoReboot(p)
  <2>1. pc[p] = "reboot" /\ up' = up
    BY <1>6 DEF DoReboot, machine
  <2>2. CASE Leave(p, 0) /\ UNCHANGED <<lock, held>>
    BY <2>1, <2>2, LeaveMove
  <2>3. CASE RmdirLock(p) /\ held' = [held EXCEPT ![p] = FALSE] /\ Goto(p, "request")
    <3>1. /\ held[p] /\ up
          /\ \A q \in Proc : q # p => ~held[q] /\ pc[q] # "own"
      BY <2>1 DEF LockInv, LockExclusive, Inside, Working
    <3>2. lock' = FALSE
      BY <2>3, <3>1 DEF RmdirLock
    <3>3. pc' \in [Proc -> Labels] /\ held' \in [Proc -> BOOLEAN] /\ lock' \in BOOLEAN /\ up'
      <4>1. pc \in [Proc -> Labels] /\ held \in [Proc -> BOOLEAN] /\ "request" \in Labels
        BY DEF LockInv, Labels
      <4>2. pc' \in [Proc -> Labels]
        BY <2>3, <4>1
      <4>3. held' \in [Proc -> BOOLEAN]
        BY <2>3, <4>1
      <4>4. lock' \in BOOLEAN /\ up'
        BY <2>1, <3>1, <3>2
      <4>5. QED
        BY <4>2, <4>3, <4>4
    <3>4. \A q \in Proc : ~held'[q] /\ pc'[q] # "own" /\ pc'[q] \notin Working
      BY <2>3, <3>1 DEF LockInv, Working
    <3>5. QED
      BY <3>3, <3>4 DEF LockInv, LockExclusive, Inside
  <2>4. QED
    BY <1>6, <2>2, <2>3 DEF DoReboot
<1>7. CASE RequestReboot(p)
  BY <1>7, LeaveMove DEF RequestReboot, machine
<1>8. CASE ExitCleanup(p)
  BY <1>8, PlainMove DEF ExitCleanup, machine, Working, Leaving
<1>9. CASE Unlock(p)
  BY <1>9 DEF Unlock, RmdirLock, Gone, machine, LockInv, LockExclusive, Inside, Outside, Working, Labels
<1>10. QED
  BY <1>1, <1>2, <1>3, <1>4, <1>5, <1>6, <1>7, <1>8, <1>9 DEF Step

LEMMA LockNext ==
  ASSUME LockInv, [Next]_vars
  PROVE  LockInv'
<1>1. ASSUME NEW p \in Proc, Start(p) PROVE LockInv'
  BY <1>1 DEF Start, Goto, machine, LockInv, LockExclusive, Inside, Outside, Working, Labels
<1>2. ASSUME NEW p \in Proc, Step(p) PROVE LockInv'
  BY <1>2, LockStep
<1>3. ASSUME NEW p \in Proc, Signal(p) PROVE LockInv'
  BY <1>3, LeaveMove DEF Signal, Leave, machine
<1>4. ASSUME NEW p \in Proc, Kill(p) PROVE LockInv'
  <2>1. Gone({p}) /\ UNCHANGED <<lock, up>> /\ up' \in BOOLEAN
    BY <1>4 DEF Kill, machine, LockInv
  <2>2. QED
    BY <2>1, GoneMove
<1>5. CASE Shutdown \/ PowerLoss
  <2>1. Gone(Proc) /\ UNCHANGED lock /\ up' = FALSE
    BY <1>5 DEF Shutdown, PowerLoss
  <2>2. QED
    BY <2>1, GoneMove
<1>6. CASE BootUp
  BY <1>6 DEF BootUp, locals, LockInv, LockExclusive, Inside, Outside, Working
<1>7. CASE HostFlash \/ KsuPatch \/ UNCHANGED vars
  BY <1>7 DEF HostFlash, KsuPatch, vars, machine, locals, LockInv, LockExclusive, Inside
<1>8. QED
  BY <1>1, <1>2, <1>3, <1>4, <1>5, <1>6, <1>7 DEF Next

LEMMA LockInit == Init => LockInv
  BY DEF Init, LockInv, LockExclusive, Inside, Outside, Working, Labels

\* "One switch at a time", however many are started and however they end.
THEOREM OneSwitchAtATime == Spec => []LockExclusive
<1>1. Init => LockInv
  BY LockInit
<1>2. LockInv /\ [Next]_vars => LockInv'
  BY LockNext
<1>3. LockInv => LockExclusive
  BY DEF LockInv
<1>4. QED
  BY <1>1, <1>2, <1>3, PTL DEF Spec

-----------------------------------------------------------------------------
(* The read-only flags of boot_a and of its disk: what open_rw recorded,   *)
(* what close_rw and the exit trap put back.                               *)

Opened == {"write", "writing", "close", "exit"}  \* where RW_ARMED may be set

\* Only the switch that holds the lock is armed.  What it recorded covers the
\* flags that are still set, and is what the tablet booted with; when nobody
\* is armed the flags themselves are.
SealInv ==
  /\ os \in {"ubuntu", "android"} /\ ro \in Flags /\ excused \in BOOLEAN
  /\ saved \in [Proc -> [armed: BOOLEAN, part: BOOLEAN, disk: BOOLEAN]]
  /\ \A p \in Proc : ~saved[p].armed => saved[p] = Unsaved
  /\ \A p \in Proc : saved[p].armed =>
       /\ held[p] /\ pc[p] \in Opened
       /\ (ro.part => saved[p].part) /\ (ro.disk => saved[p].disk)
       /\ up /\ ~excused => saved[p].part = BootFlags(os).part /\ saved[p].disk = BootFlags(os).disk
  /\ up /\ ~excused /\ (\A p \in Proc : ~saved[p].armed) => ro = BootFlags(os)

\* p moves on, the flags and what was recorded of them stay.
LEMMA SealFrame ==
  ASSUME SealInv, NEW p \in Proc, UNCHANGED <<up, os, ro, saved, excused>>,
         \A q \in Proc \ {p} : pc'[q] = pc[q] /\ held'[q] = held[q],
         saved[p].armed => held'[p] /\ pc'[p] \in Opened
  PROVE  SealInv'
  BY DEF SealInv, BootFlags

\* close_rw: p is armed no longer, and the flags are as they were recorded.
LEMMA SealPutBack ==
  ASSUME SealInv, LockInv, NEW p \in Proc, PutBack(p) \/ PutBackFails(p), UNCHANGED <<up, os>>,
         \A q \in Proc \ {p} : pc'[q] = pc[q] /\ held'[q] = held[q]
  PROVE  SealInv'
<1>0. saved' = [saved EXCEPT ![p] = Unsaved]
  BY DEF PutBack, PutBackFails
<1>1. saved'[p] = Unsaved /\ ~saved'[p].armed
  BY <1>0 DEF SealInv, Unsaved
<1>2. \A q \in Proc \ {p} : saved'[q] = saved[q]
  BY <1>0 DEF SealInv
<1>3. \A q \in Proc \ {p} : saved[p].armed => ~saved[q].armed
  BY DEF SealInv, LockInv, LockExclusive, Inside
<1>4. ro' \in Flags /\ excused' \in BOOLEAN
  <2>1. excused' \in BOOLEAN
    BY DEF PutBack, PutBackFails, SealInv
  <2>2. CASE PutBack(p)
    BY <2>1, <2>2 DEF PutBack, Reseal, Flags
  <2>3. CASE PutBackFails(p)
    <3>1. PICK part, dev \in BOOLEAN : ro' = [part |-> Reseal(p).part /\ part, disk |-> Reseal(p).disk /\ dev]
      BY <2>3 DEF PutBackFails
    <3>2. QED
      BY <2>1, <3>1 DEF Flags
  <2>4. QED
    BY <2>2, <2>3
<1>5. CASE PutBackFails(p)
  <2>1. saved[p].armed /\ excused'
    BY <1>5 DEF PutBackFails, SealInv, Unsaved
  <2>2. \A q \in Proc : ~saved'[q].armed
    BY <2>1, <1>1, <1>2, <1>3
  <2>3. \A q \in Proc : saved'[q] = Unsaved
    BY <2>2, <1>1, <1>2 DEF SealInv
  <2>4. QED
    BY <2>1, <2>2, <2>3, <1>0, <1>4 DEF SealInv, Unsaved
<1>6. CASE PutBack(p) /\ saved[p].armed
  <2>1. \A q \in Proc : saved'[q] = Unsaved /\ ~saved'[q].armed
    BY <1>6, <1>1, <1>2, <1>3 DEF SealInv
  <2>2. up' /\ ~excused' => ro' = BootFlags(os')
    BY <1>6 DEF PutBack, Reseal, SealInv, BootFlags, Flags
  <2>3. QED
    BY <2>1, <2>2, <1>0, <1>4 DEF SealInv, Unsaved
<1>7. CASE PutBack(p) /\ ~saved[p].armed
  <2>1. saved' = saved /\ excused' = excused
    BY <1>7 DEF PutBack, SealInv
  <2>2. ro' = ro
    BY <1>7 DEF PutBack, Reseal, SealInv, Unsaved, Flags
  <2>3. QED
    BY <2>1, <2>2, <1>7, SealFrame
<1>8. QED
  BY <1>5, <1>6, <1>7

\* open_rw: nobody was armed, so the flags found are those of the boot.
LEMMA SealOpen ==
  ASSUME SealInv, LockInv, NEW p \in Proc, OpenRW(p)
  PROVE  SealInv'
<1>1. UNCHANGED <<up, os, held, excused>> /\ pc[p] = "open" /\ held[p] /\ pc'[p] \in {"write", "exit"}
  BY DEF OpenRW, machine, Goto, Die, Leave, LockInv, Working
<1>2. \A q \in Proc : ~saved[q].armed
  BY <1>1 DEF SealInv, LockInv, LockExclusive, Inside, Opened
<1>3. saved'[p] = FlagsFound /\ \A q \in Proc \ {p} : saved'[q] = saved[q] /\ pc'[q] = pc[q]
  BY DEF OpenRW, SealInv, LockInv, Goto, Die, Leave
<1>4. FlagsFound \in [armed: BOOLEAN, part: BOOLEAN, disk: BOOLEAN] /\ FlagsFound.armed
      /\ FlagsFound.part = ro.part /\ FlagsFound.disk = ro.disk
  BY DEF FlagsFound, SealInv, Flags
<1>5. saved' \in [Proc -> [armed: BOOLEAN, part: BOOLEAN, disk: BOOLEAN]]
  BY <1>4 DEF OpenRW, SealInv
<1>6. ro' \in Flags /\ (ro'.part => ro.part) /\ (ro'.disk => ro.disk)
  <2>1. CASE ro' = [part |-> FALSE, disk |-> FALSE]
    BY <2>1 DEF Flags
  <2>2. ASSUME NEW still \in BOOLEAN, ro' = [part |-> ro.part, disk |-> still /\ ro.disk]
        PROVE  ro' \in Flags /\ (ro'.part => ro.part) /\ (ro'.disk => ro.disk)
    BY <2>2 DEF SealInv, Flags
  <2>3. QED
    BY <2>1, <2>2 DEF OpenRW
<1>7. up /\ ~excused => FlagsFound.part = BootFlags(os).part /\ FlagsFound.disk = BootFlags(os).disk
  BY <1>2, <1>4 DEF SealInv
<1>8. QED
  BY <1>1, <1>2, <1>3, <1>4, <1>5, <1>6, <1>7 DEF SealInv, Opened, BootFlags

LEMMA SealStep ==
  ASSUME SealInv, LockInv, NEW p \in Proc, Step(p)
  PROVE  SealInv'
<1> USE DEF Goto, Leave, Die
<1> pc[p] \in Labels /\ held \in [Proc -> BOOLEAN] /\ pc \in [Proc -> Labels]
  BY DEF LockInv
<1>1. CASE TakeLock(p) \/ SetUp(p) \/ DoReboot(p) \/ RequestReboot(p)
  <2>1. ~saved[p].armed
    BY <1>1 DEF TakeLock, SetUp, DoReboot, RequestReboot, SealInv, Opened
  <2>2. UNCHANGED <<up, os, ro, saved, excused>>
    BY <1>1 DEF TakeLock, SetUp, DoReboot, RequestReboot, machine
  <2>3. \A q \in Proc \ {p} : pc'[q] = pc[q] /\ held'[q] = held[q]
    BY <1>1 DEF TakeLock, SetUp, DoReboot, RequestReboot
  <2>4. QED
    BY <2>1, <2>2, <2>3, SealFrame
<1>2. CASE Status(p) \/ Verify(p) \/ Stash(p) \/ Import(p) \/ ToUbuntu(p) \/ ToAndroid(p)
  <2>1. pc[p] = "check" /\ UNCHANGED <<up, os, ro, saved, excused, held>>
    BY <1>2 DEF Status, Verify, Stash, Import, ToUbuntu, ToAndroid, ReadsLive, ReadsOnly, At, machine
  <2>2. \E l \in Labels : pc' = [pc EXCEPT ![p] = l]
    BY <1>2 DEF Status, Verify, Stash, Import, ToUbuntu, ToAndroid, Proceed, Labels
  <2>3. QED
    BY <2>1, <2>2, SealFrame DEF SealInv, Opened
<1>3. CASE StageCopy(p) \/ SealCopy(p) \/ CommitSync(p) \/ CommitAside(p) \/ CommitPlace(p) \/ CommitFlush(p)
  <2>1. pc[p] \notin Opened /\ UNCHANGED <<up, os, ro, saved, excused, held>>
    BY <1>3 DEF StageCopy, SealCopy, CommitSync, CommitAside, CommitPlace, CommitFlush, machine, Opened
  <2>2. \E l \in Labels : pc' = [pc EXCEPT ![p] = l]
    BY <1>3 DEF StageCopy, SealCopy, CommitSync, CommitAside, CommitPlace, CommitFlush, Labels
  <2>3. QED
    BY <2>1, <2>2, SealFrame DEF SealInv
<1>4. CASE ReadBack(p) \/ WriteState(p)
  <2>1. pc[p] \notin Opened /\ UNCHANGED <<up, os, ro, saved, excused, held>>
    BY <1>4 DEF ReadBack, WriteState, machine, Opened
  <2>2. \E l \in Labels : pc' = [pc EXCEPT ![p] = l]
    BY <1>4 DEF ReadBack, WriteState, Labels
  <2>3. QED
    BY <2>1, <2>2, SealFrame DEF SealInv
<1>5. CASE WriteBegin(p) \/ WriteEnd(p)
  <2>1. UNCHANGED <<up, os, ro, saved, excused, held>>
    BY <1>5 DEF WriteBegin, WriteEnd, machine
  <2>2. \E l \in Opened : pc' = [pc EXCEPT ![p] = l]
    BY <1>5 DEF WriteBegin, WriteEnd, Opened
  <2>3. QED
    BY <2>1, <2>2, SealFrame DEF SealInv
<1>6. CASE OpenRW(p)
  BY <1>6, SealOpen
<1>7. CASE CloseRW(p)
  <2>1. PutBack(p) \/ PutBackFails(p)
    BY <1>7 DEF CloseRW
  <2>2. UNCHANGED <<up, os, held>> /\ \E l \in Labels : pc' = [pc EXCEPT ![p] = l]
    BY <1>7 DEF CloseRW, machine, Labels
  <2>3. QED
    BY <2>1, <2>2, SealPutBack
<1>8. CASE ExitCleanup(p)
  <2>1. UNCHANGED <<up, os, held>> /\ pc' = [pc EXCEPT ![p] = "unlock"]
    BY <1>8 DEF ExitCleanup, machine
  <2>2. CASE PutBack(p) \/ PutBackFails(p)
    BY <2>1, <2>2, SealPutBack
  <2>3. CASE ~saved[p].armed /\ UNCHANGED <<ro, saved, excused>>
    BY <2>1, <2>3, SealFrame
  <2>4. QED
    BY <1>8, <2>2, <2>3 DEF ExitCleanup
<1>9. CASE Unlock(p)
  <2>1. UNCHANGED <<up, os, ro, excused>> /\ ~saved[p].armed
    BY <1>9 DEF Unlock, machine, SealInv, Opened
  <2>2. saved' = saved
    BY <2>1, <1>9 DEF Unlock, Gone, SealInv
  <2>3. \A q \in Proc \ {p} : pc'[q] = pc[q] /\ held'[q] = held[q]
    BY <1>9 DEF Unlock, Gone
  <2>4. QED
    BY <2>1, <2>2, <2>3, SealFrame
<1>10. QED
  BY <1>1, <1>2, <1>3, <1>4, <1>5, <1>6, <1>7, <1>8, <1>9 DEF Step

\* The tablet goes down: nobody is armed and the flags are the next boot's.
LEMMA SealDown ==
  ASSUME SealInv, Gone(Proc), up' = FALSE, UNCHANGED <<os, ro, excused>>
  PROVE  SealInv'
  BY DEF SealInv, Gone, Unsaved

LEMMA SealBoot ==
  ASSUME SealInv, LockInv, BootUp
  PROVE  SealInv'
<1>1. \A p \in Proc : ~saved[p].armed
  BY DEF BootUp, SealInv, LockInv, Opened
<1>2. os' \in {"ubuntu", "android"} /\ ro' = BootFlags(os') /\ excused' = FALSE /\ saved' = saved
  BY DEF BootUp, locals
<1>3. BootFlags(os') \in Flags
  BY <1>2 DEF BootFlags, Flags
<1>4. QED
  BY <1>1, <1>2, <1>3 DEF SealInv

LEMMA SealKill ==
  ASSUME SealInv, LockInv, NEW p \in Proc, Kill(p)
  PROVE  SealInv'
<1>1. UNCHANGED <<up, os, ro>> /\ excused' = (excused \/ saved[p].armed)
  BY DEF Kill, machine
<1>0. saved' = [q \in Proc |-> IF q \in {p} THEN Unsaved ELSE saved[q]]
  BY DEF Kill, Gone
<1>2. /\ saved' \in [Proc -> [armed: BOOLEAN, part: BOOLEAN, disk: BOOLEAN]] /\ saved'[p] = Unsaved
      /\ \A q \in Proc \ {p} : saved'[q] = saved[q] /\ pc'[q] = pc[q] /\ held'[q] = held[q]
  <2>1. saved' \in [Proc -> [armed: BOOLEAN, part: BOOLEAN, disk: BOOLEAN]]
    BY <1>0 DEF Unsaved, SealInv
  <2>2. saved'[p] = Unsaved /\ \A q \in Proc \ {p} : saved'[q] = saved[q]
    BY <1>0
  <2>3. \A q \in Proc \ {p} : pc'[q] = pc[q] /\ held'[q] = held[q]
    BY DEF Kill, Gone, LockInv
  <2>4. QED
    BY <2>1, <2>2, <2>3
<1>3. ~Unsaved.armed
  BY DEF Unsaved
<1>4. CASE saved[p].armed
  BY <1>1, <1>2, <1>3, <1>4 DEF SealInv
<1>5. CASE ~saved[p].armed
  <2>1. \A q \in Proc : saved'[q] = saved[q]
    BY <1>5, <1>2 DEF SealInv
  <2>2. excused' = excused
    BY <1>1, <1>5 DEF SealInv
  <2>3. QED
    BY <1>1, <1>2, <1>5, <2>1, <2>2 DEF SealInv, BootFlags
<1>6. QED
  BY <1>4, <1>5

LEMMA SealNext ==
  ASSUME SealInv, LockInv, [Next]_vars
  PROVE  SealInv'
<1>1. ASSUME NEW p \in Proc, Start(p) PROVE SealInv'
  <2>1. UNCHANGED <<up, os, ro, saved, excused, held>> /\ pc[p] = "idle" /\ pc' = [pc EXCEPT ![p] = "mkdir"]
    BY <1>1 DEF Start, Goto, machine
  <2>2. QED
    BY <2>1, SealFrame DEF SealInv, Opened, LockInv
<1>2. ASSUME NEW p \in Proc, Step(p) PROVE SealInv'
  BY <1>2, SealStep
<1>3. ASSUME NEW p \in Proc, Signal(p) PROVE SealInv'
  <2>1. UNCHANGED <<up, os, ro, saved, excused, held>> /\ pc' = [pc EXCEPT ![p] = "exit"]
    BY <1>3 DEF Signal, Leave, machine
  <2>2. QED
    BY <2>1, SealFrame DEF SealInv, Opened, LockInv
<1>4. ASSUME NEW p \in Proc, Kill(p) PROVE SealInv'
  BY <1>4, SealKill
<1>5. CASE Shutdown \/ PowerLoss
  BY <1>5, SealDown DEF Shutdown, PowerLoss
<1>6. CASE BootUp
  BY <1>6, SealBoot
<1>7. CASE HostFlash \/ KsuPatch \/ UNCHANGED vars
  <2>1. UNCHANGED <<up, os, ro, pc, held, saved, excused>>
    BY <1>7 DEF HostFlash, KsuPatch, vars, machine, locals
  <2>2. QED
    BY <2>1 DEF SealInv, BootFlags
<1>8. QED
  BY <1>1, <1>2, <1>3, <1>4, <1>5, <1>6, <1>7 DEF Next

LEMMA SealInit == Init => SealInv
<1> SUFFICES ASSUME Init PROVE SealInv
  OBVIOUS
<1>1. saved = [p \in Proc |-> Unsaved] /\ os = "ubuntu" /\ ro = BootFlags("ubuntu") /\ excused = FALSE
  BY DEF Init
<1>2. QED
  BY <1>1 DEF SealInv, Flags, Unsaved, BootFlags

\* "Restored on every exit path", however a switch ends and is interleaved.
THEOREM FlagsRestored == Spec => []SealsRestored
<1>1. Init => LockInv /\ SealInv
  BY LockInit, SealInit
<1>2. LockInv /\ SealInv /\ [Next]_vars => LockInv' /\ SealInv'
  BY LockNext, SealNext
<1>3. LockInv /\ SealInv => SealsRestored
  BY DEF SealInv, SealsRestored, Opened
<1>4. QED
  BY <1>1, <1>2, <1>3, PTL DEF Spec

-----------------------------------------------------------------------------
(* How far a command has come.                                             *)

\* The labels in the order a command meets them; the rollback passes "open" to
\* "verify" a second time.
Place(l, rollback) ==
  CASE l = "mkdir"     -> 1  [] l = "own"    -> 2  [] l = "check" -> 3
    [] l = "stage"     -> 4  [] l = "seal"   -> 5  [] l = "sync"  -> 6
    [] l = "aside"     -> 7  [] l = "place"  -> 8  [] l = "flush" -> 9
    [] l = "open"      -> IF rollback THEN 15 ELSE 10
    [] l = "write"     -> IF rollback THEN 16 ELSE 11
    [] l = "writing"   -> IF rollback THEN 17 ELSE 12
    [] l = "close"     -> IF rollback THEN 18 ELSE 13
    [] l = "verify"    -> IF rollback THEN 19 ELSE 14
    [] l = "state"     -> 20 [] l = "stateOnly" -> 20 [] l = "reboot" -> 21
    [] l = "request"   -> 22 [] l = "exit"      -> 23 [] l = "unlock" -> 24
    [] OTHER           -> 0
Further(p) == pc'[p] = "idle" \/ Place(pc[p], back[p]) < Place(pc'[p], back'[p])
PlaceInv == LockInv /\ back \in [Proc -> BOOLEAN]

\* Every step of the script, the failing ones included, is a step forward or the last.
LEMMA StepFurther ==
  ASSUME PlaceInv, NEW p \in Proc, Step(p)
  PROVE  Further(p)
<1> USE DEF Goto, Leave, Die
<1>1. pc[p] \in Labels /\ pc \in [Proc -> Labels] /\ back[p] \in BOOLEAN /\ back \in [Proc -> BOOLEAN]
  BY DEF PlaceInv, LockInv
<1>2. CASE TakeLock(p) \/ SetUp(p)
  <2>1. \/ pc[p] = "mkdir" /\ pc'[p] \in {"own", "exit"}
        \/ pc[p] = "own" /\ pc'[p] \in {"check", "exit"}
    BY <1>1, <1>2 DEF TakeLock, SetUp
  <2>2. QED
    BY <1>1, <2>1 DEF Further, Place
<1>3. CASE Status(p) \/ Verify(p) \/ Stash(p) \/ Import(p) \/ ToUbuntu(p) \/ ToAndroid(p)
  <2>1. pc[p] = "check" /\ back' = back
    BY <1>3 DEF Status, Verify, Stash, Import, ToUbuntu, ToAndroid, ReadsLive, ReadsOnly, At
  <2>2. \E l \in {"stage", "open", "stateOnly", "exit"} : pc' = [pc EXCEPT ![p] = l]
    BY <1>3 DEF Status, Verify, Stash, Import, ToUbuntu, ToAndroid, Proceed
  <2>3. pc'[p] \in {"stage", "open", "stateOnly", "exit"}
    BY <1>1, <2>2
  <2>4. QED
    BY <1>1, <2>1, <2>3 DEF Further, Place
<1>4. CASE StageCopy(p) \/ SealCopy(p) \/ CommitSync(p) \/ CommitAside(p) \/ CommitPlace(p) \/ CommitFlush(p)
  <2>1. \/ pc[p] = "stage" /\ pc'[p] \in {"seal", "exit"}
        \/ pc[p] = "seal" /\ pc'[p] \in {"sync", "exit"}
        \/ pc[p] = "sync" /\ pc'[p] = "aside"
        \/ pc[p] = "aside" /\ pc'[p] \in {"place", "exit"}
        \/ pc[p] = "place" /\ pc'[p] \in {"flush", "exit"}
        \/ pc[p] = "flush" /\ pc'[p] \in {"open", "exit"}
    BY <1>1, <1>4 DEF StageCopy, SealCopy, CommitSync, CommitAside, CommitPlace, CommitFlush
  <2>2. back' = back
    BY <1>4 DEF StageCopy, SealCopy, CommitSync, CommitAside, CommitPlace, CommitFlush
  <2>3. QED
    BY <1>1, <2>1, <2>2 DEF Further, Place
<1>5. CASE OpenRW(p) \/ WriteBegin(p) \/ WriteEnd(p) \/ CloseRW(p)
  <2>1. \/ pc[p] = "open" /\ pc'[p] \in {"write", "exit"}
        \/ pc[p] = "write" /\ pc'[p] \in {"writing", "close"}
        \/ pc[p] = "writing" /\ pc'[p] = "close"
        \/ pc[p] = "close" /\ pc'[p] \in {"verify", "exit"}
    BY <1>1, <1>5 DEF OpenRW, WriteBegin, WriteEnd, CloseRW
  <2>2. back'[p] = back[p]
    BY <1>5 DEF OpenRW, WriteBegin, WriteEnd, CloseRW
  <2>3. QED
    BY <1>1, <2>1, <2>2 DEF Further, Place
<1>6. CASE ReadBack(p)
  <2>1. /\ pc[p] = "verify"
        /\ \/ pc'[p] \in {"state", "exit"}
           \/ pc'[p] = "open" /\ ~back[p] /\ back'[p]
    BY <1>1, <1>6 DEF ReadBack
  <2>2. QED
    BY <1>1, <2>1 DEF Further, Place
<1>7. CASE WriteState(p) \/ DoReboot(p) \/ RequestReboot(p) \/ ExitCleanup(p)
  <2>1. \/ pc[p] \in {"state", "stateOnly"} /\ pc'[p] \in {"reboot", "exit"}
        \/ pc[p] = "reboot" /\ pc'[p] \in {"request", "exit"}
        \/ pc[p] = "request" /\ pc'[p] = "exit"
        \/ pc[p] = "exit" /\ pc'[p] = "unlock"
    BY <1>1, <1>7 DEF WriteState, DoReboot, RequestReboot, ExitCleanup
  <2>2. QED
    BY <2>1 DEF Further, Place
<1>8. CASE Unlock(p)
  BY <1>8 DEF Unlock, Gone, Further
<1>9. QED
  BY <1>2, <1>3, <1>4, <1>5, <1>6, <1>7, <1>8 DEF Step

\* A step of the script moves its own process only.
LEMMA StepAlone ==
  ASSUME PlaceInv, NEW p \in Proc, Step(p)
  PROVE  /\ back' \in [Proc -> BOOLEAN]
         /\ \A q \in Proc \ {p} : UNCHANGED <<pc[q], back[q]>>
<1> USE DEF Goto, Leave, Die
<1>1. pc \in [Proc -> Labels] /\ back \in [Proc -> BOOLEAN]
  BY DEF PlaceInv, LockInv
<1>2. CASE Status(p) \/ Verify(p) \/ Stash(p) \/ Import(p) \/ ToUbuntu(p) \/ ToAndroid(p)
  <2>1. back' = back
    BY <1>2 DEF Status, Verify, Stash, Import, ToUbuntu, ToAndroid, ReadsLive, ReadsOnly
  <2>2. \E l \in {"stage", "open", "stateOnly", "exit"} : pc' = [pc EXCEPT ![p] = l]
    BY <1>2 DEF Status, Verify, Stash, Import, ToUbuntu, ToAndroid, Proceed
  <2>3. QED
    BY <1>1, <2>1, <2>2
<1>3. CASE ReadBack(p)
  BY <1>1, <1>3 DEF ReadBack
<1>4. CASE Unlock(p)
  BY <1>1, <1>4 DEF Unlock, Gone
<1>5. CASE \/ TakeLock(p) \/ SetUp(p) \/ StageCopy(p) \/ SealCopy(p) \/ CommitSync(p) \/ CommitAside(p)
           \/ CommitPlace(p) \/ CommitFlush(p) \/ OpenRW(p) \/ WriteBegin(p) \/ WriteEnd(p) \/ CloseRW(p)
           \/ WriteState(p) \/ DoReboot(p) \/ RequestReboot(p) \/ ExitCleanup(p)
  <2>1. back' = back
    BY <1>5 DEF TakeLock, SetUp, StageCopy, SealCopy, CommitSync, CommitAside, CommitPlace, CommitFlush,
       OpenRW, WriteBegin, WriteEnd, CloseRW, WriteState, DoReboot, RequestReboot, ExitCleanup
  <2>2. \E l : pc' = [pc EXCEPT ![p] = l]
    BY <1>5 DEF TakeLock, SetUp, StageCopy, SealCopy, CommitSync, CommitAside, CommitPlace, CommitFlush,
       OpenRW, WriteBegin, WriteEnd, CloseRW, WriteState, DoReboot, RequestReboot, ExitCleanup
  <2>3. QED
    BY <1>1, <2>1, <2>2
<1>6. QED
  BY <1>2, <1>3, <1>4, <1>5 DEF Step

\* Whatever else happens takes a command nowhere but to its exit trap or its end.
LEMMA OthersFurther ==
  ASSUME PlaceInv, [Next]_vars, NEW p \in Proc, pc[p] # "idle", ~Step(p)
  PROVE  Further(p) \/ UNCHANGED <<pc[p], back[p]>>
<1> USE DEF Goto, Leave, Die
<1>1. pc[p] \in Labels /\ pc \in [Proc -> Labels] /\ back[p] \in BOOLEAN /\ back \in [Proc -> BOOLEAN]
  BY DEF PlaceInv, LockInv
<1>2. ASSUME NEW q \in Proc, Start(q) PROVE UNCHANGED <<pc[p], back[p]>>
  BY <1>1, <1>2 DEF Start
<1>3. ASSUME NEW q \in Proc, Step(q) PROVE UNCHANGED <<pc[p], back[p]>>
  BY <1>3, StepAlone
<1>4. ASSUME NEW q \in Proc, Signal(q) PROVE Further(p) \/ UNCHANGED <<pc[p], back[p]>>
  <2>1. back' = back /\ pc[q] \notin Leaving /\ pc' = [pc EXCEPT ![q] = "exit"]
    BY <1>4 DEF Signal
  <2>2. CASE p # q
    BY <1>1, <2>1, <2>2
  <2>3. CASE p = q
    <3>1. pc'[p] = "exit" /\ pc[p] \notin {"exit", "unlock"}
      BY <1>1, <2>1, <2>3 DEF Leaving
    <3>2. QED
      BY <1>1, <3>1 DEF Further, Place, Labels
  <2>4. QED
    BY <2>2, <2>3
<1>5. ASSUME NEW q \in Proc, Kill(q) PROVE Further(p) \/ UNCHANGED <<pc[p], back[p]>>
  <2>1. Gone({q})
    BY <1>5 DEF Kill
  <2>2. QED
    BY <1>1, <2>1 DEF Gone, Further
<1>6. CASE Shutdown \/ PowerLoss
  <2>1. Gone(Proc)
    BY <1>6 DEF Shutdown, PowerLoss
  <2>2. QED
    BY <2>1 DEF Gone, Further
<1>7. CASE BootUp \/ HostFlash \/ KsuPatch \/ UNCHANGED vars
  BY <1>7 DEF BootUp, HostFlash, KsuPatch, vars, locals
<1>8. QED
  BY <1>2, <1>3, <1>4, <1>5, <1>6, <1>7 DEF Next

LEMMA PlaceKept ==
  ASSUME PlaceInv, [Next]_vars
  PROVE  PlaceInv'
<1>1. LockInv'
  BY LockNext DEF PlaceInv
<1>2. back \in [Proc -> BOOLEAN]
  BY DEF PlaceInv
<1>3. ASSUME NEW S, Gone(S) PROVE back' \in [Proc -> BOOLEAN]
  <2>1. back' = [p \in Proc |-> p \notin S /\ back[p]]
    BY <1>3 DEF Gone
  <2>2. \A p \in Proc : (p \notin S /\ back[p]) \in BOOLEAN
    BY <1>2
  <2>3. QED
    BY <2>1, <2>2
<1>4. ASSUME NEW p \in Proc, Step(p) PROVE back' \in [Proc -> BOOLEAN]
  BY <1>4, StepAlone
<1>5. ASSUME \E p \in Proc : Start(p) \/ Signal(p) PROVE back' \in [Proc -> BOOLEAN]
  BY <1>2, <1>5 DEF Start, Signal
<1>6. ASSUME (\E p \in Proc : Kill(p)) \/ Shutdown \/ PowerLoss PROVE back' \in [Proc -> BOOLEAN]
  <2>1. \E S : Gone(S)
    BY <1>6 DEF Kill, Shutdown, PowerLoss
  <2>2. QED
    BY <1>3, <2>1
<1>7. ASSUME BootUp \/ HostFlash \/ KsuPatch \/ UNCHANGED vars PROVE back' \in [Proc -> BOOLEAN]
  <2>1. back' = back
    BY <1>7 DEF BootUp, HostFlash, KsuPatch, vars, locals
  <2>2. QED
    BY <1>2, <2>1
<1>8. back' \in [Proc -> BOOLEAN]
  BY <1>4, <1>5, <1>6, <1>7 DEF Next
<1>9. QED
  BY <1>1, <1>8 DEF PlaceInv

\* No command goes round in circles: each of its own steps, whether it succeeds
\* or fails, takes it forward in the order of Place or ends it, and nobody else
\* (another command, a signal, a power loss) ever takes it back.  A command is
\* over after at most 24 steps, the one rollback included.
CommandsAdvance ==
  [][\A p \in Proc : pc[p] # "idle" => Further(p) \/ (~Step(p) /\ UNCHANGED <<pc[p], back[p]>>)]_vars
THEOREM CommandsGoForward == Spec => CommandsAdvance
<1>1. Init => PlaceInv
  BY LockInit DEF Init, PlaceInv
<1>2. PlaceInv /\ [Next]_vars => PlaceInv'
  BY PlaceKept
<1>3. PlaceInv /\ [Next]_vars =>
      \A p \in Proc : pc[p] # "idle" => Further(p) \/ (~Step(p) /\ UNCHANGED <<pc[p], back[p]>>)
  BY StepFurther, OthersFurther
<1>4. QED
  BY <1>1, <1>2, <1>3, PTL DEF Spec, CommandsAdvance

=============================================================================
