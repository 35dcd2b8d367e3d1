----------------------------- MODULE BootSwitch -----------------------------
(***************************************************************************)
(* liuqin-switch: two operating systems share one boot partition.          *)
(*                                                                         *)
(* The image that boots next is in the partition boot_a; the image of the  *)
(* other system waits in a store on the Ubuntu root file system.  Every    *)
(* command runs as a root process; several may be started, a lock          *)
(* directory admits one.  One action below is one stretch of the script    *)
(* between two points at which it can be cut short: by an error (Fault),   *)
(* by HUP, INT or TERM (Signal), by SIGKILL (Kill) or by the tablet going  *)
(* down (PowerLoss, RebootNow).                                            *)
(*                                                                         *)
(* An image stands for its bytes: two images are equal when their padded   *)
(* SHA-256 is.  Ubuntu, Android and Other partition the images by what     *)
(* classify makes of their header; Whole are those that really boot, so    *)
(* Image \ Whole are the torn ones an interrupted write leaves.            *)
(***************************************************************************)
EXTENDS Naturals

CONSTANTS
  Proc,          \* invocations that may be alive at the same time
  Ubuntu,        \* images whose header identifies as ubuntu
  Android,       \* images whose header identifies as android
  Other,         \* images that identify as neither
  Whole,         \* images that are complete, and boot
  ImportFiles,   \* images a user may hand to import-android
  Asks,          \* commands that are given
  Options,       \* "reboot" (none given), "stay" (--no-reboot), "dry" (--dry-run)
  Absent,        \* no such directory in the store
  Damaged,       \* a directory that check_set refuses (no or wrong SHA256SUMS)
  MaxFaults,     \* bound: I/O errors in a behaviour
  MaxCrashes     \* bound: signals, kills and power losses in a behaviour

Image == Ubuntu \cup Android \cup Other
Torn  == Image \ Whole

ASSUME ImageAssumption ==
  /\ Ubuntu \cap Android = {} /\ Other \cap (Ubuntu \cup Android) = {}
  /\ Whole \subseteq Ubuntu \cup Android
  /\ Torn # {} /\ ImportFiles \subseteq Image
  /\ Absent \notin Image /\ Damaged \notin Image /\ Absent # Damaged
ASSUME AskAssumption ==
  /\ Asks \subseteq {"status", "verify", "stash-android", "import-android", "to-ubuntu", "to-android"}
  /\ Options \subseteq {"reboot", "stay", "dry"}
ASSUME BoundAssumption == MaxFaults \in Nat /\ MaxCrashes \in Nat

VARIABLES
  up, os, slot,        \* is the tablet running, which system, from which slot
  bootA,               \* content of boot_a
  ro,                  \* kernel read-only flags of boot_a and of its disk
  lock,                \* the lock directory (tmpfs) exists
  halting,             \* a reboot was requested and has not happened yet
  store,               \* the store as processes see it
  durable,             \* the store a power loss would leave behind
  soft,                \* directories whose file data has not reached the disk
  note,                \* "installed" in state.json
  pc, job, held,       \* per process: place, request, LOCKED
  live,                \* LIVE_FULL / LIVE_CLASS, cached by compute_live
  saved,               \* RW_PART_WAS and RW_DISK_WAS while RW_ARMED
  wrote,               \* is_wrote, then rb_wrote
  back,                \* the write under way is the rollback
  rc,                  \* exit status
  excused,             \* history: a flag could not be restored since boot
  faults, crashes      \* how much of the two bounds is used

machine == <<up, os, slot>>
disk    == <<store, durable, soft, note>>
locals  == <<job, held, live, saved, wrote, back, rc>>
budget  == <<faults, crashes>>
vars    == <<up, os, slot, bootA, ro, lock, halting, store, durable, soft, note,
             pc, job, held, live, saved, wrote, back, rc, excused, faults, crashes>>

Dirs     == {"ubuntu", "android", "old", "new"}  \* old, new: .android.old, .android.new
Flags    == [part: BOOLEAN, disk: BOOLEAN]
Unsaved  == [armed |-> FALSE, part |-> FALSE, disk |-> FALSE]
Jobs     == [cmd: Asks, opt: Options, storeRO: BOOLEAN, src: Image \cup {Absent}]
NoJob    == [cmd |-> "status", opt |-> "stay", storeRO |-> FALSE, src |-> Absent]
Labels   == {"idle", "mkdir", "own", "check", "stage", "seal", "sync", "aside", "place", "flush",
             "open", "write", "writing", "close", "verify", "state", "stateOnly",
             "reboot", "request", "exit", "unlock"}

\* Ubuntu boots with boot_a and its disk sealed by the storage guard; Android does not seal.
BootFlags(system) == [part |-> system = "ubuntu", disk |-> system = "ubuntu"]

-----------------------------------------------------------------------------
(* What the script computes from the store and boot_a *)

Of(set) == IF set = "ubuntu" THEN Ubuntu ELSE Android
\* Slip: a set counts as soon as its directory is there.
UsableIfPresent(set) == store[set] # Absent
Usable(set) == store[set] \in Of(set)                    \* check_set
\* Slip: any usable set passes for the live one.
LiveIsIfUsable(set, image) == Usable(set)
LiveIs(set, image) == Usable(set) /\ store[set] = image  \* live_is_set
Target(p) == IF job[p].cmd = "to-android" THEN "android" ELSE "ubuntu"
WayBack(p) == IF job[p].cmd = "to-android" THEN "ubuntu" ELSE "android"
Writes(p) == store[IF back[p] THEN WayBack(p) ELSE Target(p)]
Archived(image) == store["android"] = image /\ durable["android"] = image /\ "android" \notin soft

Critical == {"aside", "place", "flush", "write", "writing", "close", "verify"}
Leaving  == {"exit", "unlock"}

\* Slip: the exit status of the write is taken for the read-back.
GoodIfWritten(p) == wrote[p]
Good(p) == wrote[p] /\ bootA = Writes(p)

\* Slip: the flag of the disk is not recorded.
FlagsOfPart == [armed |-> TRUE, part |-> ro.part, disk |-> FALSE]
FlagsFound == [armed |-> TRUE, part |-> ro.part, disk |-> ro.disk]

(* Moves of one process *)

\* Slip: the lock directory goes whoever made it.
RmdirAlways(p) == lock' = FALSE
RmdirLock(p) == lock' = (lock /\ ~held[p])

\* Slip: a sync that does not wait for the medium.
SyncNothing == UNCHANGED <<durable, soft>>
Sync == durable' = store' /\ soft' = {}

Goto(p, label) == pc' = [pc EXCEPT ![p] = label] /\ UNCHANGED rc
Leave(p, status) == pc' = [pc EXCEPT ![p] = "exit"] /\ rc' = [rc EXCEPT ![p] = status]
Die(p) == Leave(p, 1)
Fault == faults < MaxFaults /\ faults' = faults + 1
Crash == crashes < MaxCrashes /\ crashes' = crashes + 1

\* What is left of a process that is gone.
Gone(S) ==
  /\ pc'    = [p \in Proc |-> IF p \in S THEN "idle" ELSE pc[p]]
  /\ job'   = [p \in Proc |-> IF p \in S THEN NoJob ELSE job[p]]
  /\ held'  = [p \in Proc |-> p \notin S /\ held[p]]
  /\ live'  = [p \in Proc |-> IF p \in S THEN Absent ELSE live[p]]
  /\ saved' = [p \in Proc |-> IF p \in S THEN Unsaved ELSE saved[p]]
  /\ wrote' = [p \in Proc |-> p \notin S /\ wrote[p]]
  /\ back'  = [p \in Proc |-> p \notin S /\ back[p]]
  /\ rc'    = [p \in Proc |-> IF p \in S THEN 0 ELSE rc[p]]

Init ==
  /\ up = FALSE /\ os = "ubuntu" /\ slot = "a"
  /\ bootA \in Whole
  /\ ro = BootFlags("ubuntu") /\ lock = FALSE /\ halting = FALSE
  /\ \E u \in (Ubuntu \cap Whole) \cup {Damaged}, a \in (Android \cap Whole) \cup {Absent, Damaged} :
        store = [d \in Dirs |-> CASE d = "ubuntu" -> u [] d = "android" -> a [] OTHER -> Absent]
  /\ durable = store /\ soft = {} /\ note = Absent
  /\ pc = [p \in Proc |-> "idle"] /\ job = [p \in Proc |-> NoJob]
  /\ held = [p \in Proc |-> FALSE] /\ live = [p \in Proc |-> Absent]
  /\ saved = [p \in Proc |-> Unsaved] /\ wrote = [p \in Proc |-> FALSE]
  /\ back = [p \in Proc |-> FALSE] /\ rc = [p \in Proc |-> 0]
  /\ excused = FALSE /\ faults = 0 /\ crashes = 0

-----------------------------------------------------------------------------
(* Starting, and the lock *)

\* A root shell, the desktop button or the KernelSU page runs a command.  On
\* Android the store is mounted ro,noload, so it counts as read-only there.
Start(p) ==
  /\ up /\ pc[p] = "idle"
  /\ \E cmd \in Asks, opt \in Options, storeRO \in BOOLEAN, src \in ImportFiles \cup {Absent} :
       /\ (os = "android" => storeRO) /\ (cmd = "import-android" <=> src # Absent)
       /\ (cmd \in {"status", "verify"} => opt = "stay" /\ storeRO)  \* they write nothing
       /\ (opt = "reboot" => cmd \in {"to-ubuntu", "to-android"})
       /\ job' = [job EXCEPT ![p] = [cmd |-> cmd, opt |-> opt, storeRO |-> storeRO, src |-> src]]
  /\ Goto(p, "mkdir")
  /\ UNCHANGED <<machine, bootA, ro, lock, halting, disk, held, live, saved, wrote, back, excused, budget>>

\* Slip: wait for the lock instead of giving up.
TakeLockWaits(p) ==
  /\ pc[p] = "mkdir"
  /\ \/ lock /\ UNCHANGED <<lock, pc, rc>>
     \/ ~lock /\ lock' = TRUE /\ Goto(p, "own")
  /\ UNCHANGED <<machine, bootA, ro, halting, disk, job, held, live, saved, wrote, back, excused, budget>>

\* mkdir of the lock directory: one process at a time.  A signal that arrives
\* before the next step finds LOCKED = 0 and leaves the directory behind.
TakeLock(p) ==
  /\ pc[p] = "mkdir"
  /\ \/ lock /\ Die(p) /\ UNCHANGED lock
     \/ ~lock /\ lock' = TRUE /\ Goto(p, "own")
  /\ UNCHANGED <<machine, bootA, ro, halting, disk, job, held, live, saved, wrote, back, excused, budget>>

\* LOCKED = 1, then boot_a and the store are looked up.
SetUp(p) ==
  /\ pc[p] = "own"
  /\ held' = [held EXCEPT ![p] = TRUE]
  /\ \/ Goto(p, "check") /\ UNCHANGED faults
     \/ Fault /\ Die(p)
  /\ UNCHANGED <<machine, bootA, ro, lock, halting, disk, job, live, saved, wrote, back, excused, crashes>>

-----------------------------------------------------------------------------
(* The subcommands up to their first write: they read the store and boot_a *)

At(p, cmd) == pc[p] = "check" /\ job[p].cmd = cmd
\* Slip: --dry-run is not looked at.
ProceedAnyway(p, label) == Goto(p, label)

Proceed(p, label) == IF job[p].opt = "dry" THEN Leave(p, 0) ELSE Goto(p, label)
ReadsOnly == UNCHANGED <<machine, bootA, ro, lock, halting, disk, job, held, saved, wrote, back, excused, budget>>
\* compute_live caches the hash of boot_a; only stash_live uses it after this step.
ReadsLive(p) == ReadsOnly /\ live' = [live EXCEPT ![p] = IF pc'[p] = "stage" THEN bootA ELSE Absent]

Status(p) == At(p, "status") /\ Leave(p, 0) /\ ReadsLive(p)

Verify(p) ==
  /\ At(p, "verify")
  /\ \/ /\ Usable("ubuntu") /\ Usable("android")
        /\ LiveIs("ubuntu", bootA) \/ LiveIs("android", bootA)
        /\ Leave(p, 0)
     \/ /\ ~(Usable("ubuntu") /\ Usable("android"))
           \/ ~(LiveIs("ubuntu", bootA) \/ LiveIs("android", bootA))
        /\ Die(p)
  /\ ReadsLive(p)

Stash(p) ==
  /\ At(p, "stash-android")
  /\ \/ bootA \notin Android /\ Die(p)
     \/ LiveIs("android", bootA) /\ Leave(p, 0)
     \/ /\ bootA \in Android /\ ~LiveIs("android", bootA)
        /\ IF job[p].storeRO /\ job[p].opt # "dry" THEN Die(p) ELSE Proceed(p, "stage")
  /\ ReadsLive(p)

Import(p) ==
  /\ At(p, "import-android")
  /\ IF job[p].src \notin Android \/ (job[p].storeRO /\ job[p].opt # "dry")
     THEN Die(p) ELSE Proceed(p, "stage")
  /\ ReadsOnly /\ UNCHANGED live

ToUbuntu(p) ==
  /\ At(p, "to-ubuntu")
  /\ \E seen \in {slot, "unknown"} :  \* detect_running_slot may find nothing
       \/ (~Usable("ubuntu") \/ seen = "b") /\ Die(p)
       \/ /\ Usable("ubuntu") /\ seen # "b"
          /\ \/ LiveIs("ubuntu", bootA) /\ Goto(p, "stateOnly")
             \/ bootA \in Ubuntu /\ ~LiveIs("ubuntu", bootA) /\ Proceed(p, "open")
             \/ LiveIs("android", bootA) /\ Proceed(p, "open")
             \/ /\ bootA \in Android /\ ~LiveIs("android", bootA)
                /\ IF job[p].storeRO THEN Die(p) ELSE Proceed(p, "stage")
             \/ bootA \in Other /\ Die(p)
  /\ ReadsLive(p)

ToAndroid(p) ==
  /\ At(p, "to-android")
  /\ \E seen \in {slot, "unknown"} :
       \/ (~Usable("android") \/ ~Usable("ubuntu") \/ seen = "b") /\ Die(p)
       \/ /\ Usable("android") /\ Usable("ubuntu") /\ seen # "b"
          /\ \/ LiveIs("android", bootA) /\ Goto(p, "stateOnly")
             \/ bootA \in Ubuntu /\ Proceed(p, "open")
             \/ bootA \notin Ubuntu /\ ~LiveIs("android", bootA) /\ Die(p)
  /\ ReadsLive(p)

-----------------------------------------------------------------------------
(* stash_live and cmd_import_android: a complete copy in .android.new *)

\* rm -rf, mkdir and the copy; an error leaves no directory or a partial one.
StageCopy(p) ==
  /\ pc[p] = "stage"
  /\ \/ store' = [store EXCEPT !["new"] = Damaged] /\ Goto(p, "seal") /\ UNCHANGED faults
     \/ Fault /\ Die(p) /\ \E left \in {Absent, Damaged} : store' = [store EXCEPT !["new"] = left]
  /\ soft' = soft \ {"new"}
  /\ UNCHANGED <<machine, bootA, ro, lock, halting, durable, note, job, held, live, saved, wrote, back, excused, crashes>>

\* The copy is compared (with LIVE_FULL, or with the file imported) and
\* classified; SHA256SUMS makes it a set.
SealCopy(p) ==
  /\ pc[p] = "seal"
  /\ LET copied == IF job[p].cmd = "import-android" THEN job[p].src ELSE bootA
         wanted == IF job[p].cmd = "import-android" THEN job[p].src ELSE live[p]
     IN \/ /\ copied = wanted /\ copied \in Android
           /\ store' = [store EXCEPT !["new"] = copied] /\ soft' = soft \cup {"new"}
           /\ Goto(p, "sync") /\ UNCHANGED faults
        \/ (copied # wanted \/ copied \notin Android) /\ Die(p) /\ UNCHANGED <<store, soft, faults>>
        \/ Fault /\ Die(p) /\ UNCHANGED <<store, soft>>
  /\ UNCHANGED <<machine, bootA, ro, lock, halting, durable, note, job, held, live, saved, wrote, back, excused, crashes>>

(* commit_set: sync; the set moves aside, the copy moves in, the old one goes *)

CommitSync(p) ==
  /\ pc[p] = "sync"
  /\ UNCHANGED store /\ Sync
  /\ Goto(p, "aside")
  /\ UNCHANGED <<machine, bootA, ro, lock, halting, note, job, held, live, saved, wrote, back, excused, budget>>

CommitAside(p) ==
  /\ pc[p] = "aside"
  /\ \/ /\ store' = [store EXCEPT !["old"] = store["android"], !["android"] = Absent]
        /\ Goto(p, "place") /\ UNCHANGED faults
     \/ /\ Fault /\ store["android"] # Absent
        /\ store' = [store EXCEPT !["old"] = Absent] /\ Die(p)
  /\ UNCHANGED <<machine, bootA, ro, lock, halting, durable, soft, note, job, held, live, saved, wrote, back, excused, crashes>>

CommitPlace(p) ==
  /\ pc[p] = "place"
  /\ \/ /\ store' = [store EXCEPT !["android"] = store["new"], !["new"] = Absent]
        /\ soft' = {IF d = "new" THEN "android" ELSE d : d \in soft}
        /\ Goto(p, "flush") /\ UNCHANGED faults
     \/ Fault /\ Die(p) /\ UNCHANGED <<store, soft>>
  /\ UNCHANGED <<machine, bootA, ro, lock, halting, durable, note, job, held, live, saved, wrote, back, excused, crashes>>

CommitFlush(p) ==
  /\ pc[p] = "flush"
  /\ store' = [store EXCEPT !["old"] = Absent]
  /\ Sync
  /\ IF job[p].cmd = "to-ubuntu" THEN Goto(p, "open") ELSE Leave(p, 0)
  /\ UNCHANGED <<machine, bootA, ro, lock, halting, note, job, held, live, saved, wrote, back, excused, budget>>

-----------------------------------------------------------------------------
(* install_set and rollback: unseal, write, seal, read back *)

\* The flags found are saved before the first one is cleared, disk first.
OpenRW(p) ==
  /\ pc[p] = "open"
  /\ saved' = [saved EXCEPT ![p] = FlagsFound]
  /\ \/ ro' = [part |-> FALSE, disk |-> FALSE] /\ Goto(p, "write") /\ UNCHANGED faults
     \/ Fault /\ Die(p) /\ \E still \in BOOLEAN : ro' = [part |-> ro.part, disk |-> still /\ ro.disk]
  /\ UNCHANGED <<machine, bootA, lock, halting, disk, job, held, live, wrote, back, excused, crashes>>

\* The first blocks reach boot_a, or the write fails before any does.
WriteBegin(p) ==
  /\ pc[p] = "write"
  /\ \/ /\ ~ro.part /\ ~ro.disk
        /\ bootA' \in Torn
        /\ Goto(p, "writing") /\ UNCHANGED <<wrote, faults>>
     \/ /\ (ro.part \/ ro.disk) \/ faults < MaxFaults
        /\ faults' = IF ro.part \/ ro.disk THEN faults ELSE faults + 1
        /\ wrote' = [wrote EXCEPT ![p] = FALSE]
        /\ Goto(p, "close") /\ UNCHANGED bootA
  /\ UNCHANGED <<machine, ro, lock, halting, disk, job, held, live, saved, back, excused, crashes>>

\* The write completes; or it fails, or the medium does not keep it.
WriteEnd(p) ==
  /\ pc[p] = "writing"
  /\ \/ bootA' = Writes(p) /\ wrote' = [wrote EXCEPT ![p] = TRUE] /\ UNCHANGED faults
     \/ /\ Fault /\ bootA' \in Torn \cup {Writes(p)}
        /\ \E status \in BOOLEAN : wrote' = [wrote EXCEPT ![p] = status]
  /\ Goto(p, "close")
  /\ UNCHANGED <<machine, ro, lock, halting, disk, job, held, live, saved, back, excused, crashes>>

\* close_rw puts back what open_rw found; a flag that stays open is remembered.
Reseal(p) == [part |-> ro.part \/ saved[p].part, disk |-> ro.disk \/ saved[p].disk]
PutBack(p) ==
  /\ saved' = [saved EXCEPT ![p] = Unsaved]
  /\ ro' = Reseal(p) /\ UNCHANGED <<excused, faults>>
PutBackFails(p) ==
  /\ saved[p].part \/ saved[p].disk
  /\ saved' = [saved EXCEPT ![p] = Unsaved]
  /\ Fault /\ excused' = TRUE
  /\ \E part, dev \in BOOLEAN : ro' = [part |-> Reseal(p).part /\ part, disk |-> Reseal(p).disk /\ dev]

CloseRW(p) ==
  /\ pc[p] = "close"
  /\ \/ PutBack(p) /\ Goto(p, "verify")
     \/ PutBackFails(p) /\ IF back[p] THEN Goto(p, "verify") ELSE Die(p)
  /\ UNCHANGED <<machine, bootA, lock, halting, disk, job, held, live, wrote, back, crashes>>

\* Read-back.  A mismatch starts the rollback, once, if its set is usable.
ReadBack(p) ==
  /\ pc[p] = "verify"
  /\ \/ Good(p) /\ ~back[p] /\ Goto(p, "state") /\ UNCHANGED back
     \/ /\ ~Good(p) /\ ~back[p] /\ Usable(WayBack(p))
        /\ back' = [back EXCEPT ![p] = TRUE] /\ Goto(p, "open")
     \/ (back[p] \/ (~Good(p) /\ ~Usable(WayBack(p)))) /\ Die(p) /\ UNCHANGED back
  /\ wrote' = [wrote EXCEPT ![p] = FALSE]  \* not read again
  /\ UNCHANGED <<machine, bootA, ro, lock, halting, disk, job, held, live, saved, excused, budget>>

-----------------------------------------------------------------------------
(* write_state, do_reboot and the exit trap *)

\* state.json is replaced by a rename and synced; an error here is not noticed.
WriteState(p) ==
  /\ pc[p] \in {"state", "stateOnly"}
  /\ UNCHANGED store
  /\ \/ /\ job[p].storeRO \/ job[p].opt = "dry"
        /\ UNCHANGED <<note, durable, soft, faults>>
     \/ /\ ~job[p].storeRO /\ job[p].opt # "dry"
        /\ Sync
        /\ \/ note' = Target(p) /\ UNCHANGED faults
           \/ Fault /\ UNCHANGED note
  /\ IF pc[p] = "state" THEN Goto(p, "reboot") ELSE Leave(p, 0)
  /\ UNCHANGED <<machine, bootA, ro, lock, halting, job, held, live, saved, wrote, back, excused, crashes>>

\* Slip: --no-reboot is read the wrong way round.
RebootsIfTold(p) == job[p].opt = "stay"
Reboots(p) == job[p].opt = "reboot"

\* do_reboot cleans up, lock included, before it asks for the reboot.
DoReboot(p) ==
  /\ pc[p] = "reboot"
  /\ IF Reboots(p)
     THEN /\ RmdirLock(p) /\ held' = [held EXCEPT ![p] = FALSE] /\ Goto(p, "request")
     ELSE Leave(p, 0) /\ UNCHANGED <<lock, held>>
  /\ UNCHANGED <<machine, bootA, ro, halting, disk, job, live, saved, wrote, back, excused, budget>>

RequestReboot(p) ==
  /\ pc[p] = "request"
  /\ UNCHANGED store /\ Sync
  /\ \/ halting' = TRUE /\ Leave(p, 0) /\ UNCHANGED faults
     \/ Fault /\ Die(p) /\ UNCHANGED halting
  /\ UNCHANGED <<machine, bootA, ro, lock, note, job, held, live, saved, wrote, back, excused, crashes>>

\* on_exit: close_rw if armed; an exit status of 0 does not survive a failure.
ExitCleanup(p) ==
  /\ pc[p] = "exit"
  /\ pc' = [pc EXCEPT ![p] = "unlock"]
  /\ \/ /\ IF saved[p].armed THEN PutBack(p) ELSE UNCHANGED <<ro, saved, excused, faults>>
        /\ UNCHANGED rc
     \/ saved[p].armed /\ PutBackFails(p) /\ rc' = [rc EXCEPT ![p] = IF rc[p] = 0 THEN 1 ELSE rc[p]]
  /\ UNCHANGED <<machine, bootA, lock, halting, disk, job, held, live, wrote, back, crashes>>

Unlock(p) ==
  /\ pc[p] = "unlock"
  /\ RmdirLock(p)
  /\ Gone({p})
  /\ UNCHANGED <<machine, bootA, ro, halting, disk, excused, budget>>

-----------------------------------------------------------------------------
(* What happens to a process and to the tablet *)

\* HUP, INT, TERM: "exit 130", ignored in the critical sections and the trap.
Signal(p) ==
  /\ pc[p] \notin Critical \cup Leaving \cup {"idle"} /\ ~back[p]
  /\ Crash /\ Leave(p, 130)
  /\ UNCHANGED <<machine, bootA, ro, lock, halting, disk, job, held, live, saved, wrote, back, excused, faults>>

\* SIGKILL: nothing is cleaned up.
Kill(p) ==
  /\ pc[p] # "idle" /\ Crash
  /\ Gone({p}) /\ excused' = (excused \/ saved[p].armed)
  /\ UNCHANGED <<machine, bootA, ro, lock, halting, disk, faults>>

\* An orderly shutdown, requested here or by the user; it may kill a switch.
Shutdown ==
  /\ up /\ (halting \/ \A p \in Proc : pc[p] = "idle")
  /\ up' = FALSE /\ Gone(Proc)
  /\ UNCHANGED store /\ Sync
  /\ UNCHANGED <<os, slot, bootA, ro, lock, halting, note, excused, budget>>

\* Power loss: metadata since the last sync and unsynced data may be gone.
PowerLoss ==
  /\ up /\ Crash
  /\ up' = FALSE /\ Gone(Proc)
  /\ \/ store' = durable
     \/ \E lost \in SUBSET soft : store' = [d \in Dirs |-> IF d \in lost THEN Damaged ELSE store[d]]
  /\ Sync
  /\ UNCHANGED <<os, slot, bootA, ro, lock, halting, note, excused, faults>>

\* The bootloader starts boot_a, or falls back to the Ubuntu copy in boot_b.
BootUp ==
  /\ ~up /\ up' = TRUE
  /\ os'   = IF bootA \in Android \cap Whole THEN "android" ELSE "ubuntu"
  /\ slot' = IF bootA \in Whole THEN "a" ELSE "b"
  /\ ro' = BootFlags(os') /\ lock' = FALSE /\ halting' = FALSE /\ excused' = FALSE
  /\ UNCHANGED <<bootA, disk, pc, locals, budget>>

\* A torn boot_a is repaired from a host: fastboot flash boot_a, --set-active=a.
HostFlash ==
  /\ ~up /\ bootA \notin Whole
  /\ bootA' \in Ubuntu \cap Whole
  /\ UNCHANGED <<machine, ro, lock, halting, disk, pc, locals, excused, budget>>

\* The KernelSU manager patches Android's boot image while no switch runs.
KsuPatch ==
  /\ up /\ os = "android" /\ bootA \in Android /\ \A p \in Proc : pc[p] = "idle"
  /\ bootA' \in Android \cap Whole
  /\ UNCHANGED <<machine, ro, lock, halting, disk, pc, locals, excused, budget>>

-----------------------------------------------------------------------------
Step(p) ==
  \/ TakeLock(p) \/ SetUp(p)
  \/ Status(p) \/ Verify(p) \/ Stash(p) \/ Import(p) \/ ToUbuntu(p) \/ ToAndroid(p)
  \/ StageCopy(p) \/ SealCopy(p)
  \/ CommitSync(p) \/ CommitAside(p) \/ CommitPlace(p) \/ CommitFlush(p)
  \/ OpenRW(p) \/ WriteBegin(p) \/ WriteEnd(p) \/ CloseRW(p) \/ ReadBack(p)
  \/ WriteState(p) \/ DoReboot(p) \/ RequestReboot(p)
  \/ ExitCleanup(p) \/ Unlock(p)

Next ==
  \/ \E p \in Proc : Start(p) \/ Step(p) \/ Signal(p) \/ Kill(p)
  \/ Shutdown \/ PowerLoss \/ BootUp \/ HostFlash \/ KsuPatch

Spec == Init /\ [][Next]_vars

\* The script and the shutdown it asks for run on; nobody has to start a
\* command, and no error, signal or power loss has to happen.
Fairness ==
  /\ \A p \in Proc : WF_vars(Step(p))
  /\ WF_vars(halting /\ Shutdown) /\ WF_vars(BootUp)
FairSpec == Spec /\ Fairness

-----------------------------------------------------------------------------
(* Properties *)

\* Every variable holds a value of its kind, whatever is cut short.
TypeOK ==
  /\ up \in BOOLEAN /\ os \in {"ubuntu", "android"} /\ slot \in {"a", "b"}
  /\ bootA \in Image /\ ro \in Flags /\ lock \in BOOLEAN /\ halting \in BOOLEAN
  /\ store \in [Dirs -> Image \cup {Absent, Damaged}]
  /\ durable \in [Dirs -> Image \cup {Absent, Damaged}]
  /\ soft \subseteq Dirs /\ note \in {Absent, "ubuntu", "android"}
  /\ pc \in [Proc -> Labels] /\ job \in [Proc -> Jobs \cup {NoJob}]
  /\ held \in [Proc -> BOOLEAN] /\ live \in [Proc -> Image \cup {Absent}]
  /\ saved \in [Proc -> [armed: BOOLEAN, part: BOOLEAN, disk: BOOLEAN]]
  /\ wrote \in [Proc -> BOOLEAN] /\ back \in [Proc -> BOOLEAN]
  /\ rc \in [Proc -> {0, 1, 130}] /\ excused \in BOOLEAN
  /\ faults \in 0..MaxFaults /\ crashes \in 0..MaxCrashes

\* "One switch at a time": the process that took the lock directory is the
\* only one between mkdir and rmdir, and the directory exists all that time,
\* although a loser runs the same exit trap and do_reboot unlocks early.
Inside(p) == held[p] \/ pc[p] = "own"
LockExclusive ==
  \A p \in Proc : Inside(p) => lock /\ \A q \in Proc : Inside(q) => q = p

\* "store/android has to hold exactly what is in boot_a before boot_a is
\* overwritten", and on the medium, not in the page cache: when the first
\* write of a switch may begin, an Android image in boot_a is archived.
ArchivedBeforeOverwrite ==
  \A p \in Proc : pc[p] \in {"open", "write"} /\ ~back[p] /\ bootA \in Android => Archived(bootA)

\* commit_set never gives up the archived set for a replacement that a power
\* loss could still destroy.
ReplacementReady ==
  \A p \in Proc : pc[p] \in {"aside", "place"} =>
     store["new"] \in Android /\ durable["new"] = store["new"] /\ soft = {}

\* "Restored on every exit path": once no switch is past the lock, boot_a and
\* its disk are sealed as they were at boot, unless a flag could not be set or
\* SIGKILL took the process that had opened them.
SealsRestored ==
  up /\ ~excused /\ (\A p \in Proc : pc[p] \in {"idle", "mkdir"}) => ro = BootFlags(os)

\* A switch that reports success, writes state.json or goes on to the reboot
\* has boot_a hold exactly the set it was asked for.
SuccessIsVerified ==
  \A p \in Proc :
    \/ pc[p] \in {"state", "stateOnly", "reboot"}
    \/ /\ pc[p] \in {"exit", "unlock"} /\ held[p] /\ rc[p] = 0
       /\ job[p].cmd \in {"to-ubuntu", "to-android"} /\ job[p].opt # "dry"
    => bootA = store[Target(p)] /\ Usable(Target(p))

\* A complete Android image is in boot_a, or in the archive and on the medium.
AndroidSafe == \E image \in Android \cap Whole : bootA = image \/ Archived(image)

\* No sequence of commands, errors and crashes gives up the last Android image,
\* except in the one step of commit_set that moves the archive aside, with a
\* complete Android image already on the medium to take its place.
AndroidKept ==
  [][AndroidSafe /\ ~AndroidSafe' =>
       \E p \in Proc : /\ pc[p] = "aside" /\ pc'[p] = "place"
                       /\ durable["new"] \in Android \cap Whole]_vars

\* state.json names the set that boot_a holds at the time it is written.
NoteHonest == [][note' # note => bootA = store[note']]_vars

\* "No switch starts without a verified way back".
WayBackVerified ==
  \A p \in Proc : pc[p] = "open" => Usable(WayBack(p))

\* "A second tap on the button must not interleave" with a switch whose reboot
\* is still to come.
NoWriteIntoReboot ==
  halting => \A p \in Proc : pc[p] # "writing"

\* --dry-run "writes nothing at all": no step of a command that was given it
\* changes a flag, boot_a, the store or state.json, whatever runs beside it.
DryRunWritesNothing ==
  [][\A p \in Proc : /\ up /\ up' /\ pc[p] # "idle" /\ job[p].opt = "dry"
                     /\ pc'[p] # pc[p]
                     => UNCHANGED <<bootA, ro, store, note>>]_vars

\* The abstract promise: archive before overwriting, and keep the archive.
SafeArchive == IF \E image \in Android : Archived(image) THEN store["android"] ELSE Absent
Switching == \E p \in Proc : pc[p] \in {"write", "writing", "close", "verify"} \/ (pc[p] = "open" /\ back[p])
Promise == INSTANCE DualBoot WITH boot <- bootA, archive <- SafeArchive, switching <- Switching
KeepsPromise == Promise!Spec

\* A switch to Ubuntu that finds its sets in order, and no reboot on its way, ends
\* with Ubuntu running, unless something fails, is killed, or asks for Android
\* beside it.
NoReboot == ~halting /\ \A p \in Proc : pc[p] # "request"
SwitchArrives ==
  \A p \in Proc :
    /\ At(p, "to-ubuntu") /\ job[p].opt = "reboot"
    /\ Usable("ubuntu") /\ LiveIs("android", bootA) /\ slot = "a" /\ NoReboot
    ~> \/ up /\ os = "ubuntu"
       \/ faults > 0 \/ crashes > 0
       \/ \E q \in Proc : pc[q] # "idle" /\ job[q].cmd = "to-android"

\* Every command that is started ends, whatever fails on the way.
SwitchEnds == \A p \in Proc : pc[p] # "idle" ~> pc[p] = "idle"

=============================================================================
