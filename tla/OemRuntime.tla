----------------------------- MODULE OemRuntime -----------------------------
(***************************************************************************)
(* device/fingerprint: oem_runtime.py, the one program that owns the       *)
(* fingerprint sensor, the two or three listeners of the secure world and  *)
(* the kernel's firmware search path, and authorize_oem.py, the client it  *)
(* starts when a finger is enrolled.                                       *)
(*                                                                         *)
(* Every job that needs the hardware runs its own copy of the program; the *)
(* lock file operation.lock admits one.  The clients (fpc_build_info and   *)
(* qsee-gatekeeper, C) are external: they begin, commit in the secure      *)
(* world or switch the sensor on, write their output, and exit.            *)
(***************************************************************************)
EXTENDS Naturals, FiniteSets

CONSTANTS Jobs,     \* the chains of processes that may run at the same time
          Nobody    \* no job: the lock is free, or the process is an orphan

ASSUME NobodyAssumption == Nobody \notin Jobs

VARIABLES operationLock,   \* who holds /run/liuqin-fpc-oem-runtime/operation.lock
          firmwarePath,    \* /sys/module/firmware_class/parameters/path
          listeners,       \* the owners of the listener processes alive
          sensor,          \* the power state the SPI driver shows
          client,          \* client[j]: how far the client of j has come
          orphan,          \* the client of a runtime that was killed
          rt               \* rt[j]: the run of oem_runtime.py that j waits for

runtimeVars == <<operationLock, firmwarePath, listeners, sensor, client, orphan, rt>>

Stages == {"none", "begun", "committed", "wrote"}
Operations == {"create", "change", "enrol", "match"}
Fresh(state, operation) ==
    [at |-> state, does |-> operation, old |-> "empty", result |-> 1, line |-> "none"]
NoRun == Fresh("none", "match")
NoOrphan == [stage |-> "none", does |-> "match"]
RunRecord == [at : {"none", "start", "ready", "client", "cleanup", "over"},
              does : Operations, old : {"empty", "bundle"},
              result : 0..1, line : {"none", "clean", "dirty"}]

RuntimeTypeOK ==
    /\ operationLock \in Jobs \cup {Nobody}
    /\ firmwarePath \in {"empty", "bundle"}
    /\ listeners \subseteq Jobs \cup {Nobody}
    /\ sensor \in {"off", "on"}
    /\ client \in [Jobs -> Stages]
    /\ orphan \in [stage : Stages, does : Operations]
    /\ rt \in [Jobs -> RunRecord]

RuntimeInit ==
    /\ operationLock = Nobody
    /\ firmwarePath = "empty"
    /\ listeners = {}
    /\ sensor = "off"
    /\ client = [j \in Jobs |-> "none"]
    /\ orphan = NoOrphan
    /\ rt = [j \in Jobs |-> NoRun]

(* Power is lost: nothing of it is left.                                   *)
RuntimeGone ==
    /\ operationLock' = Nobody
    /\ firmwarePath' = "empty"
    /\ listeners' = {}
    /\ sensor' = "off"
    /\ client' = [j \in Jobs |-> "none"]
    /\ orphan' = NoOrphan
    /\ rt' = [j \in Jobs |-> NoRun]

(* The caller starts the program, and looks at it again when it is over.   *)
Launched(operation) == Fresh("start", operation)
Over(j) == rt[j].at = "over"

(* The arguments, the bundle or the firmware digests do not hold, or        *)
(* another run has the lock (BUSY): nothing was touched, no cleanup line.  *)
Refused(j) ==
    /\ rt[j].at = "start"
    /\ rt' = [rt EXCEPT ![j].at = "over"]
    /\ UNCHANGED <<operationLock, firmwarePath, listeners, sensor, client, orphan>>

(* The lock is taken, the present search path is remembered and the        *)
(* listener is started.                                                    *)
LockIgnored == operationLock \in Jobs \cup {Nobody}
LockFree == operationLock = Nobody

TakeLock(j) ==
    /\ rt[j].at = "start"
    /\ LockFree
    /\ operationLock' = j
    /\ listeners' = listeners \cup {j}
    /\ rt' = [rt EXCEPT ![j].at = "ready", ![j].old = firmwarePath]
    /\ UNCHANGED <<firmwarePath, sensor, client, orphan>>

(* The listener died, was not registered within four seconds, or the run   *)
(* was cancelled before.                                                   *)
NotReady(j) ==
    /\ rt[j].at = "ready"
    /\ listeners' \in {listeners, listeners \ {j}}
    /\ rt' = [rt EXCEPT ![j].at = "cleanup", ![j].result = 1]
    /\ UNCHANGED <<operationLock, firmwarePath, sensor, client, orphan>>

(* The listeners are registered (the secure world knows each listener      *)
(* once: not while an older process still holds them), the search path is  *)
(* set and the client starts in a session of its own.                      *)
StartClient(j) ==
    /\ rt[j].at = "ready"
    /\ listeners = {j}
    /\ firmwarePath' = "bundle"
    /\ client' = [client EXCEPT ![j] = "begun"]
    /\ rt' = [rt EXCEPT ![j].at = "client"]
    /\ UNCHANGED <<operationLock, listeners, sensor, orphan>>

(* What a client does to the sensor when it commits and when it has         *)
(* written its output; only the fingerprint clients power it.              *)
Powers(operation) == operation \in {"enrol", "match"}
SensorAfter(operation, stage) ==
    IF Powers(operation) THEN IF stage = "committed" THEN "on" ELSE "off" ELSE sensor

ClientStep(j, from, to) ==
    /\ rt[j].at = "client"
    /\ client[j] = from
    /\ client' = [client EXCEPT ![j] = to]
    /\ sensor' = SensorAfter(rt[j].does, to)
    /\ UNCHANGED <<operationLock, firmwarePath, listeners, orphan, rt>>

OrphanStep(from, to) ==
    /\ orphan.stage = from
    /\ orphan' = IF to = "none" THEN NoOrphan ELSE [orphan EXCEPT !.stage = to]
    /\ sensor' = SensorAfter(orphan.does, to)
    /\ UNCHANGED <<operationLock, firmwarePath, listeners, client, rt>>

(* The client exits by itself.  authorize_oem.py returns 0 only when it was *)
(* not cancelled and both its processes returned 0; the fingerprint client *)
(* switches the sensor off on every path.                                  *)
ClientExits(j, status) ==
    /\ rt[j].at = "client"
    /\ status = 0 => client[j] = "wrote"
    /\ client' = [client EXCEPT ![j] = "none"]
    /\ sensor' = IF Powers(rt[j].does) THEN "off" ELSE sensor
    /\ rt' = [rt EXCEPT ![j].at = "cleanup", ![j].result = status]
    /\ UNCHANGED <<operationLock, firmwarePath, listeners, orphan>>

(* Cancelled, or at the deadline: SIGTERM to the group of the client, and   *)
(* SIGKILL after five seconds, which may leave the sensor powered.         *)
StopClient(j, power) ==
    /\ rt[j].at = "client"
    /\ power \in {"off", sensor}
    /\ sensor' = IF Powers(rt[j].does) THEN power ELSE sensor
    /\ client' = [client EXCEPT ![j] = "none"]
    /\ rt' = [rt EXCEPT ![j].at = "cleanup", ![j].result = 1]
    /\ UNCHANGED <<operationLock, firmwarePath, listeners, orphan>>

(* The finally block: path, listener, then the line that says what was     *)
(* found; a sensor that still has power makes the run fail.  The lock file *)
(* is closed last.                                                         *)
SaysClean(j) == sensor = "off"

Cleanup(j) ==
    /\ rt[j].at = "cleanup"
    /\ firmwarePath' = rt[j].old
    /\ listeners' = listeners \ {j}
    /\ operationLock' = Nobody
    /\ rt' = [rt EXCEPT ![j].at = "over",
                        ![j].line = IF SaysClean(j) THEN "clean" ELSE "dirty",
                        ![j].result = IF SaysClean(j) THEN @ ELSE 1]
    /\ UNCHANGED <<sensor, client, orphan>>

(* The listener outlives SIGKILL by three seconds: the second wait raises, *)
(* the program ends without its line and leaves the process behind.        *)
CleanupRaises(j) ==
    /\ rt[j].at = "cleanup"
    /\ j \in listeners
    /\ firmwarePath' = rt[j].old
    /\ listeners' = (listeners \ {j}) \cup {Nobody}
    /\ operationLock' = Nobody
    /\ rt' = [rt EXCEPT ![j].at = "over", ![j].result = 1]
    /\ UNCHANGED <<sensor, client, orphan>>

(* SIGHUP, which the program does not handle: it is gone without cleanup,  *)
(* the kernel frees its lock, the client in its own session lives on and   *)
(* the listener may.                                                       *)
HungUp(j) ==
    /\ rt[j].at \in {"start", "ready", "client", "cleanup"}
    /\ operationLock' = IF operationLock = j THEN Nobody ELSE operationLock
    /\ listeners' \in {listeners \ {j},
                       IF j \in listeners THEN (listeners \ {j}) \cup {Nobody} ELSE listeners}
    /\ client[j] # "none" => orphan = NoOrphan
    /\ orphan' = IF client[j] = "none" THEN orphan
                 ELSE [stage |-> client[j], does |-> rt[j].does]
    /\ client' = [client EXCEPT ![j] = "none"]
    /\ rt' = [rt EXCEPT ![j].at = "over", ![j].result = 1]
    /\ UNCHANGED <<firmwarePath, sensor>>

(* The hardware is back in the state it had before the first run.          *)
HardwareIdle ==
    /\ firmwarePath = "empty"
    /\ listeners = {}
    /\ sensor = "off"
    /\ \A j \in Jobs : client[j] = "none"
    /\ orphan = NoOrphan
=============================================================================
