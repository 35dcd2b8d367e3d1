------------------------------ MODULE Enrolment ------------------------------
(***************************************************************************)
(* device/fingerprint: how an account gets its Gatekeeper identity and its *)
(* one fingerprint.  Two interfaces are installed, one at a time:          *)
(*                                                                         *)
(*   "fprintd"   GNOME Settings asks fprintd, whose driver runs            *)
(*               native_enrol.py (create the identity, enrol, hand the     *)
(*               template to fprintd);                                     *)
(*   "helper"    acceptance.py in a terminal, with user_credentials.py,    *)
(*               acceptance_input.py and enrol_publish.py below it (create *)
(*               the identity, keep the derived input for one use, enrol,  *)
(*               publish, verify three times, enable fprintd), and         *)
(*               user_credentials.py --sync-password.                      *)
(*                                                                         *)
(* Both reach the hardware through native_credentials.py and oem_runtime.py*)
(* (module OemRuntime).  A job is one such chain of processes.  The inner  *)
(* lock of native_credentials.py is taken inside the account's lock and is *)
(* not modelled apart.  Generations number what the trusted application    *)
(* has stored for the account: a handle is good while it carries the last. *)
(***************************************************************************)
EXTENDS OemRuntime

CONSTANTS Fingers,
          MaxStarts,    \* jobs started
          MaxFaults,    \* signals, power losses, failures of a process
          MaxDeletes    \* templates the user deletes in GNOME Settings

ASSUME BoundsAssumption == MaxStarts \in Nat /\ MaxFaults \in Nat /\ MaxDeletes \in Nat
NoFinger == "no finger"
ASSUME FingerAssumption == NoFinger \notin Fingers

VARIABLES interface,   \* which of the two interfaces is installed
          at, job,     \* at[j]: the step of j; job[j]: its variables
          cred, safe,  \* the account's directory: as it is, and as last synced
          ta,          \* the generation the trusted application holds
          asked,       \* how often it was asked for a new identity
          wrote,       \* the last handle a client gave out and nothing has lost
          userLock,    \* user-operation.lock of the account
          storeLock,   \* .operation.lock of the template store
          pending,     \* pending/<user>: the export and its ready marker
          prints,      \* the templates published for the account
          key,         \* the derived input prepared for one use
          desk,        \* acceptance.json, its temporary file, fprintd enabled
          starts, faults, deletes,
          rough,       \* something else than a cancellation has gone wrong
          hungup,      \* a terminal was closed under a running job
          outlived     \* power was lost between the two removals of tidying up

accountVars == <<cred, safe, ta, asked, wrote>>
templateVars == <<pending, prints, key, desk>>
boundVars == <<interface, starts, faults, deletes, rough, hungup, outlived>>
vars == <<runtimeVars, at, job, accountVars, userLock, storeLock, templateVars, boundVars>>

NoJob == [does |-> "none", finger |-> NoFinger, top |-> FALSE, mid |-> FALSE, res |-> 0,
          clean |-> TRUE, temp |-> 0, prev |-> 0, prepared |-> FALSE, input |-> "live"]

Steps == {"idle", "record", "marker", "create", "creating", "link", "sync", "created",
          "capture", "capturing", "copy", "say", "save",
          "credential", "pam", "publish", "authenticate", "mark", "serialize", "expose",
          "tidyDb", "tidyReady", "change", "changing", "replace", "replaced", "changed",
          "verify1", "verify2", "verify3", "verifying1", "verifying2", "verifying3",
          "report", "rename", "enable"}

JobRecord == [does : {"none", "native", "accept", "sync"}, finger : Fingers \cup {NoFinger},
              top : BOOLEAN, mid : BOOLEAN, res : 0..1, clean : BOOLEAN, temp : Nat, prev : Nat,
              prepared : BOOLEAN, input : {"live", "stale"}]
Directory == [params : BOOLEAN, requested : BOOLEAN, handle : Nat, kept : SUBSET Nat]

Types ==
    /\ RuntimeTypeOK
    /\ interface \in {"fprintd", "helper"}
    /\ at \in [Jobs -> Steps]
    /\ job \in [Jobs -> JobRecord]
    /\ cred \in Directory /\ safe \in Directory
    /\ ta \in Nat /\ asked \in Nat /\ wrote \in Nat
    /\ userLock \in Jobs \cup {Nobody} /\ storeLock \in Jobs \cup {Nobody}
    /\ pending \in [db : {"none", "raw", "accepted"}, ready : Fingers \cup {NoFinger}]
    /\ key \in {"none", "live", "stale", "expired"}
    /\ desk \in [accepted : BOOLEAN, temporary : BOOLEAN, enabled : BOOLEAN]
    /\ starts \in 0..MaxStarts /\ faults \in 0..MaxFaults /\ deletes \in 0..MaxDeletes
    /\ rough \in BOOLEAN /\ hungup \in BOOLEAN /\ outlived \in BOOLEAN

(* The values each variable can take; a template is published for a finger  *)
(* and from an export that was there.                                       *)
TypeOK == Types /\ prints \subseteq [finger : Fingers, from : {"raw", "accepted"}]

Init ==
    /\ RuntimeInit
    /\ interface \in {"fprintd", "helper"}
    /\ at = [j \in Jobs |-> "idle"]
    /\ job = [j \in Jobs |-> NoJob]
    /\ cred = [params |-> FALSE, requested |-> FALSE, handle |-> 0, kept |-> {}]
    /\ safe = cred
    /\ ta = 0 /\ asked = 0 /\ wrote = 0
    /\ userLock = Nobody /\ storeLock = Nobody
    /\ pending = [db |-> "none", ready |-> NoFinger]
    /\ prints = {}
    /\ key = "none"
    /\ desk = [accepted |-> FALSE, temporary |-> FALSE, enabled |-> FALSE]
    /\ starts = 0 /\ faults = 0 /\ deletes = 0
    /\ rough = FALSE /\ hungup = FALSE /\ outlived = FALSE
-----------------------------------------------------------------------------
(* Steps of control.  A job that ends closes its lock files.               *)

Goto(j, step) == at' = [at EXCEPT ![j] = step]
Free(lock, j) == IF lock = j THEN Nobody ELSE lock

End(j) ==
    /\ Goto(j, "idle")
    /\ job' = [job EXCEPT ![j] = NoJob]
    /\ rt' = [rt EXCEPT ![j] = NoRun]
    /\ userLock' = Free(userLock, j)
    /\ storeLock' = Free(storeLock, j)

hardware == <<operationLock, firmwarePath, listeners, sensor, client, orphan>>

(* A step that keeps the locks; one that starts oem_runtime.py.            *)
Continue(j, step) ==
    /\ Goto(j, step)
    /\ UNCHANGED <<runtimeVars, job, userLock, storeLock>>

Launch(j, operation, step) ==
    /\ Goto(j, step)
    /\ rt' = [rt EXCEPT ![j] = Launched(operation)]
    /\ UNCHANGED hardware

(* write_exclusive and every directory that is synced: what is there now   *)
(* survives a power loss.                                                  *)
Durable(c) == cred' = c /\ safe' = c
-----------------------------------------------------------------------------
(* native_credentials.py: the create, change and enrol operations, from the *)
(* end of oem_runtime.py to the value returned.  A cancelled process        *)
(* returns 1 whatever its child returned.                                   *)

MidFailed(j) == job[j].mid \/ rt[j].result = 1

(* A temporary file with a handle in it is kept beside the handle when the  *)
(* operation fails; an empty one is removed.                                *)
NoCandidate(j) == {}
Candidate(j) == {job[j].temp} \ {0}

CreateReturns(j) ==
    /\ at[j] = "creating" /\ Over(j)
    /\ LET clean == IF rt[j].line = "clean" THEN job[j].clean ELSE FALSE
       IN IF MidFailed(j) \/ job[j].temp = 0
          THEN /\ Goto(j, "created")
               /\ job' = [job EXCEPT ![j].res = 1, ![j].clean = clean, ![j].temp = 0]
               /\ cred' = [cred EXCEPT !.kept = @ \cup Candidate(j)]
          ELSE /\ Goto(j, "link")
               /\ job' = [job EXCEPT ![j].clean = clean]
               /\ cred' = cred
    /\ UNCHANGED <<runtimeVars, safe, ta, asked, wrote, userLock, storeLock, templateVars, boundVars>>

(* The hard link publishes the handle without replacing one; the directory  *)
(* is synced before success is reported.                                    *)
LinkHandle(j) ==
    /\ at[j] = "link"
    /\ Goto(j, "sync")
    /\ cred' = [cred EXCEPT !.handle = job[j].temp]
    /\ job' = [job EXCEPT ![j].temp = 0]
    /\ UNCHANGED <<runtimeVars, safe, ta, asked, wrote, userLock, storeLock, templateVars, boundVars>>

SyncHandle(j) ==
    /\ at[j] = "sync"
    /\ Goto(j, "created")
    /\ Durable(cred)
    /\ job' = [job EXCEPT ![j].res = 0]
    /\ UNCHANGED <<runtimeVars, ta, asked, wrote, userLock, storeLock, templateVars, boundVars>>

(* --change-input: the new handle is synced, the old one linked beside it   *)
(* and the directory synced before the rename.                              *)
LinkPrevious(j) == [cred EXCEPT !.kept = @ \cup {cred.handle, job[j].temp}]

ChangeReturns(j) ==
    /\ at[j] = "changing" /\ Over(j)
    /\ IF MidFailed(j) \/ job[j].temp = 0
       THEN /\ Goto(j, "changed")
            /\ job' = [job EXCEPT ![j].res = 1, ![j].temp = 0]
            /\ cred' = [cred EXCEPT !.kept = @ \cup Candidate(j)]
            /\ safe' = safe
       ELSE /\ Goto(j, "replace")
            /\ job' = [job EXCEPT ![j].prev = cred.handle]
            /\ Durable(LinkPrevious(j))
    /\ UNCHANGED <<runtimeVars, ta, asked, wrote, userLock, storeLock, templateVars, boundVars>>

ReplaceHandle(j) ==
    /\ at[j] = "replace"
    /\ IF job[j].mid
       THEN /\ Goto(j, "changed")
            /\ job' = [job EXCEPT ![j].res = 1, ![j].temp = 0]
            /\ cred' = cred
       ELSE /\ Goto(j, "replaced")
            /\ job' = [job EXCEPT ![j].temp = 0]
            /\ cred' = [cred EXCEPT !.handle = job[j].temp, !.kept = @ \ {job[j].temp}]
    /\ UNCHANGED <<runtimeVars, safe, ta, asked, wrote, userLock, storeLock, templateVars, boundVars>>

DropPrevious(j) ==
    /\ at[j] = "replaced"
    /\ Goto(j, "changed")
    /\ Durable([cred EXCEPT !.kept = @ \ {job[j].prev}])
    /\ job' = [job EXCEPT ![j].res = 0]
    /\ UNCHANGED <<runtimeVars, ta, asked, wrote, userLock, storeLock, templateVars, boundVars>>
-----------------------------------------------------------------------------
(* native_enrol.py.  A template in the store, an unfinished creation or an  *)
(* incomplete credential is refused before anything is written.             *)

AllIdle == \A j \in Jobs : at[j] = "idle"
CredentialWhole == ~cred.requested /\ (cred.params <=> cred.handle # 0)

StartNative(j, f) ==
    /\ interface = "fprintd" /\ AllIdle /\ starts < MaxStarts
    /\ prints = {}
    /\ CredentialWhole
    /\ Goto(j, IF cred.params /\ cred.handle # 0 THEN "capture" ELSE "record")
    /\ job' = [job EXCEPT ![j].does = "native", ![j].finger = f]
    /\ userLock' = j
    /\ starts' = starts + 1
    /\ UNCHANGED <<runtimeVars, accountVars, storeLock, templateVars,
                   interface, faults, deletes, rough, hungup, outlived>>

(* The random secret, then the marker that a creation may have been asked   *)
(* for: both are synced, file and directory.                                *)
WriteRecord(j) ==
    /\ at[j] = "record"
    /\ IF job[j].top
       THEN End(j) /\ UNCHANGED <<hardware, cred, safe>>
       ELSE Continue(j, "marker") /\ Durable([cred EXCEPT !.params = TRUE])
    /\ UNCHANGED <<ta, asked, wrote, templateVars, boundVars>>

MarkRequested == Durable([cred EXCEPT !.requested = TRUE])

WriteMarker(j) ==
    /\ at[j] = "marker"
    /\ MarkRequested
    /\ Continue(j, "create")
    /\ UNCHANGED <<ta, asked, wrote, templateVars, boundVars>>

(* native_credentials.py --create.  native_enrol.py starts it even when it  *)
(* has been cancelled meanwhile (finish_creation), user_credentials.py does *)
(* not.                                                                     *)
RunCreate(j) ==
    /\ at[j] = "create"
    /\ IF job[j].top /\ job[j].does = "accept"
       THEN End(j) /\ UNCHANGED hardware
       ELSE Launch(j, "create", "creating") /\ UNCHANGED <<job, userLock, storeLock>>
    /\ UNCHANGED <<accountVars, templateVars, boundVars>>

(* The marker goes only when the creation succeeded and was cleaned up.     *)
ClearsMarker(j) == job[j].res = 0 /\ job[j].clean

NativeCreated(j) ==
    /\ at[j] = "created" /\ job[j].does = "native"
    /\ IF ClearsMarker(j)
       THEN Continue(j, "capture") /\ Durable([cred EXCEPT !.requested = FALSE])
       ELSE End(j) /\ UNCHANGED <<hardware, cred, safe>>
    /\ UNCHANGED <<ta, asked, wrote, templateVars, boundVars>>

(* The enrolment itself, for both interfaces; a cancelled caller starts     *)
(* nothing.                                                                 *)
RunEnrol(j) ==
    /\ at[j] = "capture"
    /\ IF job[j].top
       THEN End(j) /\ UNCHANGED hardware
       ELSE /\ Launch(j, "enrol", "capturing")
            /\ job' = [job EXCEPT ![j].mid = FALSE]
            /\ UNCHANGED <<userLock, storeLock>>
    /\ UNCHANGED <<accountVars, templateVars, boundVars>>

(* The database stays private until the runtime has confirmed its cleanup.  *)
NativeAcceptsUncancelled(j) == ~job[j].top
NativeAccepts(j) == ~MidFailed(j) /\ ~job[j].top /\ job[j].clean /\ rt[j].line = "clean"

NativeEnrolled(j) ==
    /\ at[j] = "capturing" /\ Over(j) /\ job[j].does = "native"
    /\ IF NativeAccepts(j) THEN Continue(j, "copy") ELSE End(j) /\ UNCHANGED hardware
    /\ UNCHANGED <<accountVars, templateVars, boundVars>>

(* The copy, with a look at the flag behind it, then the lines main prints; *)
(* the driver takes the database when it has read both and is itself not    *)
(* cancelled, and fprintd saves the template.                               *)
CopyDatabase(j) ==
    /\ at[j] = "copy"
    /\ IF job[j].top THEN End(j) /\ UNCHANGED hardware ELSE Continue(j, "say")
    /\ UNCHANGED <<accountVars, templateVars, boundVars>>

SayOk(j) ==
    /\ at[j] = "say"
    /\ IF job[j].top THEN End(j) /\ UNCHANGED hardware ELSE Continue(j, "save")
    /\ UNCHANGED <<accountVars, templateVars, boundVars>>

FprintdSaves(j) ==
    /\ at[j] = "save"
    /\ prints' = IF job[j].top THEN prints
                 ELSE prints \cup {[finger |-> job[j].finger,
                                    from |-> IF rt[j].result = 0 THEN "accepted" ELSE "raw"]}
    /\ End(j)
    /\ UNCHANGED <<hardware, accountVars, pending, key, desk, boundVars>>

(* The user deletes the template in GNOME Settings (fprintd, external).     *)
DeletePrint ==
    /\ prints # {} /\ deletes < MaxDeletes
    /\ interface = "fprintd" => AllIdle
    /\ interface = "helper" => desk.enabled
    /\ prints' = {}
    /\ deletes' = deletes + 1
    /\ UNCHANGED <<runtimeVars, at, job, accountVars, userLock, storeLock, pending, key, desk,
                   interface, starts, faults, rough, hungup, outlived>>
-----------------------------------------------------------------------------
(* acceptance.py and what it runs.  With a template in the store it goes    *)
(* straight to the verification; an expired prepared input is discarded; a  *)
(* prepared input without a handle is refused.                              *)

StartAccept(j, f) ==
    /\ interface = "helper" /\ at[j] = "idle" /\ starts < MaxStarts
    /\ Cardinality(prints) <= 1
    /\ key' = IF prints = {} /\ key = "expired" THEN "none" ELSE key
    /\ (prints = {} /\ cred.handle = 0) => key' = "none"
    /\ Goto(j, CASE prints # {} -> "verify1"
                 [] prints = {} /\ cred.handle = 0 -> "credential"
                 [] OTHER -> "publish")
    /\ job' = [job EXCEPT ![j].does = "accept", ![j].finger = f]
    /\ starts' = starts + 1
    /\ UNCHANGED <<runtimeVars, accountVars, userLock, storeLock, pending, prints, desk,
                   interface, faults, deletes, rough, hungup, outlived>>

(* user_credentials.py --create-and-prepare-acceptance: one operation of    *)
(* the account at a time, never over a handle or a marker.                  *)
MayCreateUnmarked(j) == ~job[j].top /\ userLock = Nobody /\ cred.handle = 0
MayCreate(j) == ~job[j].top /\ userLock = Nobody /\ cred.handle = 0 /\ ~cred.requested

OpenAccount(j) ==
    /\ at[j] = "credential"
    /\ IF MayCreate(j)
       THEN /\ Goto(j, "pam")
            /\ userLock' = j
            /\ Durable([cred EXCEPT !.params = TRUE])
            /\ UNCHANGED <<runtimeVars, job, storeLock>>
       ELSE End(j) /\ UNCHANGED <<hardware, cred, safe>>
    /\ UNCHANGED <<ta, asked, wrote, templateVars, boundVars>>

(* PAM refuses or the job is cancelled; or the marker is written, synced.   *)
PamRefuses(j) ==
    /\ at[j] = "pam"
    /\ End(j)
    /\ UNCHANGED <<hardware, accountVars, templateVars, boundVars>>

PamAccepts(j) ==
    /\ at[j] = "pam" /\ ~job[j].top
    /\ MarkRequested
    /\ Continue(j, "create")
    /\ UNCHANGED <<ta, asked, wrote, templateVars, boundVars>>

(* The input is kept in the kernel for one use, unless one is there.        *)
PrepareInput(j) ==
    /\ at[j] = "created" /\ job[j].does = "accept"
    /\ IF job[j].res = 1 \/ job[j].top \/ key # "none"
       THEN End(j) /\ key' = key /\ UNCHANGED hardware
       ELSE /\ Goto(j, "publish")
            /\ key' = "live"
            /\ userLock' = Nobody
            /\ UNCHANGED <<runtimeVars, job, storeLock>>
    /\ UNCHANGED <<accountVars, pending, prints, desk, boundVars>>

(* enrol_publish.py: under the lock of the store, one finger per account.   *)
(* An export with the marker of the same enrolment is used again, one       *)
(* without it is refused.                                                   *)
AnyExport(j) == job[j].does = "accept"
UsableExport(j) == pending.ready = job[j].finger

OpenStore(j) ==
    /\ at[j] = "publish"
    /\ IF \/ job[j].top \/ storeLock # Nobody \/ prints # {}
          \/ (pending.db # "none" /\ ~UsableExport(j))
       THEN End(j) /\ UNCHANGED hardware
       ELSE /\ Goto(j, IF pending.db = "none" THEN "authenticate" ELSE "serialize")
            /\ storeLock' = j
            /\ job' = [job EXCEPT ![j].prepared = key # "none"]
            /\ UNCHANGED <<runtimeVars, userLock>>
    /\ UNCHANGED <<accountVars, templateVars, boundVars>>

(* user_credentials.py --enrol, with a password or with the prepared input, *)
(* which is revoked and removed before it is used.                          *)
AuthenticateFails(j) ==
    /\ at[j] = "authenticate"
    /\ \/ ~job[j].prepared
       \/ job[j].top \/ userLock # Nobody \/ cred.handle = 0 \/ key \in {"none", "expired"}
    /\ End(j)
    /\ UNCHANGED <<hardware, accountVars, templateVars, boundVars>>

Authenticate(j) ==
    /\ at[j] = "authenticate"
    /\ ~job[j].top /\ userLock = Nobody /\ cred.handle # 0
    /\ job[j].prepared => key \in {"live", "stale"}
    /\ Goto(j, "capture")
    /\ userLock' = j
    /\ key' = IF job[j].prepared THEN "none" ELSE key
    /\ job' = [job EXCEPT ![j].input = IF job[j].prepared THEN key ELSE "live"]
    /\ UNCHANGED <<runtimeVars, accountVars, storeLock, pending, prints, desk, boundVars>>

(* The export counts as accepted when the whole chain returned 0.           *)
AcceptsUncancelled(j) == ~job[j].top
Accepts(j) == ~MidFailed(j) /\ ~job[j].top

Enrolled(j) ==
    /\ at[j] = "capturing" /\ Over(j) /\ job[j].does = "accept"
    /\ IF Accepts(j)
       THEN /\ Goto(j, "mark")
            /\ userLock' = Nobody
            /\ pending' = [pending EXCEPT !.db = IF rt[j].result = 0 THEN "accepted" ELSE @]
            /\ UNCHANGED <<runtimeVars, job, storeLock>>
       ELSE End(j) /\ pending' = pending /\ UNCHANGED hardware
    /\ UNCHANGED <<accountVars, prints, key, desk, boundVars>>

(* The ready marker is created, never replaced.                             *)
MarkReady(j) ==
    /\ at[j] = "mark"
    /\ IF pending.ready = NoFinger
       THEN Continue(j, "serialize") /\ pending' = [pending EXCEPT !.ready = job[j].finger]
       ELSE End(j) /\ pending' = pending /\ UNCHANGED hardware
    /\ UNCHANGED <<accountVars, prints, key, desk, boundVars>>

Serialize(j) ==
    /\ at[j] = "serialize"
    /\ IF job[j].top THEN End(j) /\ UNCHANGED hardware ELSE Continue(j, "expose")
    /\ UNCHANGED <<accountVars, templateVars, boundVars>>

(* The hard link and the sync of the directory; then the export and its     *)
(* marker are removed, in this order.                                       *)
LinkPrint(j) ==
    /\ at[j] = "expose"
    /\ IF job[j].top
       THEN End(j) /\ prints' = prints /\ UNCHANGED hardware
       ELSE /\ Continue(j, "tidyDb")
            /\ prints' = prints \cup {[finger |-> job[j].finger, from |-> pending.db]}
    /\ UNCHANGED <<accountVars, pending, key, desk, boundVars>>

UnlinkDatabase(j) ==
    /\ at[j] = "tidyDb"
    /\ Continue(j, "tidyReady")
    /\ pending' = [pending EXCEPT !.db = "none"]
    /\ UNCHANGED <<accountVars, prints, key, desk, boundVars>>

UnlinkReady(j) ==
    /\ at[j] = "tidyReady"
    /\ Goto(j, "verify1")
    /\ pending' = [pending EXCEPT !.ready = NoFinger]
    /\ storeLock' = Nobody
    /\ UNCHANGED <<runtimeVars, job, userLock, accountVars, prints, key, desk, boundVars>>

(* verify_once.py, three times: the finger, the finger after the daemon was *)
(* restarted, another finger.  After each, idle().                          *)
Rounds == [verify1 |-> "verifying1", verify2 |-> "verifying2", verify3 |-> "verifying3"]
AfterRound == [verifying1 |-> "verify2", verifying2 |-> "verify3", verifying3 |-> "report"]
Idle == sensor = "off" /\ firmwarePath = "empty" /\ operationLock = Nobody

Verify(j) ==
    /\ at[j] \in DOMAIN Rounds
    /\ IF job[j].top
       THEN End(j) /\ UNCHANGED hardware
       ELSE /\ Launch(j, "match", Rounds[at[j]])
            /\ job' = [job EXCEPT ![j].mid = FALSE]
            /\ UNCHANGED <<userLock, storeLock>>
    /\ UNCHANGED <<accountVars, templateVars, boundVars>>

VerifyFails(j) ==
    /\ at[j] \in DOMAIN AfterRound /\ Over(j)
    /\ End(j)
    /\ UNCHANGED <<hardware, accountVars, templateVars, boundVars>>

VerifyPasses(j) ==
    /\ at[j] \in DOMAIN AfterRound /\ Over(j)
    /\ ~MidFailed(j) /\ rt[j].line = "clean" /\ prints # {} /\ Idle
    /\ Continue(j, AfterRound[at[j]])
    /\ UNCHANGED <<accountVars, templateVars, boundVars>>

(* acceptance.json through a temporary file that must be new; then fprintd  *)
(* is unmasked and started.                                                 *)
WriteReport(j) ==
    /\ at[j] = "report"
    /\ IF Idle /\ ~desk.temporary
       THEN Continue(j, "rename") /\ desk' = [desk EXCEPT !.temporary = TRUE]
       ELSE End(j) /\ desk' = desk /\ UNCHANGED hardware
    /\ UNCHANGED <<accountVars, pending, prints, key, boundVars>>

RenameReport(j) ==
    /\ at[j] = "rename"
    /\ Continue(j, "enable")
    /\ desk' = [desk EXCEPT !.temporary = FALSE, !.accepted = TRUE]
    /\ UNCHANGED <<accountVars, pending, prints, key, boundVars>>

EnableFprintd(j) ==
    /\ at[j] = "enable"
    /\ End(j)
    /\ desk' = IF job[j].top THEN desk ELSE [desk EXCEPT !.enabled = TRUE]
    /\ UNCHANGED <<hardware, accountVars, pending, prints, key, boundVars>>

(* acceptance.py --recover stops the daemon, masks fprintd and discards the *)
(* prepared input; a verification under way is stopped with the daemon.     *)
Recover ==
    /\ interface = "helper" /\ starts < MaxStarts
    /\ starts' = starts + 1
    /\ desk' = [desk EXCEPT !.enabled = FALSE]
    /\ key' = "none"
    /\ job' = [j \in Jobs |-> IF at[j] \in DOMAIN AfterRound
                              THEN [job[j] EXCEPT !.mid = TRUE] ELSE job[j]]
    /\ UNCHANGED <<runtimeVars, at, accountVars, userLock, storeLock, pending, prints,
                   interface, faults, deletes, rough, hungup, outlived>>
-----------------------------------------------------------------------------
(* user_credentials.py --sync-password: both passwords are asked for, the   *)
(* handle is changed, and a prepared input is discarded when that is        *)
(* reported as done.                                                        *)

StartSync(j) ==
    /\ interface = "helper" /\ at[j] = "idle" /\ starts < MaxStarts
    /\ userLock = Nobody /\ cred.handle # 0
    /\ Goto(j, "change")
    /\ job' = [job EXCEPT ![j].does = "sync"]
    /\ userLock' = j
    /\ starts' = starts + 1
    /\ UNCHANGED <<runtimeVars, accountVars, storeLock, templateVars,
                   interface, faults, deletes, rough, hungup, outlived>>

RunChange(j) ==
    /\ at[j] = "change"
    /\ IF job[j].top
       THEN End(j) /\ UNCHANGED hardware
       ELSE Launch(j, "change", "changing") /\ UNCHANGED <<job, userLock, storeLock>>
    /\ UNCHANGED <<accountVars, templateVars, boundVars>>

Changed(j) ==
    /\ at[j] = "changed"
    /\ key' = IF job[j].res = 0 /\ ~job[j].top THEN "none" ELSE key
    /\ End(j)
    /\ UNCHANGED <<hardware, accountVars, pending, prints, desk, boundVars>>
-----------------------------------------------------------------------------
(* The clients in the secure world (external).  A creation adds an identity,*)
(* a change replaces the input of the one the handle names; a stale handle  *)
(* or a stale input is rejected.                                            *)

Admitted(operation, input) ==
    CASE operation = "change" -> cred.handle = ta
      [] operation = "enrol" -> cred.handle = ta /\ input = "live"
      [] OTHER -> TRUE

Commits(operation) ==
    /\ ta' = IF operation \in {"create", "change"} THEN ta + 1 ELSE ta
    /\ asked' = IF operation = "create" THEN asked + 1 ELSE asked
    /\ key' = IF operation = "change" /\ key = "live" THEN "stale" ELSE key
    /\ UNCHANGED <<cred, safe, wrote, pending, prints, desk>>

ClientCommits(j) ==
    /\ Admitted(rt[j].does, job[j].input)
    /\ ClientStep(j, "begun", "committed")
    /\ Commits(rt[j].does)
    /\ UNCHANGED <<at, job, userLock, storeLock, boundVars>>

(* The handle goes to the temporary file, the template to a file that must  *)
(* be new.                                                                  *)
Exports(operation) ==
    IF operation = "enrol" /\ interface = "helper"
    THEN pending.db = "none" /\ pending' = [pending EXCEPT !.db = "raw"]
    ELSE pending' = pending

ClientWrites(j) ==
    /\ ClientStep(j, "committed", "wrote")
    /\ Exports(rt[j].does)
    /\ IF rt[j].does \in {"create", "change"}
       THEN job' = [job EXCEPT ![j].temp = ta] /\ wrote' = ta
       ELSE UNCHANGED <<job, wrote>>
    /\ UNCHANGED <<at, cred, safe, ta, asked, userLock, storeLock, prints, key, desk, boundVars>>

(* An orphan goes on; the file it writes its handle to has been removed.    *)
OrphanMoves ==
    \/ /\ OrphanStep("begun", "committed")
       /\ Admitted(orphan.does, "live")
       /\ Commits(orphan.does)
       /\ UNCHANGED <<at, job, userLock, storeLock, boundVars>>
    \/ /\ OrphanStep("committed", "wrote")
       /\ Exports(orphan.does)
       /\ UNCHANGED <<at, job, userLock, storeLock, accountVars, prints, key, desk, boundVars>>
    \/ /\ \E stage \in Stages \ {"none"} : OrphanStep(stage, "none")
       /\ UNCHANGED <<at, job, userLock, storeLock, accountVars, templateVars, boundVars>>

(* The steps of oem_runtime.py change nothing but its own state.            *)
Runtime(j) ==
    \/ operationLock # Nobody /\ Refused(j)
    \/ TakeLock(j)
    \/ (job[j].mid \/ listeners # {j}) /\ NotReady(j)
    \/ StartClient(j)
    \/ ClientExits(j, 0)
    \/ /\ \/ client[j] = "begun" /\ ~Admitted(rt[j].does, job[j].input)
          \/ client[j] = "committed" /\ rt[j].does = "enrol" /\ pending.db # "none"
       /\ ClientExits(j, 1)
    \/ job[j].mid /\ StopClient(j, "off")
    \/ Cleanup(j)

RuntimeStep(j) ==
    /\ Runtime(j)
    /\ UNCHANGED <<at, job, accountVars, userLock, storeLock, templateVars, boundVars>>
-----------------------------------------------------------------------------
(* What can go wrong, MaxFaults times.                                      *)

Fault == faults < MaxFaults /\ faults' = faults + 1
RoughFault == Fault /\ rough' = TRUE
otherBounds == <<interface, starts, deletes>>

(* A refusal, a listener that does not come up or does not go away, a       *)
(* client that fails, meets its deadline or has to be killed.               *)
RuntimeFails(j) ==
    /\ RoughFault
    /\ \/ Refused(j)
       \/ NotReady(j)
       \/ ClientExits(j, 1)
       \/ \E power \in {"off", "on"} : StopClient(j, power)
       \/ CleanupRaises(j)
    /\ UNCHANGED <<at, job, accountVars, userLock, storeLock, templateVars,
                   otherBounds, hungup, outlived>>

SerializeFails(j) ==
    /\ at[j] = "serialize"
    /\ RoughFault
    /\ End(j)
    /\ UNCHANGED <<hardware, accountVars, templateVars, otherBounds, hungup, outlived>>

(* SIGTERM or SIGINT at the outermost program, which passes it on as long   *)
(* as its child lives; native_enrol.py does not while it creates.  Stopping *)
(* the service signals every process of the job at once.                    *)
Cancel(j) ==
    /\ at[j] # "idle" /\ ~job[j].top
    /\ Fault
    /\ job' = [job EXCEPT ![j].top = TRUE]
    /\ UNCHANGED <<runtimeVars, at, accountVars, userLock, storeLock, templateVars,
                   otherBounds, rough, hungup, outlived>>

ChildLives(j) == at[j] \in {"creating", "link", "sync", "changing", "replace", "replaced",
                            "capturing"} \cup DOMAIN AfterRound
Unshielded(j) == job[j].does = "none"
Shielded(j) == job[j].does = "native" /\ at[j] \in {"creating", "link", "sync"}

PassOn(j) ==
    /\ job[j].top /\ ~job[j].mid /\ ChildLives(j) /\ ~Shielded(j)
    /\ job' = [job EXCEPT ![j].mid = TRUE]
    /\ UNCHANGED <<runtimeVars, at, accountVars, userLock, storeLock, templateVars, boundVars>>

StopService(j) ==
    /\ interface = "fprintd" /\ ChildLives(j) /\ ~job[j].mid
    /\ RoughFault
    /\ job' = [job EXCEPT ![j].top = TRUE, ![j].mid = TRUE]
    /\ UNCHANGED <<runtimeVars, at, accountVars, userLock, storeLock, templateVars,
                   otherBounds, hungup, outlived>>

(* The terminal is closed: SIGHUP to the whole foreground group.            *)
CloseTerminal(j) ==
    /\ interface = "helper" /\ at[j] \in {"creating", "changing", "capturing"}
    /\ HungUp(j)
    /\ RoughFault
    /\ job' = [job EXCEPT ![j].top = TRUE, ![j].mid = TRUE]
    /\ hungup' = TRUE
    /\ UNCHANGED <<at, accountVars, userLock, storeLock, templateVars, otherBounds, outlived>>

(* Everything in memory and under /run is gone; of the account's directory  *)
(* what was synced remains, and what was not may.                           *)
PowerLoss ==
    /\ RoughFault
    /\ ~AllIdle \/ ~HardwareIdle \/ key # "none"
    /\ RuntimeGone
    /\ at' = [j \in Jobs |-> "idle"]
    /\ job' = [j \in Jobs |-> NoJob]
    /\ cred' \in {cred, safe}
    /\ safe' = cred'
    /\ wrote' = IF wrote \in {cred'.handle} \cup cred'.kept THEN wrote ELSE 0
    /\ userLock' = Nobody /\ storeLock' = Nobody
    /\ key' = "none"
    /\ hungup' = FALSE
    /\ outlived' = (outlived \/ \E j \in Jobs : at[j] = "tidyReady")
    /\ UNCHANGED <<ta, asked, pending, prints, desk, otherBounds>>

(* Eighteen hours pass.                                                     *)
KeyExpires ==
    /\ key \in {"live", "stale"}
    /\ key' = "expired"
    /\ UNCHANGED <<runtimeVars, at, job, accountVars, userLock, storeLock, pending, prints, desk,
                   boundVars>>
-----------------------------------------------------------------------------
Start(j) == (\E f \in Fingers : StartNative(j, f) \/ StartAccept(j, f)) \/ StartSync(j)

Native(j) ==
    \/ WriteRecord(j) \/ WriteMarker(j) \/ NativeCreated(j) \/ NativeEnrolled(j)
    \/ CopyDatabase(j) \/ SayOk(j) \/ FprintdSaves(j)

Credentials(j) ==
    \/ RunCreate(j) \/ CreateReturns(j) \/ LinkHandle(j) \/ SyncHandle(j) \/ RunEnrol(j)
    \/ RunChange(j) \/ ChangeReturns(j) \/ ReplaceHandle(j) \/ DropPrevious(j) \/ Changed(j)

Acceptance(j) ==
    \/ OpenAccount(j) \/ PamRefuses(j) \/ PamAccepts(j) \/ PrepareInput(j) \/ OpenStore(j)
    \/ AuthenticateFails(j) \/ Authenticate(j) \/ Enrolled(j) \/ MarkReady(j) \/ Serialize(j)
    \/ LinkPrint(j) \/ UnlinkDatabase(j) \/ UnlinkReady(j)
    \/ Verify(j) \/ VerifyFails(j) \/ VerifyPasses(j)
    \/ WriteReport(j) \/ RenameReport(j) \/ EnableFprintd(j)

Clients(j) == RuntimeStep(j) \/ ClientCommits(j) \/ ClientWrites(j)

Works(j) == Native(j) \/ Credentials(j) \/ Acceptance(j) \/ Clients(j) \/ PassOn(j)

Faults == PowerLoss \/ \E j \in Jobs : RuntimeFails(j) \/ SerializeFails(j) \/ Cancel(j)
                                       \/ StopService(j) \/ CloseTerminal(j)

(* Nothing is running: the machine may stay so.                             *)
Rest == AllIdle /\ UNCHANGED vars

Next ==
    \/ \E j \in Jobs : Start(j) \/ Works(j)
    \/ OrphanMoves \/ DeletePrint \/ Recover \/ KeyExpires \/ Faults \/ Rest

Spec == Init /\ [][Next]_vars
-----------------------------------------------------------------------------
(* The secure world is asked for a new identity at most once for an account,*)
(* over every cancellation, failure, retry and power loss: create.requested *)
(* is durable before the request and goes only when the handle is.          *)
AskedOnce == asked <= 1

(* A handle a client has given out is still on the disk, published or kept  *)
(* as a candidate or in the temporary file of a running job: no failure,    *)
(* cancellation or, once it was synced, power loss drops the only way to    *)
(* the identity.                                                            *)
HandleKept ==
    wrote # 0 => wrote \in {cred.handle} \cup cred.kept \cup {job[j].temp : j \in Jobs}

(* The account has at most one template, and it comes from an enrolment     *)
(* whose chain returned 0 with the runtime clean; the exception is a ready  *)
(* marker that has outlived its export by a power loss in enrol_publish.py, *)
(* which vouches for the next export whatever became of it.                 *)
PrintIsAccepted ==
    /\ Cardinality(prints) <= 1
    /\ outlived \/ \A p \in prints : p.from = "accepted"

(* A client or listener belongs to the job that holds operation.lock; while *)
(* nobody holds it the search path is as the first run found it, and no     *)
(* client is alone at the sensor, unless a terminal was closed              *)
(* (oem_runtime.py does not handle SIGHUP).                                 *)
HardwareAlone ==
    /\ \A j \in Jobs : (client[j] # "none" \/ j \in listeners) => operationLock = j
    /\ hungup \/ (orphan = NoOrphan /\ (operationLock = Nobody => firmwarePath = "empty"))

(* When native_enrol.py says OK, and fprintd is about to store the template,*)
(* the sensor is off, the path restored and no client or listener is left.  *)
OkIsClean == \A j \in Jobs : at[j] = "save" => HardwareIdle

(* Jobs that nothing disturbed, and enrolments in GNOME Settings that were  *)
(* only cancelled, leave nothing that a later one would refuse: no marker   *)
(* without its handle, no candidate, no export, no handle older than what   *)
(* the secure world holds, however two jobs were interleaved.               *)
Undisturbed == faults = 0 \/ (interface = "fprintd" /\ ~rough)

NothingLeft ==
    (AllIdle /\ Undisturbed) =>
        /\ cred.requested => (cred.handle # 0 /\ interface = "helper")
        /\ interface = "fprintd" => CredentialWhole
        /\ cred.kept = {}
        /\ cred.handle = ta
        /\ pending = [db |-> "none", ready |-> NoFinger]
        /\ HardwareIdle
=============================================================================
