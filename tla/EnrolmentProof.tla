---------------------------- MODULE EnrolmentProof ----------------------------
(* One identity, one handle, one user of the sensor, for any number of jobs, *)
(* fingers, starts, faults and deletions.                                    *)
EXTENDS Enrolment, FiniteSetTheorems, TLAPS

(* The records.  A step that sets several fields sets them one by one.       *)

LEMMA NoRecords == NoJob \in JobRecord /\ NoRun \in RunRecord
  BY DEF NoJob, JobRecord, NoRun, Fresh, RunRecord, Operations

LEMMA OneJob ==
  ASSUME NEW S, NEW g \in [Jobs -> S], NEW j \in Jobs, NEW r \in S
  PROVE  [g EXCEPT ![j] = r] \in [Jobs -> S]
  OBVIOUS

LEMMA JobFlags ==
  ASSUME NEW r \in JobRecord, NEW b \in BOOLEAN
  PROVE  /\ [r EXCEPT !.mid = b] \in JobRecord
         /\ [r EXCEPT !.top = b] \in JobRecord
         /\ [r EXCEPT !.prepared = b] \in JobRecord
  BY DEF JobRecord

LEMMA JobRestarts ==
  ASSUME NEW g \in [Jobs -> JobRecord], NEW j \in Jobs
  PROVE  [g EXCEPT ![j].mid = FALSE] \in [Jobs -> JobRecord]
<1>1. [g[j] EXCEPT !.mid = FALSE] \in JobRecord
  BY JobFlags
<1>2. QED  BY <1>1, OneJob

LEMMA JobPrepares ==
  ASSUME NEW g \in [Jobs -> JobRecord], NEW j \in Jobs, NEW b \in BOOLEAN
  PROVE  [g EXCEPT ![j].prepared = b] \in [Jobs -> JobRecord]
<1>1. [g[j] EXCEPT !.prepared = b] \in JobRecord
  BY JobFlags
<1>2. QED  BY <1>1, OneJob

LEMMA JobStops ==
  ASSUME NEW g \in [Jobs -> JobRecord], NEW j \in Jobs
  PROVE  /\ [g EXCEPT ![j].top = TRUE] \in [Jobs -> JobRecord]
         /\ [g EXCEPT ![j].mid = TRUE] \in [Jobs -> JobRecord]
         /\ [g EXCEPT ![j].top = TRUE, ![j].mid = TRUE] \in [Jobs -> JobRecord]
<1>1. [g EXCEPT ![j].top = TRUE, ![j].mid = TRUE] = [[g EXCEPT ![j].top = TRUE] EXCEPT ![j].mid = TRUE]
  BY DEF JobRecord
<1>2. \A h \in [Jobs -> JobRecord] : [h EXCEPT ![j].top = TRUE] \in [Jobs -> JobRecord]
  <2>1. \A h \in [Jobs -> JobRecord] : [h[j] EXCEPT !.top = TRUE] \in JobRecord
    BY JobFlags
  <2>2. QED  BY <2>1, OneJob
<1>3. \A h \in [Jobs -> JobRecord] : [h EXCEPT ![j].mid = TRUE] \in [Jobs -> JobRecord]
  <2>1. \A h \in [Jobs -> JobRecord] : [h[j] EXCEPT !.mid = TRUE] \in JobRecord
    BY JobFlags
  <2>2. QED  BY <2>1, OneJob
<1>4. QED  BY <1>1, <1>2, <1>3

LEMMA JobStarts ==
  ASSUME NEW g \in [Jobs -> JobRecord], NEW j \in Jobs, NEW x \in {"native", "accept"}, NEW f \in Fingers
  PROVE  [g EXCEPT ![j].does = x, ![j].finger = f] \in [Jobs -> JobRecord]
<1>1. [g EXCEPT ![j].does = x, ![j].finger = f] = [[g EXCEPT ![j].does = x] EXCEPT ![j].finger = f]
  BY DEF JobRecord
<1>2. \A h \in [Jobs -> JobRecord] : /\ [h EXCEPT ![j].does = x] \in [Jobs -> JobRecord]
                                    /\ [h EXCEPT ![j].finger = f] \in [Jobs -> JobRecord]
  BY DEF JobRecord
<1>3. QED  BY <1>1, <1>2

LEMMA JobFails ==
  ASSUME NEW g \in [Jobs -> JobRecord], NEW j \in Jobs
  PROVE  [g EXCEPT ![j].res = 1, ![j].temp = 0] \in [Jobs -> JobRecord]
<1>1. [g EXCEPT ![j].res = 1, ![j].temp = 0] = [[g EXCEPT ![j].res = 1] EXCEPT ![j].temp = 0]
  BY DEF JobRecord
<1>2. \A h \in [Jobs -> JobRecord] : /\ [h EXCEPT ![j].res = 1] \in [Jobs -> JobRecord]
                                    /\ [h EXCEPT ![j].temp = 0] \in [Jobs -> JobRecord]
  BY DEF JobRecord
<1>3. QED  BY <1>1, <1>2

LEMMA JobFailsUnclean ==
  ASSUME NEW g \in [Jobs -> JobRecord], NEW j \in Jobs, NEW b \in BOOLEAN
  PROVE  [g EXCEPT ![j].res = 1, ![j].clean = b, ![j].temp = 0] \in [Jobs -> JobRecord]
<1>1. [g EXCEPT ![j].res = 1, ![j].clean = b, ![j].temp = 0]
        = [[g EXCEPT ![j].clean = b] EXCEPT ![j].res = 1, ![j].temp = 0]
  BY DEF JobRecord
<1>2. [g EXCEPT ![j].clean = b] \in [Jobs -> JobRecord]
  BY DEF JobRecord
<1>3. QED  BY <1>1, <1>2, JobFails

LEMMA RunFails ==
  ASSUME NEW g \in [Jobs -> RunRecord], NEW j \in Jobs
  PROVE  /\ [g EXCEPT ![j].at = "over", ![j].result = 1] \in [Jobs -> RunRecord]
         /\ [g EXCEPT ![j].at = "cleanup", ![j].result = 1] \in [Jobs -> RunRecord]
<1>1. /\ [g EXCEPT ![j].at = "over", ![j].result = 1] = [[g EXCEPT ![j].at = "over"] EXCEPT ![j].result = 1]
      /\ [g EXCEPT ![j].at = "cleanup", ![j].result = 1] = [[g EXCEPT ![j].at = "cleanup"] EXCEPT ![j].result = 1]
  BY DEF RunRecord
<1>2. \A h \in [Jobs -> RunRecord] : /\ [h EXCEPT ![j].at = "over"] \in [Jobs -> RunRecord]
                                    /\ [h EXCEPT ![j].at = "cleanup"] \in [Jobs -> RunRecord]
                                    /\ [h EXCEPT ![j].result = 1] \in [Jobs -> RunRecord]
  BY DEF RunRecord
<1>3. QED  BY <1>1, <1>2

LEMMA RunEnds ==
  ASSUME NEW g \in [Jobs -> RunRecord], NEW j \in Jobs, NEW n \in 0..1
  PROVE  /\ [g EXCEPT ![j].at = "over", ![j].result = n] \in [Jobs -> RunRecord]
         /\ [g EXCEPT ![j].at = "cleanup", ![j].result = n] \in [Jobs -> RunRecord]
<1>1. /\ [g EXCEPT ![j].at = "over", ![j].result = n] = [[g EXCEPT ![j].at = "over"] EXCEPT ![j].result = n]
      /\ [g EXCEPT ![j].at = "cleanup", ![j].result = n] = [[g EXCEPT ![j].at = "cleanup"] EXCEPT ![j].result = n]
  BY DEF RunRecord
<1>2. \A h \in [Jobs -> RunRecord] : /\ [h EXCEPT ![j].at = "over"] \in [Jobs -> RunRecord]
                                    /\ [h EXCEPT ![j].at = "cleanup"] \in [Jobs -> RunRecord]
                                    /\ [h EXCEPT ![j].result = n] \in [Jobs -> RunRecord]
  BY DEF RunRecord
<1>3. QED  BY <1>1, <1>2

LEMMA RunBegins ==
  ASSUME NEW g \in [Jobs -> RunRecord], NEW j \in Jobs, NEW x \in {"empty", "bundle"}
  PROVE  [g EXCEPT ![j].at = "ready", ![j].old = x] \in [Jobs -> RunRecord]
<1>1. [g EXCEPT ![j].at = "ready", ![j].old = x] = [[g EXCEPT ![j].at = "ready"] EXCEPT ![j].old = x]
  BY DEF RunRecord
<1>2. \A h \in [Jobs -> RunRecord] : /\ [h EXCEPT ![j].at = "ready"] \in [Jobs -> RunRecord]
                                    /\ [h EXCEPT ![j].old = x] \in [Jobs -> RunRecord]
  BY DEF RunRecord
<1>3. QED  BY <1>1, <1>2

LEMMA RunCleans ==
  ASSUME NEW g \in [Jobs -> RunRecord], NEW j \in Jobs, NEW x \in {"clean", "dirty"}, NEW n \in 0..1
  PROVE  [g EXCEPT ![j].at = "over", ![j].line = x, ![j].result = n] \in [Jobs -> RunRecord]
<1>1. [g EXCEPT ![j].at = "over", ![j].line = x, ![j].result = n]
        = [[g EXCEPT ![j].line = x] EXCEPT ![j].at = "over", ![j].result = n]
  BY DEF RunRecord
<1>2. [g EXCEPT ![j].line = x] \in [Jobs -> RunRecord]
  BY DEF RunRecord
<1>3. QED  BY <1>1, <1>2, RunEnds

LEMMA EndTyped ==
  ASSUME Types, NEW j \in Jobs, End(j)
  PROVE  /\ at' \in [Jobs -> Steps] /\ job' \in [Jobs -> JobRecord] /\ rt' \in [Jobs -> RunRecord]
         /\ userLock' \in Jobs \cup {Nobody} /\ storeLock' \in Jobs \cup {Nobody}
  BY NoRecords DEF End, Goto, Free, Types, RuntimeTypeOK, Steps

-----------------------------------------------------------------------------
(* The types: one lemma for the variables of each kind, one step for the     *)
(* actions that are alike.                                                   *)

\* The steps, sorted.
LEMMA StepCases ==
  ASSUME [Next]_vars
  PROVE  \/ \E j \in Jobs : Start(j)
         \/ \E j \in Jobs : Native(j)
         \/ \E j \in Jobs : Credentials(j)
         \/ \E j \in Jobs : Acceptance(j)
         \/ \E j \in Jobs : Clients(j) \/ PassOn(j)
         \/ \E j \in Jobs : \/ RuntimeFails(j) \/ SerializeFails(j) \/ Cancel(j)
                             \/ StopService(j) \/ CloseTerminal(j)
         \/ PowerLoss \/ Recover \/ OrphanMoves \/ DeletePrint \/ KeyExpires \/ Rest \/ UNCHANGED vars
  BY DEF Next, Works, Faults

LEMMA JobTyped ==
  ASSUME Types, [Next]_vars
  PROVE  job' \in [Jobs -> JobRecord]
<1> USE DEF Types
<1>1. ASSUME NEW j \in Jobs, Start(j)  PROVE job' \in [Jobs -> JobRecord]
  <2>1. ASSUME NEW f \in Fingers, StartNative(j, f) \/ StartAccept(j, f)  PROVE job' \in [Jobs -> JobRecord]
    <3>1. /\ [job EXCEPT ![j].does = "native", ![j].finger = f] \in [Jobs -> JobRecord]
          /\ [job EXCEPT ![j].does = "accept", ![j].finger = f] \in [Jobs -> JobRecord]
      BY JobStarts
    <3>2. QED  BY <2>1, <3>1 DEF StartNative, StartAccept
  <2>2. CASE StartSync(j)
    BY <2>2 DEF StartSync, JobRecord
  <2>3. QED  BY <1>1, <2>1, <2>2 DEF Start
<1>2. ASSUME NEW j \in Jobs, Native(j)  PROVE job' \in [Jobs -> JobRecord]
  BY <1>2, EndTyped DEF Native, WriteRecord, WriteMarker, NativeCreated, NativeEnrolled, CopyDatabase,
     SayOk, FprintdSaves, Continue
<1>3. ASSUME NEW j \in Jobs, Credentials(j)  PROVE job' \in [Jobs -> JobRecord]
  <2>1. CASE RunCreate(j) \/ RunEnrol(j) \/ RunChange(j) \/ Changed(j)
    BY <2>1, EndTyped, JobRestarts DEF RunCreate, RunEnrol, RunChange, Changed
  <2>2. CASE CreateReturns(j)
    <3> DEFINE c == IF rt[j].line = "clean" THEN job[j].clean ELSE FALSE
    <3>1. c \in BOOLEAN
      BY DEF JobRecord
    <3>2. \/ job' = [job EXCEPT ![j].res = 1, ![j].clean = c, ![j].temp = 0]
          \/ job' = [job EXCEPT ![j].clean = c]
      BY <2>2 DEF CreateReturns
    <3> HIDE DEF c
    <3>3. [job EXCEPT ![j].clean = c] \in [Jobs -> JobRecord]
      BY <3>1 DEF JobRecord
    <3>4. [job EXCEPT ![j].res = 1, ![j].clean = c, ![j].temp = 0] \in [Jobs -> JobRecord]
      BY <3>1, JobFailsUnclean
    <3>5. QED  BY <3>2, <3>3, <3>4
  <2>3. CASE LinkHandle(j)
    BY <2>3 DEF LinkHandle, JobRecord
  <2>4. CASE SyncHandle(j)
    BY <2>4 DEF SyncHandle, JobRecord
  <2>5. CASE ChangeReturns(j)
    <3>1. [job EXCEPT ![j].prev = cred.handle] \in [Jobs -> JobRecord]
      BY DEF JobRecord, Directory
    <3>2. QED  BY <2>5, <3>1, JobFails DEF ChangeReturns
  <2>6. CASE ReplaceHandle(j)
    <3>1. [job EXCEPT ![j].temp = 0] \in [Jobs -> JobRecord]
      BY DEF JobRecord
    <3>2. QED  BY <2>6, <3>1, JobFails DEF ReplaceHandle
  <2>7. CASE DropPrevious(j)
    BY <2>7 DEF DropPrevious, JobRecord
  <2>8. QED  BY <1>3, <2>1, <2>2, <2>3, <2>4, <2>5, <2>6, <2>7 DEF Credentials
<1>4. ASSUME NEW j \in Jobs, Acceptance(j)  PROVE job' \in [Jobs -> JobRecord]
  <2>1. CASE OpenStore(j)
    <3>1. (key # "none") \in BOOLEAN
      OBVIOUS
    <3>2. [job EXCEPT ![j].prepared = key # "none"] \in [Jobs -> JobRecord]
      BY <3>1, JobPrepares, Zenon
    <3>3. QED  BY <2>1, <3>2, EndTyped DEF OpenStore
  <2>2. CASE Authenticate(j)
    BY <2>2 DEF Authenticate, JobRecord
  <2>3. CASE Verify(j)
    BY <2>3, EndTyped, JobRestarts DEF Verify
  <2>4. CASE \/ OpenAccount(j) \/ PamRefuses(j) \/ PamAccepts(j) \/ PrepareInput(j) \/ AuthenticateFails(j)
             \/ Enrolled(j) \/ MarkReady(j) \/ Serialize(j) \/ LinkPrint(j) \/ UnlinkDatabase(j) \/ UnlinkReady(j)
             \/ VerifyFails(j) \/ VerifyPasses(j) \/ WriteReport(j) \/ RenameReport(j) \/ EnableFprintd(j)
    BY <2>4, EndTyped DEF OpenAccount, PamRefuses, PamAccepts, PrepareInput, AuthenticateFails, Enrolled,
       MarkReady, Serialize, LinkPrint, UnlinkDatabase, UnlinkReady, VerifyFails, VerifyPasses, WriteReport,
       RenameReport, EnableFprintd, Continue
  <2>5. QED  BY <1>4, <2>1, <2>2, <2>3, <2>4 DEF Acceptance
<1>5. ASSUME NEW j \in Jobs, Clients(j) \/ PassOn(j)  PROVE job' \in [Jobs -> JobRecord]
  <2>1. CASE ClientWrites(j)
    BY <2>1 DEF ClientWrites, JobRecord
  <2>2. CASE PassOn(j)
    BY <2>2, JobStops DEF PassOn
  <2>3. QED  BY <1>5, <2>1, <2>2 DEF Clients, RuntimeStep, ClientCommits
<1>6. ASSUME NEW j \in Jobs, \/ RuntimeFails(j) \/ SerializeFails(j) \/ Cancel(j)
                             \/ StopService(j) \/ CloseTerminal(j)
      PROVE  job' \in [Jobs -> JobRecord]
  <2>1. CASE Cancel(j)
    BY <2>1, JobStops DEF Cancel
  <2>2. CASE StopService(j) \/ CloseTerminal(j)
    <3>1. job' = [job EXCEPT ![j].top = TRUE, ![j].mid = TRUE]
      BY <2>2 DEF StopService, CloseTerminal
    <3>2. QED  BY <3>1, JobStops
  <2>3. QED  BY <1>6, <2>1, <2>2, EndTyped DEF RuntimeFails, SerializeFails
<1>7. CASE Recover
  <2>1. \A r \in JobRecord : [r EXCEPT !.mid = TRUE] \in JobRecord
    BY DEF JobRecord
  <2>2. QED  BY <1>7, <2>1 DEF Recover
<1>8. CASE OrphanMoves \/ DeletePrint \/ KeyExpires \/ PowerLoss \/ Rest \/ UNCHANGED vars
  BY <1>8, NoRecords DEF OrphanMoves, DeletePrint, KeyExpires, PowerLoss, Rest, vars
<1>9. QED
  BY <1>1, <1>2, <1>3, <1>4, <1>5, <1>6, <1>7, <1>8, StepCases

LEMMA RunTyped ==
  ASSUME Types, [Next]_vars
  PROVE  rt' \in [Jobs -> RunRecord]
<1> USE DEF Types, RuntimeTypeOK
<1> DEFINE Good == rt' \in [Jobs -> RunRecord]
<1>1. \A operation \in Operations : Launched(operation) \in RunRecord
  BY DEF Launched, Fresh, RunRecord, Operations
<1>2. ASSUME NEW j \in Jobs, NEW operation \in Operations, NEW step, Launch(j, operation, step)  PROVE Good
  <2>1. Launched(operation) \in RunRecord
    BY <1>1
  <2>2. QED  BY <1>2, <2>1 DEF Launch
<1>3. /\ "create" \in Operations /\ "enrol" \in Operations
      /\ "change" \in Operations /\ "match" \in Operations
  BY DEF Operations
<1> HIDE DEF Good
<1>4. ASSUME NEW j \in Jobs, End(j) \/ rt' = rt  PROVE Good
  BY <1>4, EndTyped DEF Good
<1>5. ASSUME NEW j \in Jobs, Start(j) \/ Native(j) \/ SerializeFails(j)  PROVE Good
  BY <1>4, <1>5 DEF Start, StartNative, StartAccept, StartSync, runtimeVars, Native, WriteRecord, WriteMarker,
     NativeCreated, NativeEnrolled, CopyDatabase, SayOk, FprintdSaves, Continue, SerializeFails
<1>6. ASSUME NEW j \in Jobs, Credentials(j)  PROVE Good
  BY <1>2, <1>3, <1>4, <1>6 DEF Credentials, RunCreate, CreateReturns, LinkHandle, SyncHandle, RunEnrol, RunChange,
     ChangeReturns, ReplaceHandle, DropPrevious, Changed, runtimeVars
<1>7. ASSUME NEW j \in Jobs, Acceptance(j)  PROVE Good
  BY <1>2, <1>3, <1>4, <1>7 DEF Acceptance, OpenAccount, PamRefuses, PamAccepts, PrepareInput, OpenStore,
     AuthenticateFails, Authenticate, Enrolled, MarkReady, Serialize, LinkPrint, UnlinkDatabase, UnlinkReady,
     Verify, VerifyFails, VerifyPasses, WriteReport, RenameReport, EnableFprintd, Continue, runtimeVars
<1>8. ASSUME NEW j \in Jobs, Refused(j) \/ StartClient(j)  PROVE Good
  <2>1. /\ [rt EXCEPT ![j].at = "over"] \in [Jobs -> RunRecord]
        /\ [rt EXCEPT ![j].at = "client"] \in [Jobs -> RunRecord]
    BY DEF RunRecord
  <2>2. QED  BY <1>8, <2>1 DEF Good, Refused, StartClient
<1>9. ASSUME NEW j \in Jobs, TakeLock(j)  PROVE Good
  BY <1>9, RunBegins DEF Good, TakeLock
<1>10. ASSUME NEW j \in Jobs, NEW power, \/ NotReady(j) \/ ClientExits(j, 1) \/ StopClient(j, power)
                                         \/ CleanupRaises(j) \/ HungUp(j)
       PROVE  Good
  <2>1. \/ rt' = [rt EXCEPT ![j].at = "over", ![j].result = 1]
        \/ rt' = [rt EXCEPT ![j].at = "cleanup", ![j].result = 1]
    BY <1>10 DEF NotReady, ClientExits, StopClient, CleanupRaises, HungUp
  <2>2. /\ [rt EXCEPT ![j].at = "over", ![j].result = 1] \in [Jobs -> RunRecord]
        /\ [rt EXCEPT ![j].at = "cleanup", ![j].result = 1] \in [Jobs -> RunRecord]
    BY RunFails
  <2>3. QED  BY <2>1, <2>2 DEF Good
<1>11. ASSUME NEW j \in Jobs, ClientExits(j, 0)  PROVE Good
  <2>1. rt' = [rt EXCEPT ![j].at = "cleanup", ![j].result = 0]
    BY <1>11 DEF ClientExits
  <2>2. 0 \in 0..1
    OBVIOUS
  <2>3. QED  BY <2>1, <2>2, RunEnds DEF Good
<1>12. ASSUME NEW j \in Jobs, Cleanup(j)  PROVE Good
  <2> DEFINE l == IF SaysClean(j) THEN "clean" ELSE "dirty"
             n == IF SaysClean(j) THEN rt[j].result ELSE 1
  <2>1. rt' = [rt EXCEPT ![j].at = "over", ![j].line = l, ![j].result = n]
    BY <1>12 DEF Cleanup
  <2>2. l \in {"clean", "dirty"} /\ n \in 0..1
    BY DEF RunRecord
  <2> HIDE DEF l, n
  <2>3. QED  BY <2>1, <2>2, RunCleans DEF Good
<1>13. ASSUME NEW j \in Jobs, Clients(j) \/ PassOn(j)  PROVE Good
  BY <1>4, <1>8, <1>9, <1>10, <1>11, <1>12, <1>13 DEF Clients, RuntimeStep, Runtime, ClientCommits, ClientWrites,
     ClientStep, PassOn, runtimeVars
<1>14. ASSUME NEW j \in Jobs, RuntimeFails(j) \/ Cancel(j) \/ StopService(j) \/ CloseTerminal(j)  PROVE Good
  BY <1>4, <1>8, <1>10, <1>14 DEF RuntimeFails, Cancel, StopService, CloseTerminal, runtimeVars
<1>15. CASE OrphanMoves \/ DeletePrint \/ Recover \/ KeyExpires \/ PowerLoss \/ Rest \/ UNCHANGED vars
  BY <1>15, NoRecords DEF Good, OrphanMoves, OrphanStep, DeletePrint, Recover, KeyExpires, PowerLoss, RuntimeGone,
     Rest, vars, runtimeVars
<1>16. QED
  BY <1>5, <1>6, <1>7, <1>13, <1>14, <1>15, StepCases DEF Good

LEMMA ControlTyped ==
  ASSUME Types, [Next]_vars
  PROVE  /\ at' \in [Jobs -> Steps]
         /\ userLock' \in Jobs \cup {Nobody} /\ storeLock' \in Jobs \cup {Nobody}
<1> USE DEF Types, Goto
<1> DEFINE Good == /\ at' \in [Jobs -> Steps]
                   /\ userLock' \in Jobs \cup {Nobody} /\ storeLock' \in Jobs \cup {Nobody}
<1>1. ASSUME NEW j \in Jobs, Start(j)  PROVE Good
  BY <1>1 DEF Start, StartNative, StartAccept, StartSync, Steps
<1>2. ASSUME NEW j \in Jobs, Native(j) \/ SerializeFails(j)  PROVE Good
  BY <1>2, EndTyped DEF Native, WriteRecord, WriteMarker, NativeCreated, NativeEnrolled, CopyDatabase,
     SayOk, FprintdSaves, Continue, SerializeFails, Steps
<1>3. ASSUME NEW j \in Jobs, \/ RunCreate(j) \/ CreateReturns(j) \/ LinkHandle(j) \/ SyncHandle(j) \/ RunEnrol(j)
      PROVE  Good
  <2>1. CASE RunCreate(j)
    BY <2>1, EndTyped DEF RunCreate, Launch, Steps
  <2>2. CASE RunEnrol(j)
    BY <2>2, EndTyped DEF RunEnrol, Launch, Steps
  <2>3. CASE CreateReturns(j)
    <3>1. UNCHANGED <<userLock, storeLock>> /\ (Goto(j, "created") \/ Goto(j, "link"))
      BY <2>3, Zenon DEF CreateReturns
    <3>2. QED
      BY <3>1 DEF Steps
  <2>4. CASE LinkHandle(j) \/ SyncHandle(j)
    BY <2>4 DEF LinkHandle, SyncHandle, Steps
  <2>5. QED
    BY <1>3, <2>1, <2>2, <2>3, <2>4
<1>4. ASSUME NEW j \in Jobs, \/ RunChange(j) \/ ChangeReturns(j) \/ ReplaceHandle(j) \/ DropPrevious(j) \/ Changed(j)
      PROVE  Good
  BY <1>4, EndTyped DEF RunChange, ChangeReturns, ReplaceHandle, DropPrevious, Changed, Launch, Steps
<1>5. ASSUME NEW j \in Jobs, Acceptance(j)  PROVE Good
  BY <1>5, EndTyped DEF Acceptance, OpenAccount, PamRefuses, PamAccepts, PrepareInput, OpenStore,
     AuthenticateFails, Authenticate, Enrolled, MarkReady, Serialize, LinkPrint, UnlinkDatabase, UnlinkReady,
     Verify, VerifyFails, VerifyPasses, WriteReport, RenameReport, EnableFprintd, Continue, Launch, Rounds,
     AfterRound, Steps
<1>6. ASSUME NEW j \in Jobs, \/ Clients(j) \/ PassOn(j) \/ RuntimeFails(j) \/ Cancel(j)
                             \/ StopService(j) \/ CloseTerminal(j)
      PROVE  Good
  BY <1>6 DEF Clients, RuntimeStep, ClientCommits, ClientWrites, PassOn, RuntimeFails, Cancel, StopService,
     CloseTerminal
<1>7. ASSUME OrphanMoves \/ DeletePrint \/ Recover \/ KeyExpires \/ PowerLoss \/ Rest \/ UNCHANGED vars
      PROVE  Good
  BY <1>7 DEF OrphanMoves, DeletePrint, Recover, KeyExpires, PowerLoss, Rest, vars, Steps
<1> HIDE DEF Good, Types, Goto
<1>8. ASSUME NEW j \in Jobs, Credentials(j)  PROVE Good
  BY <1>3, <1>4, <1>8 DEF Credentials
<1>9. Good
  BY <1>1, <1>2, <1>5, <1>6, <1>7, <1>8, StepCases
<1>10. QED  BY <1>9 DEF Good

LEMMA HardwareTyped ==
  ASSUME Types, [Next]_vars
  PROVE  /\ operationLock' \in Jobs \cup {Nobody} /\ firmwarePath' \in {"empty", "bundle"}
         /\ listeners' \subseteq Jobs \cup {Nobody} /\ sensor' \in {"off", "on"}
         /\ client' \in [Jobs -> Stages] /\ orphan' \in [stage : Stages, does : Operations]
<1> USE DEF Types, RuntimeTypeOK
<1> DEFINE Good == /\ operationLock' \in Jobs \cup {Nobody} /\ firmwarePath' \in {"empty", "bundle"}
                   /\ listeners' \subseteq Jobs \cup {Nobody} /\ sensor' \in {"off", "on"}
                   /\ client' \in [Jobs -> Stages] /\ orphan' \in [stage : Stages, does : Operations]
<1>1. ASSUME hardware' = hardware \/ runtimeVars' = runtimeVars  PROVE Good
  BY <1>1 DEF hardware, runtimeVars
<1>2. ASSUME NEW j \in Jobs, Refused(j) \/ TakeLock(j) \/ NotReady(j) \/ StartClient(j)  PROVE Good
  BY <1>2 DEF Refused, TakeLock, NotReady, StartClient, Stages
<1>3. ASSUME NEW j \in Jobs, NEW from, NEW to \in Stages, ClientStep(j, from, to)  PROVE Good
  BY <1>3 DEF ClientStep, SensorAfter
<1>4. ASSUME NEW from, NEW to \in Stages, OrphanStep(from, to)  PROVE Good
  BY <1>4 DEF OrphanStep, SensorAfter, NoOrphan, Stages, Operations
<1>5. ASSUME NEW j \in Jobs, NEW status, NEW power \in {"off", "on"}, ClientExits(j, status) \/ StopClient(j, power)
      PROVE  Good
  BY <1>5 DEF ClientExits, StopClient, Stages
<1>6. ASSUME NEW j \in Jobs, Cleanup(j) \/ CleanupRaises(j)  PROVE Good
  BY <1>6 DEF Cleanup, CleanupRaises, RunRecord
<1>7. ASSUME NEW j \in Jobs, HungUp(j)  PROVE Good
  BY <1>7 DEF HungUp, RunRecord, Stages
<1>8. ASSUME PowerLoss  PROVE Good
  BY <1>8 DEF PowerLoss, RuntimeGone, NoOrphan, Stages, Operations
<1> HIDE DEF Types, RuntimeTypeOK
<1>9. "begun" \in Stages /\ "committed" \in Stages /\ "wrote" \in Stages /\ "none" \in Stages
  BY DEF Stages
<1> HIDE DEF Good
<1>10. ASSUME NEW j \in Jobs, Start(j) \/ Native(j) \/ SerializeFails(j)  PROVE Good
  BY <1>1, <1>10 DEF Start, StartNative, StartAccept, StartSync, Native, WriteRecord, WriteMarker,
     NativeCreated, NativeEnrolled, CopyDatabase, SayOk, FprintdSaves, Continue, SerializeFails
<1>11. ASSUME NEW j \in Jobs, Credentials(j)  PROVE Good
  BY <1>1, <1>11 DEF Credentials, RunCreate, CreateReturns, LinkHandle, SyncHandle, RunEnrol, RunChange,
     ChangeReturns, ReplaceHandle, DropPrevious, Changed, Launch
<1>12. ASSUME NEW j \in Jobs, Acceptance(j)  PROVE Good
  BY <1>1, <1>12 DEF Acceptance, OpenAccount, PamRefuses, PamAccepts, PrepareInput, OpenStore,
     AuthenticateFails, Authenticate, Enrolled, MarkReady, Serialize, LinkPrint, UnlinkDatabase, UnlinkReady,
     Verify, VerifyFails, VerifyPasses, WriteReport, RenameReport, EnableFprintd, Continue, Launch
<1>13. ASSUME NEW j \in Jobs, Clients(j) \/ PassOn(j)  PROVE Good
  BY <1>1, <1>2, <1>3, <1>5, <1>6, <1>9, <1>13 DEF Clients, RuntimeStep, Runtime, ClientCommits, ClientWrites, PassOn
<1>14. ASSUME NEW j \in Jobs, RuntimeFails(j) \/ Cancel(j) \/ StopService(j) \/ CloseTerminal(j)  PROVE Good
  BY <1>1, <1>2, <1>5, <1>6, <1>7, <1>14 DEF RuntimeFails, Cancel, StopService, CloseTerminal
<1>15. ASSUME OrphanMoves  PROVE Good
  <2>1. PICK from, to \in Stages : OrphanStep(from, to)
    BY <1>9, <1>15 DEF OrphanMoves
  <2>2. QED  BY <1>4, <2>1
<1>16. ASSUME DeletePrint \/ Recover \/ KeyExpires \/ Rest \/ UNCHANGED vars
      PROVE  Good
  BY <1>1, <1>16 DEF DeletePrint, Recover, KeyExpires, Rest, vars
<1>17. Good
  BY <1>8, <1>10, <1>11, <1>12, <1>13, <1>14, <1>15, <1>16, StepCases
<1>18. QED  BY <1>17 DEF Good

LEMMA AccountTyped ==
  ASSUME Types, [Next]_vars
  PROVE  /\ cred' \in Directory /\ safe' \in Directory
         /\ ta' \in Nat /\ asked' \in Nat /\ wrote' \in Nat
<1> USE DEF Types
<1> DEFINE Good == /\ cred' \in Directory /\ safe' \in Directory
                   /\ ta' \in Nat /\ asked' \in Nat /\ wrote' \in Nat
<1>1. /\ [cred EXCEPT !.params = TRUE] \in Directory
      /\ [cred EXCEPT !.requested = TRUE] \in Directory
      /\ [cred EXCEPT !.requested = FALSE] \in Directory
  BY DEF Directory
<1>2. ASSUME NEW j \in Jobs  PROVE job[j].temp \in Nat /\ Candidate(j) \subseteq Nat
  BY DEF JobRecord, Candidate
<1>3. ASSUME accountVars' = accountVars  PROVE Good
  BY <1>3 DEF accountVars
<1>4. ASSUME NEW j \in Jobs, Start(j)  PROVE Good
  BY <1>3, <1>4 DEF Start, StartNative, StartAccept, StartSync
<1>5. ASSUME NEW j \in Jobs, Native(j) \/ SerializeFails(j)  PROVE Good
  BY <1>1, <1>5 DEF Native, WriteRecord, WriteMarker, MarkRequested, NativeCreated, NativeEnrolled, CopyDatabase,
     SayOk, FprintdSaves, Durable, SerializeFails, accountVars
<1>6. ASSUME NEW j \in Jobs, Credentials(j)  PROVE Good
  <2>1. CASE CreateReturns(j)
    <3>1. [cred EXCEPT !.kept = @ \cup Candidate(j)] \in Directory
      BY <1>2 DEF Directory
    <3>2. QED  BY <2>1, <3>1 DEF CreateReturns
  <2>2. CASE LinkHandle(j)
    <3>1. [cred EXCEPT !.handle = job[j].temp] \in Directory
      BY <1>2 DEF Directory
    <3>2. QED  BY <2>2, <3>1 DEF LinkHandle
  <2>3. CASE ChangeReturns(j)
    <3>1. /\ [cred EXCEPT !.kept = @ \cup Candidate(j)] \in Directory
          /\ LinkPrevious(j) \in Directory
      BY <1>2 DEF Directory, LinkPrevious
    <3>2. QED  BY <2>3, <3>1 DEF ChangeReturns, Durable
  <2>4. CASE ReplaceHandle(j)
    <3>1. [cred EXCEPT !.handle = job[j].temp, !.kept = @ \ {job[j].temp}] \in Directory
      BY <1>2 DEF Directory
    <3>2. QED  BY <2>4, <3>1 DEF ReplaceHandle
  <2>5. CASE DropPrevious(j)
    <3>1. [cred EXCEPT !.kept = @ \ {job[j].prev}] \in Directory
      BY DEF Directory
    <3>2. QED  BY <2>5, <3>1 DEF DropPrevious, Durable
  <2>6. CASE SyncHandle(j) \/ RunCreate(j) \/ RunEnrol(j) \/ RunChange(j) \/ Changed(j)
    BY <2>6 DEF SyncHandle, Durable, RunCreate, RunEnrol, RunChange, Changed, accountVars
  <2>7. QED  BY <1>6, <2>1, <2>2, <2>3, <2>4, <2>5, <2>6 DEF Credentials
<1>7. ASSUME NEW j \in Jobs, Acceptance(j)  PROVE Good
  BY <1>1, <1>7 DEF Acceptance, OpenAccount, PamRefuses, PamAccepts, MarkRequested, PrepareInput, OpenStore,
     AuthenticateFails, Authenticate, Enrolled, MarkReady, Serialize, LinkPrint, UnlinkDatabase, UnlinkReady,
     Verify, VerifyFails, VerifyPasses, WriteReport, RenameReport, EnableFprintd, Durable, accountVars
<1>8. ASSUME NEW j \in Jobs, \/ Clients(j) \/ PassOn(j) \/ RuntimeFails(j) \/ Cancel(j)
                             \/ StopService(j) \/ CloseTerminal(j)
      PROVE  Good
  BY <1>8 DEF Clients, RuntimeStep, ClientCommits, Commits, ClientWrites, PassOn, RuntimeFails, Cancel, StopService,
     CloseTerminal, accountVars
<1>9. ASSUME PowerLoss  PROVE Good
  BY <1>9 DEF PowerLoss
<1>10. ASSUME OrphanMoves  PROVE Good
  BY <1>10 DEF OrphanMoves, Commits, accountVars
<1> HIDE DEF Good, Types
<1>11. ASSUME DeletePrint \/ Recover \/ KeyExpires \/ Rest \/ UNCHANGED vars  PROVE Good
  BY <1>3, <1>11 DEF DeletePrint, Recover, KeyExpires, Rest, vars
<1>12. Good
  BY <1>4, <1>5, <1>6, <1>7, <1>8, <1>9, <1>10, <1>11, StepCases
<1>13. QED  BY <1>12 DEF Good

LEMMA TemplateTyped ==
  ASSUME Types, [Next]_vars
  PROVE  /\ pending' \in [db : {"none", "raw", "accepted"}, ready : Fingers \cup {NoFinger}]
         /\ key' \in {"none", "live", "stale", "expired"}
         /\ desk' \in [accepted : BOOLEAN, temporary : BOOLEAN, enabled : BOOLEAN]
<1> USE DEF Types
<1> DEFINE Good == /\ pending' \in [db : {"none", "raw", "accepted"}, ready : Fingers \cup {NoFinger}]
                   /\ key' \in {"none", "live", "stale", "expired"}
                   /\ desk' \in [accepted : BOOLEAN, temporary : BOOLEAN, enabled : BOOLEAN]
<1>1. ASSUME templateVars' = templateVars  PROVE Good
  BY <1>1 DEF templateVars
<1>2. ASSUME NEW j \in Jobs, Start(j)  PROVE Good
  BY <1>2 DEF Start, StartNative, StartAccept, StartSync, templateVars
<1>3. ASSUME NEW j \in Jobs, Native(j) \/ SerializeFails(j)  PROVE Good
  BY <1>3 DEF Native, WriteRecord, WriteMarker, NativeCreated, NativeEnrolled, CopyDatabase,
     SayOk, FprintdSaves, SerializeFails, templateVars
<1>4. ASSUME NEW j \in Jobs, Credentials(j)  PROVE Good
  BY <1>4 DEF Credentials, RunCreate, CreateReturns, LinkHandle, SyncHandle, RunEnrol, RunChange,
     ChangeReturns, ReplaceHandle, DropPrevious, Changed, templateVars
<1>5. ASSUME NEW j \in Jobs, Acceptance(j)  PROVE Good
  <2>1. CASE Enrolled(j) \/ MarkReady(j) \/ UnlinkDatabase(j) \/ UnlinkReady(j)
    BY <2>1 DEF Enrolled, MarkReady, UnlinkDatabase, UnlinkReady, JobRecord
  <2>2. CASE WriteReport(j) \/ RenameReport(j) \/ EnableFprintd(j)
    BY <2>2 DEF WriteReport, RenameReport, EnableFprintd
  <2>3. CASE \/ OpenAccount(j) \/ PamRefuses(j) \/ PamAccepts(j) \/ PrepareInput(j) \/ OpenStore(j)
             \/ AuthenticateFails(j) \/ Authenticate(j) \/ Serialize(j) \/ LinkPrint(j)
             \/ Verify(j) \/ VerifyFails(j) \/ VerifyPasses(j)
    BY <2>3 DEF OpenAccount, PamRefuses, PamAccepts, PrepareInput, OpenStore, AuthenticateFails, Authenticate,
       Serialize, LinkPrint, Verify, VerifyFails, VerifyPasses, templateVars
  <2>4. QED  BY <1>5, <2>1, <2>2, <2>3 DEF Acceptance
<1>6. ASSUME NEW j \in Jobs, \/ Clients(j) \/ PassOn(j) \/ RuntimeFails(j) \/ Cancel(j)
                             \/ StopService(j) \/ CloseTerminal(j)
      PROVE  Good
  BY <1>6 DEF Clients, RuntimeStep, ClientCommits, Commits, ClientWrites, Exports, PassOn, RuntimeFails, Cancel,
     StopService, CloseTerminal, templateVars
<1>7. ASSUME Recover  PROVE Good
  BY <1>7 DEF Recover
<1>8. ASSUME OrphanMoves  PROVE Good
  BY <1>8 DEF OrphanMoves, Commits, Exports, templateVars
<1>9. ASSUME DeletePrint \/ KeyExpires \/ PowerLoss  PROVE Good
  BY <1>9 DEF DeletePrint, KeyExpires, PowerLoss
<1> HIDE DEF Good, Types
<1>10. ASSUME Rest \/ UNCHANGED vars  PROVE Good
  BY <1>1, <1>10 DEF Rest, vars
<1>11. Good
  BY <1>2, <1>3, <1>4, <1>5, <1>6, <1>7, <1>8, <1>9, <1>10, StepCases
<1>12. QED  BY <1>11 DEF Good

LEMMA BoundsTyped ==
  ASSUME Types, [Next]_vars
  PROVE  /\ interface' = interface
         /\ starts' \in 0..MaxStarts /\ faults' \in 0..MaxFaults /\ deletes' \in 0..MaxDeletes
         /\ rough' \in BOOLEAN /\ hungup' \in BOOLEAN /\ outlived' \in BOOLEAN
<1> USE BoundsAssumption DEF Types
<1> DEFINE Good == /\ interface' = interface
                   /\ starts' \in 0..MaxStarts /\ faults' \in 0..MaxFaults /\ deletes' \in 0..MaxDeletes
                   /\ rough' \in BOOLEAN /\ hungup' \in BOOLEAN /\ outlived' \in BOOLEAN
<1>1. ASSUME boundVars' = boundVars  PROVE Good
  BY <1>1 DEF boundVars
<1>2. ASSUME NEW j \in Jobs, Start(j)  PROVE Good
  BY <1>2 DEF Start, StartNative, StartAccept, StartSync
<1>3. ASSUME NEW j \in Jobs, \/ RuntimeFails(j) \/ SerializeFails(j) \/ Cancel(j)
                             \/ StopService(j) \/ CloseTerminal(j)
      PROVE  Good
  <2>1. /\ faults < MaxFaults /\ faults' = faults + 1
        /\ interface' = interface /\ starts' = starts /\ deletes' = deletes /\ outlived' = outlived
    BY <1>3 DEF RuntimeFails, SerializeFails, Cancel, StopService, CloseTerminal, Fault, RoughFault, otherBounds
  <2>2. (rough' = rough \/ rough' = TRUE) /\ (hungup' = hungup \/ hungup' = TRUE)
    BY <1>3 DEF RuntimeFails, SerializeFails, Cancel, StopService, CloseTerminal, RoughFault
  <2>3. rough' \in BOOLEAN /\ hungup' \in BOOLEAN /\ outlived' \in BOOLEAN
    BY <2>1, <2>2, Zenon
  <2>4. QED  BY <2>1, <2>3
<1>4. ASSUME PowerLoss  PROVE Good
  <2>1. /\ faults < MaxFaults /\ faults' = faults + 1
        /\ interface' = interface /\ starts' = starts /\ deletes' = deletes
    BY <1>4 DEF PowerLoss, Fault, RoughFault, otherBounds
  <2>2. rough' \in BOOLEAN /\ hungup' \in BOOLEAN
    BY <1>4 DEF PowerLoss, RoughFault
  <2>3. outlived' \in BOOLEAN
    BY <1>4, Zenon DEF PowerLoss
  <2>4. QED  BY <2>1, <2>2, <2>3
<1>5. ASSUME Recover \/ DeletePrint  PROVE Good
  BY <1>5 DEF Recover, DeletePrint
<1> HIDE DEF Good, Types
<1>6. ASSUME NEW j \in Jobs, Native(j) \/ Credentials(j)  PROVE Good
  BY <1>1, <1>6 DEF Native, WriteRecord, WriteMarker, NativeCreated, NativeEnrolled, CopyDatabase,
     SayOk, FprintdSaves, Credentials, RunCreate, CreateReturns, LinkHandle, SyncHandle, RunEnrol, RunChange,
     ChangeReturns, ReplaceHandle, DropPrevious, Changed
<1>7. ASSUME NEW j \in Jobs, Acceptance(j)  PROVE Good
  BY <1>1, <1>7 DEF Acceptance, OpenAccount, PamRefuses, PamAccepts, PrepareInput, OpenStore,
     AuthenticateFails, Authenticate, Enrolled, MarkReady, Serialize, LinkPrint, UnlinkDatabase, UnlinkReady,
     Verify, VerifyFails, VerifyPasses, WriteReport, RenameReport, EnableFprintd
<1>8. ASSUME NEW j \in Jobs, Clients(j) \/ PassOn(j)  PROVE Good
  BY <1>1, <1>8 DEF Clients, RuntimeStep, ClientCommits, ClientWrites, PassOn
<1>9. ASSUME OrphanMoves \/ KeyExpires \/ Rest \/ UNCHANGED vars  PROVE Good
  BY <1>1, <1>9 DEF OrphanMoves, KeyExpires, Rest, vars
<1>10. Good
  BY <1>2, <1>3, <1>4, <1>5, <1>6, <1>7, <1>8, <1>9, StepCases
<1>11. QED  BY <1>10 DEF Good

LEMMA TypesInit == Init => Types
<1>1. Init => RuntimeTypeOK
  BY NoRecords DEF Init, RuntimeInit, RuntimeTypeOK, Stages, NoOrphan, Operations
<1>2. Init => at \in [Jobs -> Steps] /\ job \in [Jobs -> JobRecord]
  BY NoRecords DEF Init, Steps
<1>3. Init => cred \in Directory /\ safe \in Directory
  BY DEF Init, Directory
<1>4. Init => starts \in 0..MaxStarts /\ faults \in 0..MaxFaults /\ deletes \in 0..MaxDeletes
  BY BoundsAssumption DEF Init
<1>5. Init => rough \in BOOLEAN /\ hungup \in BOOLEAN /\ outlived \in BOOLEAN
  BY Zenon DEF Init
<1>6. QED
  BY <1>1, <1>2, <1>3, <1>4, <1>5 DEF Init, Types

LEMMA TypesStep == Types /\ [Next]_vars => Types'
<1>1. SUFFICES ASSUME Types, [Next]_vars  PROVE Types'
  OBVIOUS
<1>2. RuntimeTypeOK'
  BY <1>1, RunTyped, HardwareTyped DEF RuntimeTypeOK
<1>3. QED
  BY <1>1, <1>2, JobTyped, ControlTyped, AccountTyped, TemplateTyped, BoundsTyped DEF Types

\* Every variable, the templates apart, keeps its type for any number of jobs.
THEOREM TypesHold == Spec => []Types
  BY TypesInit, TypesStep, PTL DEF Spec

-----------------------------------------------------------------------------
(* What a step of a job that is not a step of oem_runtime.py leaves alone.   *)

\* What a job that waits for oem_runtime.py has asked it for.
Waits(step, operation) ==
  \/ step = "creating" /\ operation = "create"
  \/ step = "capturing" /\ operation = "enrol"
  \/ step = "changing" /\ operation = "change"
  \/ step \in {"verifying1", "verifying2", "verifying3"} /\ operation = "match"

Waiting == {"creating", "capturing", "changing", "verifying1", "verifying2", "verifying3"}

\* The hardware stays, and so do the other jobs; a run is forgotten when its job
\* ends, and started by a job that then waits for it.
Own(j) ==
  /\ hardware' = hardware /\ interface' = interface /\ hungup' = hungup
  /\ \A k \in Jobs : k # j => at'[k] = at[k] /\ rt'[k] = rt[k] /\ job'[k] = job[k]
  /\ at[j] \in Waiting => Over(j)
  /\ \/ rt'[j] = rt[j] /\ at'[j] \notin Waiting /\ at'[j] # "idle"
     \/ rt'[j] = NoRun /\ at'[j] = "idle" /\ job'[j] = NoJob
     \/ \E operation \in Operations : Waits(at'[j], operation) /\ rt'[j] = Launched(operation)

LEMMA StartOwn ==
  ASSUME Types, NEW j \in Jobs, Start(j)
  PROVE  Own(j)
<1>1. \/ at'[j] = "capture" \/ at'[j] = "record" \/ at'[j] = "verify1" \/ at'[j] = "credential"
      \/ at'[j] = "publish" \/ at'[j] = "change"
  BY DEF Start, StartNative, StartAccept, StartSync, Goto, Types
<1>2. /\ at[j] = "idle" /\ runtimeVars' = runtimeVars /\ interface' = interface /\ hungup' = hungup
      /\ \A k \in Jobs : k # j => at'[k] = at[k] /\ job'[k] = job[k]
  BY DEF Start, StartNative, StartAccept, StartSync, Goto, AllIdle, Types
<1>3. QED
  BY <1>1, <1>2 DEF Own, hardware, runtimeVars, Waiting

LEMMA NativeOwn ==
  ASSUME Types, NEW j \in Jobs, Native(j) \/ SerializeFails(j)
  PROVE  Own(j)
  BY DEF Native, WriteRecord, WriteMarker, NativeCreated, NativeEnrolled, CopyDatabase, End, Continue, SerializeFails,
     SayOk, FprintdSaves, boundVars, otherBounds, Types, RuntimeTypeOK, Own, Goto, hardware, runtimeVars, Waiting

LEMMA CredentialsOwn ==
  ASSUME Types, NEW j \in Jobs, Credentials(j)
  PROVE  Own(j)
<1> USE DEF End, Launch, Waits, Operations, boundVars, Types, RuntimeTypeOK, Own, Goto, hardware, runtimeVars, Waiting
<1>1. CASE RunCreate(j)
  BY <1>1 DEF RunCreate
<1>2. CASE RunEnrol(j)
  BY <1>2 DEF RunEnrol
<1>3. CASE RunChange(j)
  BY <1>3 DEF RunChange
<1>4. CASE CreateReturns(j)
  BY <1>4 DEF CreateReturns
<1>5. CASE LinkHandle(j) \/ SyncHandle(j) \/ DropPrevious(j)
  BY <1>5 DEF LinkHandle, SyncHandle, DropPrevious
<1>6. CASE ChangeReturns(j)
  BY <1>6 DEF ChangeReturns
<1>7. CASE ReplaceHandle(j)
  BY <1>7 DEF ReplaceHandle
<1>8. CASE Changed(j)
  BY <1>8 DEF Changed
<1>9. QED
  BY <1>1, <1>2, <1>3, <1>4, <1>5, <1>6, <1>7, <1>8 DEF Credentials

\* Where a step of native_credentials.py leads that does not end the job.
CredentialMove(from, to) ==
  \/ from = "create" /\ to = "creating"
  \/ from = "creating" /\ to \in {"created", "link"}
  \/ from = "link" /\ to = "sync"
  \/ from = "sync" /\ to = "created"
  \/ from = "capture" /\ to = "capturing"
  \/ from = "change" /\ to = "changing"
  \/ from = "changing" /\ to \in {"changed", "replace"}
  \/ from = "replace" /\ to \in {"changed", "replaced"}
  \/ from = "replaced" /\ to = "changed"

LEMMA CredentialsMove ==
  ASSUME Types, NEW j \in Jobs, Credentials(j), at'[j] # "idle"
  PROVE  CredentialMove(at[j], at'[j]) /\ UNCHANGED <<interface, prints, storeLock>>
<1> USE DEF End, Launch, templateVars, boundVars
<1>1. /\ UNCHANGED <<interface, prints, storeLock>>
      /\ \E to : CredentialMove(at[j], to) /\ Goto(j, to)
  <2>0. ~End(j)
    BY DEF Goto, Types
  <2> HIDE DEF End
  <2>1. CASE RunCreate(j)
    BY <2>0, <2>1 DEF RunCreate, CredentialMove
  <2>2. CASE RunEnrol(j)
    BY <2>0, <2>2 DEF RunEnrol, CredentialMove
  <2>3. CASE RunChange(j)
    BY <2>0, <2>3 DEF RunChange, CredentialMove
  <2>4. CASE CreateReturns(j)
    BY <2>4 DEF CreateReturns, CredentialMove
  <2>5. CASE LinkHandle(j) \/ SyncHandle(j) \/ DropPrevious(j)
    BY <2>5 DEF LinkHandle, SyncHandle, DropPrevious, CredentialMove
  <2>6. CASE ChangeReturns(j)
    BY <2>6 DEF ChangeReturns, CredentialMove
  <2>7. CASE ReplaceHandle(j)
    BY <2>7 DEF ReplaceHandle, CredentialMove
  <2>8. CASE Changed(j)
    BY <2>0, <2>8 DEF Changed
  <2>9. QED
    BY <2>1, <2>2, <2>3, <2>4, <2>5, <2>6, <2>7, <2>8 DEF Credentials
<1>2. QED
  BY <1>1 DEF Goto, Types

LEMMA AcceptanceOwn ==
  ASSUME Types, NEW j \in Jobs, Acceptance(j)
  PROVE  Own(j)
  BY DEF Acceptance, OpenAccount, PamRefuses, PamAccepts, PrepareInput, OpenStore,
     AuthenticateFails, Authenticate, Enrolled, MarkReady, Serialize, LinkPrint, UnlinkDatabase, UnlinkReady,
     Verify, VerifyFails, VerifyPasses, WriteReport, RenameReport, EnableFprintd, Rounds, AfterRound, End, Launch,
     Continue, Waits, Operations, boundVars, Types, RuntimeTypeOK, Own, Goto, hardware, runtimeVars, Waiting

LEMMA OwnStep ==
  ASSUME Types, NEW j \in Jobs, Start(j) \/ Native(j) \/ Credentials(j) \/ Acceptance(j) \/ SerializeFails(j)
  PROVE  Own(j)
  BY StartOwn, NativeOwn, CredentialsOwn, AcceptanceOwn

-----------------------------------------------------------------------------
(* The hardware belongs to one run.                                          *)

Holding == {"ready", "client", "cleanup"}

\* A run goes on only while its job waits for that operation; who has come past
\* the lock holds it, and its client and its listener are the only ones.
RunOf(j) ==
  /\ rt[j].at \in Holding \cup {"start"} => Waits(at[j], rt[j].does)
  /\ rt[j].at \in Holding <=> operationLock = j
  /\ client[j] # "none" <=> rt[j].at = "client"
  /\ j \in listeners => operationLock = j
  /\ rt[j].at = "client" => listeners = {j}

\* Without a closed terminal no client has outlived its run, and the path a run
\* restores is the empty one.
PathInv ==
  hungup \/ /\ orphan = NoOrphan
            /\ operationLock = Nobody => firmwarePath = "empty"
            /\ \A j \in Jobs : rt[j].at \in Holding => rt[j].old = "empty"

RunInv == PathInv /\ \A j \in Jobs : RunOf(j)

runVars == <<hardware, rt, at, hungup>>

LEMMA RunSame ==
  ASSUME RunInv, runVars' = runVars
  PROVE  RunInv'
  BY DEF RunInv, RunOf, PathInv, runVars, hardware

LEMMA OwnRun ==
  ASSUME Types, RunInv, NEW j \in Jobs, Own(j)
  PROVE  RunInv'
<1>1. /\ operationLock' = operationLock /\ firmwarePath' = firmwarePath /\ listeners' = listeners
      /\ client' = client /\ orphan' = orphan /\ hungup' = hungup
  BY DEF Own, hardware
<1>2. rt[j].at \notin Holding \cup {"start"}
  BY DEF RunInv, RunOf, Own, Over, Holding, Waits, Waiting
<1>3. rt'[j].at \notin Holding /\ (rt'[j].at = "start" => Waits(at'[j], rt'[j].does))
  <2>1. CASE rt'[j] \in {rt[j], NoRun}
    BY <1>2, <2>1 DEF NoRun, Fresh, Holding
  <2>2. ASSUME NEW operation \in Operations, Waits(at'[j], operation), rt'[j] = Launched(operation)
        PROVE  rt'[j].at = "start" /\ rt'[j].does = operation
    BY <2>2 DEF Launched, Fresh
  <2>3. QED  BY <2>1, <2>2 DEF Own, Holding
<1>4. ASSUME NEW k \in Jobs  PROVE RunOf(k)'
  <2>1. CASE k = j
    BY <1>1, <1>2, <1>3, <2>1 DEF RunInv, RunOf, Holding
  <2>2. CASE k # j
    BY <1>1, <2>2 DEF RunInv, RunOf, Own
  <2>3. QED  BY <2>1, <2>2
<1>5. PathInv'
  BY <1>1, <1>3 DEF RunInv, PathInv, Own
<1>6. QED  BY <1>4, <1>5 DEF RunInv

\* What a step of a run of j changes of the runs: only that of j.
LEMMA RefusedRun ==
  ASSUME Types, RunInv, NEW j \in Jobs, Refused(j), UNCHANGED <<at, hungup>>
  PROVE  RunInv'
  BY DEF Refused, RunInv, RunOf, PathInv, Holding, Types, RuntimeTypeOK, RunRecord

LEMMA TakeLockRun ==
  ASSUME Types, RunInv, NEW j \in Jobs, TakeLock(j), UNCHANGED <<at, hungup>>
  PROVE  RunInv'
  BY NobodyAssumption DEF TakeLock, LockFree, RunInv, RunOf, PathInv, Holding, Types, RuntimeTypeOK, RunRecord

LEMMA NotReadyRun ==
  ASSUME Types, RunInv, NEW j \in Jobs, NotReady(j), UNCHANGED <<at, hungup>>
  PROVE  RunInv'
  BY DEF NotReady, RunInv, RunOf, PathInv, Holding, Types, RuntimeTypeOK, RunRecord

LEMMA StartClientRun ==
  ASSUME Types, RunInv, NEW j \in Jobs, StartClient(j), UNCHANGED <<at, hungup>>
  PROVE  RunInv'
  BY NobodyAssumption DEF StartClient, RunInv, RunOf, PathInv, Holding, Types, RuntimeTypeOK, RunRecord

LEMMA ClientStepRun ==
  ASSUME Types, RunInv, NEW j \in Jobs, NEW from, NEW to \in Stages \ {"none"}, ClientStep(j, from, to), UNCHANGED <<at, hungup>>
  PROVE  RunInv'
  BY DEF ClientStep, RunInv, RunOf, PathInv, Holding, Types, RuntimeTypeOK, RunRecord

LEMMA ClientExitsRun ==
  ASSUME Types, RunInv, NEW j \in Jobs, NEW status, ClientExits(j, status), UNCHANGED <<at, hungup>>
  PROVE  RunInv'
  BY DEF ClientExits, RunInv, RunOf, PathInv, Holding, Types, RuntimeTypeOK, RunRecord

LEMMA StopClientRun ==
  ASSUME Types, RunInv, NEW j \in Jobs, NEW power, StopClient(j, power), UNCHANGED <<at, hungup>>
  PROVE  RunInv'
  BY DEF StopClient, RunInv, RunOf, PathInv, Holding, Types, RuntimeTypeOK, RunRecord

LEMMA CleanupRun ==
  ASSUME Types, RunInv, NEW j \in Jobs, Cleanup(j) \/ CleanupRaises(j), UNCHANGED <<at, hungup>>
  PROVE  RunInv'
<1>1. CASE Cleanup(j)
  BY <1>1, NobodyAssumption DEF Cleanup, RunInv, RunOf, PathInv, Holding, Types, RuntimeTypeOK, RunRecord
<1>2. CASE CleanupRaises(j)
  BY <1>2, NobodyAssumption DEF CleanupRaises, RunInv, RunOf, PathInv, Holding, Types, RuntimeTypeOK, RunRecord
<1>3. QED
  BY <1>1, <1>2

LEMMA HungUpRun ==
  ASSUME Types, RunInv, NEW j \in Jobs, HungUp(j), at' = at, hungup' = TRUE
  PROVE  RunInv'
  BY NobodyAssumption DEF HungUp, RunInv, RunOf, PathInv, Holding, Types, RuntimeTypeOK, RunRecord

LEMMA PowerLossRun ==
  ASSUME Types, PowerLoss
  PROVE  RunInv'
  BY NobodyAssumption DEF PowerLoss, RuntimeGone, RunInv, RunOf, PathInv, Holding, NoRun, Fresh

LEMMA RunInvStep == Types /\ RunInv /\ [Next]_vars => RunInv'
<1>1. SUFFICES ASSUME Types, RunInv, [Next]_vars  PROVE RunInv'
  OBVIOUS
<1>2. ASSUME NEW j \in Jobs, Start(j) \/ Native(j) \/ Credentials(j) \/ Acceptance(j) \/ SerializeFails(j)
      PROVE  RunInv'
  BY <1>1, <1>2, OwnStep, OwnRun
<1>3. ASSUME NEW j \in Jobs, RuntimeStep(j) \/ RuntimeFails(j)  PROVE RunInv'
  <2>1. UNCHANGED <<at, hungup>>
    BY <1>3 DEF RuntimeStep, RuntimeFails, boundVars
  <2>2. \/ Refused(j) \/ TakeLock(j) \/ NotReady(j) \/ StartClient(j) \/ (\E status : ClientExits(j, status))
        \/ (\E power : StopClient(j, power)) \/ Cleanup(j) \/ CleanupRaises(j)
    BY <1>3 DEF RuntimeStep, Runtime, RuntimeFails
  <2>3. QED
    BY <1>1, <2>1, <2>2, RefusedRun, TakeLockRun, NotReadyRun, StartClientRun, ClientExitsRun, StopClientRun, CleanupRun
<1>4. ASSUME NEW j \in Jobs, ClientCommits(j) \/ ClientWrites(j)  PROVE RunInv'
  <2>1. \E from, to : to \in Stages \ {"none"} /\ ClientStep(j, from, to)
    BY <1>4 DEF ClientCommits, ClientWrites, Stages
  <2>2. UNCHANGED <<at, hungup>>
    BY <1>4 DEF ClientCommits, ClientWrites, boundVars
  <2>3. QED  BY <1>1, <2>1, <2>2, ClientStepRun
<1>5. ASSUME NEW j \in Jobs, PassOn(j) \/ Cancel(j) \/ StopService(j)  PROVE RunInv'
  BY <1>1, <1>5, RunSame DEF PassOn, Cancel, StopService, runtimeVars, runVars, hardware, boundVars
<1>6. ASSUME NEW j \in Jobs, CloseTerminal(j)  PROVE RunInv'
  BY <1>1, <1>6, HungUpRun DEF CloseTerminal
<1>7. ASSUME Recover \/ DeletePrint \/ KeyExpires \/ Rest \/ UNCHANGED vars  PROVE RunInv'
  BY <1>1, <1>7, RunSame DEF Recover, DeletePrint, KeyExpires, Rest, vars, runtimeVars, runVars, hardware, boundVars
<1>8. ASSUME OrphanMoves  PROVE RunInv'
  <2>1. /\ UNCHANGED <<operationLock, firmwarePath, listeners, client, rt, at, hungup>>
        /\ orphan.stage # "none"
    BY <1>8 DEF OrphanMoves, OrphanStep, boundVars
  <2>2. QED  BY <1>1, <2>1 DEF RunInv, RunOf, PathInv, NoOrphan
<1>9. ASSUME PowerLoss  PROVE RunInv'
  BY <1>1, <1>9, PowerLossRun
<1>10. QED
  BY <1>1, <1>2, <1>3, <1>4, <1>5, <1>6, <1>7, <1>8, <1>9, StepCases DEF Clients

LEMMA RunInvInit == Init => RunInv
  BY NobodyAssumption DEF Init, RuntimeInit, RunInv, RunOf, PathInv, Holding, NoRun, Fresh

\* One job at a time is at the sensor, the listeners and the search path, unless
\* a terminal was closed: oem_runtime.py, for any number of jobs.
THEOREM RunsAlone == Spec => []HardwareAlone
<1>1. RunInv => HardwareAlone
  BY DEF RunInv, RunOf, PathInv, HardwareAlone, Holding
<1>2. QED
  BY <1>1, RunInvInit, RunInvStep, TypesHold, PTL DEF Spec

-----------------------------------------------------------------------------
(* The lock of the account.                                                  *)

\* The steps between the lock of the account and its release.
UserSteps == {"record", "marker", "pam", "create", "creating", "link", "sync", "created",
              "capture", "capturing", "copy", "say", "save",
              "change", "changing", "replace", "replaced", "changed"}

UserInv == \A j \in Jobs : at[j] \in UserSteps => userLock = j

\* A step of j leaves the lock of the others and has it where it needs it.
KeepsLock(j) ==
  /\ at'[j] \in UserSteps => userLock' = j
  /\ \A k \in Jobs : k # j /\ at[k] \in UserSteps => userLock' = userLock

LEMMA StartKeepsLock ==
  ASSUME Types, UserInv, NEW j \in Jobs, Start(j)
  PROVE  KeepsLock(j)
<1>1. CASE \E f \in Fingers : StartNative(j, f)
  BY <1>1 DEF StartNative, AllIdle, Goto, KeepsLock, UserSteps, Types
<1>2. CASE \E f \in Fingers : StartAccept(j, f)
  BY <1>2 DEF StartAccept, Goto, KeepsLock, UserSteps, Types
<1>3. CASE StartSync(j)
  BY <1>3, NobodyAssumption DEF StartSync, Goto, KeepsLock, UserSteps, Types, UserInv
<1>4. QED  BY <1>1, <1>2, <1>3 DEF Start

LEMMA NativeKeepsLock ==
  ASSUME Types, UserInv, NEW j \in Jobs, Native(j) \/ SerializeFails(j)
  PROVE  KeepsLock(j)
  BY DEF Native, WriteRecord, WriteMarker, NativeCreated, NativeEnrolled, CopyDatabase, SayOk, FprintdSaves,
     SerializeFails, End, Continue, Goto, Free, KeepsLock, UserSteps, UserInv, Types

LEMMA CredentialsKeepLock ==
  ASSUME Types, UserInv, NEW j \in Jobs, Credentials(j)
  PROVE  KeepsLock(j)
  BY DEF Credentials, RunCreate, CreateReturns, LinkHandle, SyncHandle, RunEnrol, RunChange, ChangeReturns,
     ReplaceHandle, DropPrevious, Changed, End, Launch, Goto, Free, KeepsLock, UserSteps, UserInv, Types

LEMMA AcceptanceKeepsLock ==
  ASSUME Types, UserInv, NEW j \in Jobs, Acceptance(j)
  PROVE  KeepsLock(j)
<1>1. CASE \/ OpenAccount(j) \/ PamRefuses(j) \/ PamAccepts(j) \/ PrepareInput(j) \/ OpenStore(j)
           \/ AuthenticateFails(j) \/ Authenticate(j) \/ Enrolled(j) \/ MarkReady(j) \/ Serialize(j)
  BY <1>1, NobodyAssumption DEF OpenAccount, PamRefuses, PamAccepts, PrepareInput, MayCreate, OpenStore,
     AuthenticateFails, Authenticate, Enrolled, MarkReady, Serialize, End, Continue, Goto, Free, KeepsLock,
     UserSteps, UserInv, Types
<1>2. CASE \/ LinkPrint(j) \/ UnlinkDatabase(j) \/ UnlinkReady(j) \/ Verify(j) \/ VerifyFails(j) \/ VerifyPasses(j)
           \/ WriteReport(j) \/ RenameReport(j) \/ EnableFprintd(j)
  BY <1>2 DEF LinkPrint, UnlinkDatabase, UnlinkReady, Verify, VerifyFails, VerifyPasses, WriteReport, RenameReport,
     EnableFprintd, Rounds, AfterRound, End, Continue, Launch, Goto, Free, KeepsLock, UserSteps, UserInv, Types
<1>3. QED  BY <1>1, <1>2 DEF Acceptance

LEMMA UserInvStep == Types /\ UserInv /\ [Next]_vars => UserInv'
<1>1. SUFFICES ASSUME Types, UserInv, [Next]_vars  PROVE UserInv'
  OBVIOUS
<1>2. ASSUME NEW j \in Jobs, Start(j) \/ Native(j) \/ Credentials(j) \/ Acceptance(j) \/ SerializeFails(j)
      PROVE  UserInv'
  <2>1. Own(j) /\ KeepsLock(j)
    BY <1>1, <1>2, OwnStep, StartKeepsLock, NativeKeepsLock, CredentialsKeepLock, AcceptanceKeepsLock
  <2>2. QED  BY <1>1, <2>1 DEF Own, KeepsLock, UserInv
<1>3. ASSUME NEW j \in Jobs, \/ Clients(j) \/ PassOn(j) \/ RuntimeFails(j) \/ Cancel(j)
                             \/ StopService(j) \/ CloseTerminal(j)
      PROVE  UserInv'
  BY <1>1, <1>3 DEF Clients, RuntimeStep, ClientCommits, ClientWrites, PassOn, RuntimeFails, Cancel, StopService,
     CloseTerminal, UserInv
<1>4. ASSUME PowerLoss  PROVE UserInv'
  BY <1>4 DEF PowerLoss, UserInv, UserSteps
<1>5. ASSUME OrphanMoves \/ DeletePrint \/ Recover \/ KeyExpires \/ Rest \/ UNCHANGED vars  PROVE UserInv'
  BY <1>1, <1>5 DEF OrphanMoves, DeletePrint, Recover, KeyExpires, Rest, vars, UserInv
<1>6. QED  BY <1>1, <1>2, <1>3, <1>4, <1>5, StepCases

-----------------------------------------------------------------------------
(* One identity, and the handle to it.                                       *)

\* The marker or the handle is there: no creation starts any more.
Claimed(c) == c.requested \/ c.handle # 0

\* The request for an identity may still come from j, or from an orphan.
MayAsk(j) ==
  \/ at[j] = "create"
  \/ at[j] = "creating" /\ (rt[j].at \in {"start", "ready"} \/ client[j] = "begun")
OrphanAsks == orphan.does = "create" /\ orphan.stage = "begun"

IdentityOf(j) ==
  /\ MayAsk(j) => asked = 0 /\ ~OrphanAsks /\ Claimed(cred) /\ Claimed(safe)
  /\ at[j] \in {"record", "marker", "pam"} => ~Claimed(cred)
  /\ at[j] \in {"link", "replace"} => job[j].temp # 0
  /\ at[j] = "sync" => cred.handle # 0
  /\ at[j] = "created" /\ job[j].res = 0 => cred.handle # 0

AskedInv ==
  /\ asked <= 1
  /\ OrphanAsks => asked = 0
  /\ asked = 1 \/ OrphanAsks => Claimed(cred) /\ Claimed(safe)

IdentityInv == AskedInv /\ \A j \in Jobs : IdentityOf(j)

TempSteps == {"creating", "link", "changing", "replace"}
HandleOf(j) ==
  /\ job[j].temp # 0 => at[j] \in TempSteps /\ wrote = job[j].temp
  /\ at[j] = "replace" => job[j].temp \in cred.kept
  /\ at[j] = "replaced" => wrote = cred.handle
HandleInv == HandleKept /\ \A j \in Jobs : HandleOf(j)

AccountInv == Types /\ RunInv /\ UserInv /\ IdentityInv /\ HandleInv

\* A step that has nothing to do with the account.
Quiet(j) ==
  /\ cred' = cred /\ safe' = safe /\ asked' = asked /\ wrote' = wrote
  /\ at[j] \notin TempSteps
  /\ at'[j] \notin (UserSteps \ {"capture", "capturing", "copy", "say", "save", "change", "changing", "changed"})
  /\ job'[j].temp \in {job[j].temp, 0}

LEMMA QuietAccount ==
  ASSUME AccountInv, NEW j \in Jobs, Own(j), Quiet(j)
  PROVE  IdentityInv' /\ HandleInv'
<1> USE DEF AccountInv
<1>1. job[j].temp = 0 /\ job'[j].temp = 0
  BY DEF HandleInv, HandleOf, Quiet
<1>2. client' = client /\ orphan' = orphan
  BY DEF Own, hardware
<1>3. \A k \in Jobs : IdentityOf(k)'
  BY <1>1, <1>2 DEF Own, Quiet, IdentityInv, IdentityOf, MayAsk, OrphanAsks, UserSteps
<1>4. AskedInv'
  BY <1>2 DEF Quiet, IdentityInv, AskedInv, OrphanAsks
<1>5. \A k \in Jobs : HandleOf(k)'
  BY <1>1 DEF Own, Quiet, HandleInv, HandleOf, UserSteps, TempSteps
<1>6. HandleKept'
  BY <1>1 DEF Own, Quiet, HandleInv, HandleKept
<1>7. QED  BY <1>3, <1>4, <1>5, <1>6 DEF IdentityInv, HandleInv

LEMMA NativeQuiet ==
  ASSUME Types, NEW j \in Jobs, NativeEnrolled(j) \/ CopyDatabase(j) \/ SayOk(j) \/ FprintdSaves(j) \/ SerializeFails(j)
  PROVE  Quiet(j)
  BY DEF NativeEnrolled, CopyDatabase, SayOk, FprintdSaves, SerializeFails, End, Continue, Goto, accountVars, NoJob,
     Quiet, UserSteps, TempSteps, Types

LEMMA CredentialsQuiet ==
  ASSUME Types, NEW j \in Jobs, RunEnrol(j) \/ RunChange(j) \/ Changed(j)
  PROVE  Quiet(j)
  BY DEF RunEnrol, RunChange, Changed, End, Launch, Goto, accountVars, NoJob, JobRecord,
     Quiet, UserSteps, TempSteps, Types

LEMMA AcceptanceQuiet ==
  ASSUME Types, NEW j \in Jobs, Acceptance(j), ~OpenAccount(j), ~PamAccepts(j)
  PROVE  Quiet(j)
<1>1. CASE \/ PamRefuses(j) \/ PrepareInput(j) \/ AuthenticateFails(j) \/ Enrolled(j) \/ MarkReady(j) \/ Serialize(j)
           \/ LinkPrint(j) \/ UnlinkDatabase(j) \/ UnlinkReady(j) \/ VerifyFails(j) \/ VerifyPasses(j)
           \/ WriteReport(j) \/ RenameReport(j) \/ EnableFprintd(j)
  BY <1>1 DEF PamRefuses, PrepareInput, AuthenticateFails, Enrolled, MarkReady, Serialize, LinkPrint, UnlinkDatabase,
     UnlinkReady, VerifyFails, VerifyPasses, WriteReport, RenameReport, EnableFprintd, AfterRound,
     End, Continue, Goto, accountVars, NoJob, Quiet, UserSteps, TempSteps, Types
<1>2. CASE OpenStore(j) \/ Authenticate(j) \/ Verify(j)
  BY <1>2 DEF OpenStore, Authenticate, Verify, Rounds, End, Launch, Goto, accountVars, NoJob, JobRecord,
     Quiet, UserSteps, TempSteps, Types
<1>3. QED  BY <1>1, <1>2 DEF Acceptance

\* A step that has the account to itself.
Alone(j) == \A k \in Jobs : k # j => at[k] \notin UserSteps

KeptBy(j) == wrote # 0 => wrote = cred.handle \/ wrote \in cred.kept \/ wrote = job[j].temp
Serves(j) == IdentityOf(j) /\ HandleOf(j) /\ KeptBy(j) /\ AskedInv

LEMMA AloneServes ==
  ASSUME AccountInv, NEW j \in Jobs, Alone(j)
  PROVE  Serves(j)
<1>1. \A k \in Jobs : k # j => job[k].temp = 0
  BY DEF AccountInv, HandleInv, HandleOf, Alone, UserSteps, TempSteps
<1>2. QED
  BY <1>1 DEF AccountInv, IdentityInv, HandleInv, HandleKept, KeptBy, Serves

LEMMA AloneAccount ==
  ASSUME AccountInv, NEW j \in Jobs, Own(j), Alone(j), Serves(j)'
  PROVE  IdentityInv' /\ HandleInv'
<1>1. \A k \in Jobs : k # j => IdentityOf(k)'
  BY DEF Own, Alone, IdentityOf, MayAsk, UserSteps
<1>2. \A k \in Jobs : k # j => HandleOf(k)'
  BY DEF AccountInv, HandleInv, Own, Alone, HandleOf, TempSteps, UserSteps
<1>3. HandleKept'
  BY DEF Serves, KeptBy, HandleKept
<1>4. QED  BY <1>1, <1>2, <1>3 DEF IdentityInv, HandleInv, Serves

\* One job has the account to itself from the first of its steps to the last.
LEMMA UserAlone ==
  ASSUME AccountInv, NEW j \in Jobs, at[j] \in UserSteps \/ userLock = Nobody \/ AllIdle
  PROVE  Alone(j)
  BY NobodyAssumption DEF AccountInv, UserInv, Alone, AllIdle, UserSteps

LEMMA StartNativeServes ==
  ASSUME AccountInv, NEW j \in Jobs, NEW f \in Fingers, StartNative(j, f), Own(j), Serves(j)
  PROVE  Serves(j)'
<1>1. /\ cred' = cred /\ safe' = safe /\ asked' = asked /\ wrote' = wrote /\ runtimeVars' = runtimeVars
      /\ at[j] = "idle" /\ at'[j] \in {"capture", "record"}
  BY DEF StartNative, AllIdle, Goto, accountVars, AccountInv, Types
<1>2. job'[j].temp = job[j].temp
  BY DEF StartNative, AccountInv, Types, JobRecord
<1>3. at'[j] = "record" => ~(cred.params /\ cred.handle # 0)
  BY DEF StartNative, Goto, AccountInv, Types
<1>4. at'[j] = "record" => ~Claimed(cred)
  BY <1>3 DEF StartNative, CredentialWhole, Claimed
<1>5. IdentityOf(j)'
  BY <1>1, <1>4 DEF IdentityOf, MayAsk, Claimed
<1>6. AskedInv' /\ HandleOf(j)' /\ KeptBy(j)'
  BY <1>1, <1>2 DEF Serves, IdentityOf, HandleOf, KeptBy, AskedInv, OrphanAsks, Claimed, TempSteps, runtimeVars
<1>7. QED  BY <1>5, <1>6 DEF Serves

LEMMA WriteRecordServes ==
  ASSUME AccountInv, NEW j \in Jobs, WriteRecord(j), Own(j), Serves(j)
  PROVE  Serves(j)'
  BY DEF WriteRecord, Own, hardware, Durable, Goto, End, Continue, NoJob, Claimed, Serves, IdentityOf, HandleOf,
     KeptBy, AskedInv, MayAsk, OrphanAsks, TempSteps, AccountInv, Types, JobRecord, Directory, accountVars,
     runtimeVars

LEMMA WriteMarkerServes ==
  ASSUME AccountInv, NEW j \in Jobs, WriteMarker(j), Own(j), Serves(j)
  PROVE  Serves(j)'
<1>1. /\ cred' = [cred EXCEPT !.requested = TRUE] /\ safe' = cred'
      /\ at[j] \in {"marker", "pam"} /\ at'[j] = "create" /\ job' = job
      /\ asked' = asked /\ wrote' = wrote /\ runtimeVars' = runtimeVars
  BY DEF WriteMarker, MarkRequested, Durable, Continue, Goto, AccountInv, Types
<1>2. cred'.requested
  BY <1>1 DEF AccountInv, Types, Directory
<1>3. cred'.handle = cred.handle /\ cred'.kept = cred.kept
  BY <1>1 DEF AccountInv, Types, Directory
<1>4. Claimed(cred)' /\ Claimed(safe)'
  BY <1>1, <1>2, Zenon DEF Claimed
<1>5. asked = 0 /\ ~OrphanAsks
  BY <1>1 DEF Serves, IdentityOf, HandleOf, KeptBy, AskedInv, AccountInv, Types
<1>6. OrphanAsks' = OrphanAsks
  BY <1>1 DEF runtimeVars, OrphanAsks
<1>7. IdentityOf(j)'
  BY <1>1, <1>4, <1>5, <1>6 DEF IdentityOf
<1>8. AskedInv' /\ HandleOf(j)' /\ KeptBy(j)'
  BY <1>1, <1>3, <1>4, <1>5, <1>6 DEF Serves, IdentityOf, HandleOf, KeptBy, AskedInv, TempSteps
<1>9. QED  BY <1>7, <1>8 DEF Serves

LEMMA NativeCreatedServes ==
  ASSUME AccountInv, NEW j \in Jobs, NativeCreated(j), Own(j), Serves(j)
  PROVE  Serves(j)'
  BY DEF NativeCreated, Own, hardware, ClearsMarker, Durable, Goto, End, Continue, NoJob, Claimed, Serves,
     IdentityOf, HandleOf, KeptBy, AskedInv, MayAsk, OrphanAsks, TempSteps, AccountInv, Types, JobRecord,
     Directory, accountVars, runtimeVars

LEMMA RunCreateServes ==
  ASSUME AccountInv, NEW j \in Jobs, RunCreate(j), Own(j), Serves(j)
  PROVE  Serves(j)'
  BY DEF RunCreate, Own, hardware, Goto, End, Launch, Launched, Fresh, NoJob, Claimed, Serves, IdentityOf,
     HandleOf, KeptBy, AskedInv, MayAsk, OrphanAsks, TempSteps, AccountInv, Types, JobRecord, Directory,
     accountVars, runtimeVars

LEMMA CreateReturnsServes ==
  ASSUME AccountInv, NEW j \in Jobs, CreateReturns(j), Own(j), Serves(j)
  PROVE  Serves(j)'
<1>1. /\ safe' = safe /\ asked' = asked /\ wrote' = wrote /\ runtimeVars' = runtimeVars /\ at[j] = "creating"
  BY DEF CreateReturns
<1>2. AskedInv'
  <2>1. cred'.requested = cred.requested /\ cred'.handle = cred.handle
    BY DEF CreateReturns, AccountInv, Types, Directory
  <2>2. Claimed(cred) => Claimed(cred)'
    BY <2>1 DEF Claimed
  <2>3. QED  BY <1>1, <2>2 DEF Serves, AskedInv, OrphanAsks, Claimed, runtimeVars
<1>3. CASE MidFailed(j) \/ job[j].temp = 0
  <2>1. at'[j] = "created"
    BY <1>3 DEF CreateReturns, Goto, AccountInv, Types
  <2>2. job'[j].temp = 0 /\ job'[j].res = 1
    <3> DEFINE c == IF rt[j].line = "clean" THEN job[j].clean ELSE FALSE
    <3>1. job' = [job EXCEPT ![j].res = 1, ![j].clean = c, ![j].temp = 0]
      BY <1>3 DEF CreateReturns
    <3> HIDE DEF c
    <3>2. QED  BY <3>1 DEF AccountInv, Types, JobRecord
  <2>3. cred'.kept = cred.kept \cup Candidate(j) /\ cred'.handle = cred.handle
    BY <1>3 DEF CreateReturns, AccountInv, Types, Directory
  <2>4. QED
    BY <1>1, <1>2, <2>1, <2>2, <2>3 DEF Serves, IdentityOf, HandleOf, KeptBy, AskedInv, MayAsk, Candidate, TempSteps
<1>4. CASE ~(MidFailed(j) \/ job[j].temp = 0)
  <2>1. at'[j] = "link" /\ cred' = cred
    BY <1>4 DEF CreateReturns, Goto, AccountInv, Types
  <2>2. job'[j].temp = job[j].temp
    BY <1>4 DEF CreateReturns, AccountInv, Types, JobRecord
  <2>3. QED
    BY <1>1, <1>2, <1>4, <2>1, <2>2 DEF Serves, IdentityOf, HandleOf, KeptBy, AskedInv, MayAsk, TempSteps
<1>5. QED  BY <1>3, <1>4

LEMMA LinkHandleServes ==
  ASSUME AccountInv, NEW j \in Jobs, LinkHandle(j), Own(j), Serves(j)
  PROVE  Serves(j)'
  BY DEF LinkHandle, Own, hardware, Goto, Claimed, Serves, IdentityOf, HandleOf, KeptBy, AskedInv, MayAsk,
     OrphanAsks, TempSteps, AccountInv, Types, JobRecord, Directory, accountVars, runtimeVars

LEMMA SyncHandleServes ==
  ASSUME AccountInv, NEW j \in Jobs, SyncHandle(j), Own(j), Serves(j)
  PROVE  Serves(j)'
  BY DEF SyncHandle, Own, hardware, Durable, Goto, Claimed, Serves, IdentityOf, HandleOf, KeptBy, AskedInv,
     MayAsk, OrphanAsks, TempSteps, AccountInv, Types, JobRecord, Directory, accountVars, runtimeVars

LEMMA ChangeReturnsServes ==
  ASSUME AccountInv, NEW j \in Jobs, ChangeReturns(j), Own(j), Serves(j)
  PROVE  Serves(j)'
  BY DEF ChangeReturns, Own, hardware, Durable, Candidate, LinkPrevious, MidFailed, Goto, Claimed, Serves,
     IdentityOf, HandleOf, KeptBy, AskedInv, MayAsk, OrphanAsks, TempSteps, AccountInv, Types, JobRecord,
     Directory, accountVars, runtimeVars

LEMMA ReplaceHandleServes ==
  ASSUME AccountInv, NEW j \in Jobs, ReplaceHandle(j), Own(j), Serves(j)
  PROVE  Serves(j)'
<1>1. /\ safe' = safe /\ asked' = asked /\ wrote' = wrote /\ runtimeVars' = runtimeVars /\ at[j] = "replace"
  BY DEF ReplaceHandle
<1>2. job[j].temp # 0 /\ wrote = job[j].temp /\ job[j].temp \in cred.kept
  BY <1>1 DEF Serves, IdentityOf, HandleOf
<1>3. job'[j].temp = 0
  BY DEF ReplaceHandle, AccountInv, Types, JobRecord
<1>4. CASE job[j].mid
  <2>1. at'[j] = "changed" /\ cred' = cred
    BY <1>4 DEF ReplaceHandle, Goto, AccountInv, Types
  <2>2. QED
    BY <1>1, <1>2, <1>3, <2>1 DEF Serves, IdentityOf, HandleOf, KeptBy, AskedInv, MayAsk, OrphanAsks, Claimed,
       TempSteps, runtimeVars
<1>5. CASE ~job[j].mid
  <2>1. at'[j] = "replaced"
    BY <1>5 DEF ReplaceHandle, Goto, AccountInv, Types
  <2>2. cred'.handle = job[j].temp /\ cred'.requested = cred.requested
    BY <1>5 DEF ReplaceHandle, AccountInv, Types, Directory
  <2>3. Claimed(cred)'
    BY <1>2, <2>2 DEF Claimed
  <2>4. IdentityOf(j)' /\ HandleOf(j)' /\ KeptBy(j)'
    BY <1>1, <1>2, <1>3, <2>1, <2>2 DEF IdentityOf, HandleOf, KeptBy, MayAsk
  <2>5. AskedInv'
    BY <1>1, <2>3 DEF Serves, AskedInv, OrphanAsks, Claimed, runtimeVars
  <2>6. QED  BY <2>4, <2>5 DEF Serves
<1>6. QED  BY <1>4, <1>5

LEMMA DropPreviousServes ==
  ASSUME AccountInv, NEW j \in Jobs, DropPrevious(j), Own(j), Serves(j)
  PROVE  Serves(j)'
  BY DEF DropPrevious, Own, hardware, Durable, Goto, Claimed, Serves, IdentityOf, HandleOf, KeptBy, AskedInv,
     MayAsk, OrphanAsks, TempSteps, AccountInv, Types, JobRecord, Directory, accountVars, runtimeVars

LEMMA OpenAccountServes ==
  ASSUME AccountInv, NEW j \in Jobs, OpenAccount(j), Own(j), Serves(j)
  PROVE  Serves(j)'
  BY DEF OpenAccount, Own, hardware, Durable, MayCreate, Goto, End, NoJob, Claimed, Serves, IdentityOf, HandleOf,
     KeptBy, AskedInv, MayAsk, OrphanAsks, TempSteps, AccountInv, Types, JobRecord, Directory, accountVars,
     runtimeVars

LEMMA PamAcceptsServes ==
  ASSUME AccountInv, NEW j \in Jobs, PamAccepts(j), Own(j), Serves(j)
  PROVE  Serves(j)'
<1>1. /\ cred' = [cred EXCEPT !.requested = TRUE] /\ safe' = cred'
      /\ at[j] \in {"marker", "pam"} /\ at'[j] = "create" /\ job' = job
      /\ asked' = asked /\ wrote' = wrote /\ runtimeVars' = runtimeVars
  BY DEF PamAccepts, MarkRequested, Durable, Continue, Goto, AccountInv, Types
<1>2. cred'.requested
  BY <1>1 DEF AccountInv, Types, Directory
<1>3. cred'.handle = cred.handle /\ cred'.kept = cred.kept
  BY <1>1 DEF AccountInv, Types, Directory
<1>4. Claimed(cred)' /\ Claimed(safe)'
  BY <1>1, <1>2, Zenon DEF Claimed
<1>5. asked = 0 /\ ~OrphanAsks
  BY <1>1 DEF Serves, IdentityOf, HandleOf, KeptBy, AskedInv, AccountInv, Types
<1>6. OrphanAsks' = OrphanAsks
  BY <1>1 DEF runtimeVars, OrphanAsks
<1>7. IdentityOf(j)'
  BY <1>1, <1>4, <1>5, <1>6 DEF IdentityOf
<1>8. AskedInv' /\ HandleOf(j)' /\ KeptBy(j)'
  BY <1>1, <1>3, <1>4, <1>5, <1>6 DEF Serves, IdentityOf, HandleOf, KeptBy, AskedInv, TempSteps
<1>9. QED  BY <1>7, <1>8 DEF Serves

\* A step that keeps the account and lets nobody ask who could not.
LEMMA SameAccount ==
  ASSUME AccountInv, UNCHANGED <<at, cred, safe, asked, wrote>>,
         \A k \in Jobs : job'[k].temp = job[k].temp /\ job'[k].res = job[k].res,
         \A k \in Jobs : MayAsk(k)' => MayAsk(k), OrphanAsks' => OrphanAsks
  PROVE  IdentityInv' /\ HandleInv'
<1>1. IdentityInv'
  BY DEF AccountInv, IdentityInv, IdentityOf, AskedInv, Claimed
<1>2. HandleInv'
  BY DEF AccountInv, HandleInv, HandleOf, HandleKept
<1>3. QED  BY <1>1, <1>2

LEMMA RuntimeAccount ==
  ASSUME AccountInv, NEW j \in Jobs, RuntimeStep(j) \/ RuntimeFails(j)
  PROVE  IdentityInv' /\ HandleInv'
<1>1. UNCHANGED <<at, job, cred, safe, asked, wrote, orphan>>
  BY DEF RuntimeStep, Runtime, RuntimeFails, Refused, TakeLock, NotReady, StartClient, ClientExits, StopClient,
     Cleanup, CleanupRaises, accountVars
<1>2. /\ \A k \in Jobs : k # j => rt'[k] = rt[k] /\ client'[k] = client[k]
      /\ client'[j] = "begun" => client[j] = "begun" \/ rt[j].at = "ready"
      /\ rt'[j].at \in {"start", "ready"} => rt[j].at = "start"
  <2>1. CASE RuntimeStep(j)
    BY <2>1 DEF RuntimeStep, Runtime, Refused, TakeLock, NotReady, StartClient, ClientExits, StopClient,
       Cleanup, AccountInv, Types, RuntimeTypeOK, RunRecord
  <2>2. CASE RuntimeFails(j)
    BY <2>2 DEF RuntimeFails, Refused, NotReady, ClientExits, StopClient, CleanupRaises, AccountInv, Types,
       RuntimeTypeOK, RunRecord
  <2>3. QED  BY <2>1, <2>2
<1>3. \A k \in Jobs : MayAsk(k)' => MayAsk(k)
  BY <1>1, <1>2 DEF MayAsk, AccountInv, Types, RuntimeTypeOK
<1>4. QED  BY <1>1, <1>3, SameAccount DEF OrphanAsks

LEMMA ClientCommitsAccount ==
  ASSUME AccountInv, NEW j \in Jobs, ClientCommits(j)
  PROVE  IdentityInv' /\ HandleInv'
<1>1. /\ UNCHANGED <<at, job, cred, safe, wrote, rt, orphan>>
      /\ rt[j].at = "client" /\ client[j] = "begun" /\ client' = [client EXCEPT ![j] = "committed"]
      /\ asked' = IF rt[j].does = "create" THEN asked + 1 ELSE asked
  BY DEF ClientCommits, ClientStep, Commits
<1>2. \A k \in Jobs : MayAsk(k)' => MayAsk(k) /\ k # j
  BY <1>1 DEF MayAsk, AccountInv, RunInv, RunOf, Waits, Holding, Types, RuntimeTypeOK
<1>3. CASE rt[j].does # "create"
  BY <1>1, <1>2, <1>3, SameAccount DEF OrphanAsks
<1>4. CASE rt[j].does = "create"
  <2>1. at[j] = "creating" /\ MayAsk(j)
    BY <1>1, <1>4 DEF AccountInv, RunInv, RunOf, Waits, Holding, MayAsk
  <2>2. asked = 0 /\ ~OrphanAsks /\ Claimed(cred) /\ Claimed(safe)
    BY <2>1 DEF AccountInv, IdentityInv, IdentityOf
  <2>3. \A k \in Jobs : ~MayAsk(k)'
    BY <1>1, <1>2, <2>1, UserAlone DEF Alone, MayAsk, UserSteps
  <2>4. asked' = 1 /\ ~OrphanAsks' /\ Claimed(cred)' /\ Claimed(safe)'
    BY <1>1, <1>4, <2>2 DEF OrphanAsks, Claimed
  <2>5. IdentityInv'
    BY <1>1, <2>3, <2>4 DEF AccountInv, IdentityInv, IdentityOf, AskedInv, Claimed
  <2>6. HandleInv'
    BY <1>1 DEF AccountInv, HandleInv, HandleOf, HandleKept
  <2>7. QED  BY <2>5, <2>6
<1>5. QED  BY <1>3, <1>4

LEMMA ClientWritesAccount ==
  ASSUME AccountInv, NEW j \in Jobs, ClientWrites(j)
  PROVE  IdentityInv' /\ HandleInv'
<1>1. /\ UNCHANGED <<at, cred, safe, asked, rt, orphan>>
      /\ rt[j].at = "client" /\ client[j] = "committed" /\ client' = [client EXCEPT ![j] = "wrote"]
  BY DEF ClientWrites, ClientStep
<1>2. \A k \in Jobs : MayAsk(k)' => MayAsk(k)
  BY <1>1 DEF MayAsk, AccountInv, Types, RuntimeTypeOK
<1>3. CASE UNCHANGED <<job, wrote>>
  BY <1>1, <1>2, <1>3, SameAccount DEF OrphanAsks
<1>4. CASE /\ rt[j].does \in {"create", "change"}
           /\ job' = [job EXCEPT ![j].temp = ta] /\ wrote' = ta
  <2>1. at[j] \in {"creating", "changing"}
    BY <1>1, <1>4 DEF AccountInv, RunInv, RunOf, Waits, Holding
  <2>2. Alone(j)
    BY <2>1, UserAlone DEF UserSteps
  <2>3. job'[j].temp = ta /\ \A k \in Jobs : k # j => job'[k] = job[k]
    BY <1>4 DEF AccountInv, Types, JobRecord
  <2>4. \A k \in Jobs : k # j => IdentityOf(k)' /\ HandleOf(k)'
    BY <1>1, <2>2, <2>3 DEF AccountInv, HandleInv, HandleOf, IdentityOf, MayAsk, Alone, UserSteps, TempSteps
  <2>5. IdentityOf(j)' /\ HandleOf(j)'
    BY <1>1, <1>2, <1>4, <2>1, <2>3 DEF AccountInv, IdentityInv, HandleOf, IdentityOf, MayAsk, TempSteps, OrphanAsks,
       Claimed
  <2>6. AskedInv'
    BY <1>1 DEF AccountInv, IdentityInv, AskedInv, OrphanAsks, Claimed
  <2>7. HandleKept'
    BY <1>4, <2>3 DEF HandleKept
  <2>8. QED  BY <2>4, <2>5, <2>6, <2>7 DEF IdentityInv, HandleInv
<1>5. QED  BY <1>3, <1>4 DEF ClientWrites

LEMMA OrphanAccount ==
  ASSUME AccountInv, OrphanMoves
  PROVE  IdentityInv' /\ HandleInv'
<1>1. UNCHANGED <<at, job, cred, safe, wrote, rt, client>>
  BY DEF OrphanMoves, OrphanStep, Commits, accountVars
<1>2. \A k \in Jobs : MayAsk(k)' => MayAsk(k)
  BY <1>1 DEF MayAsk
<1>3. ~OrphanAsks'
  BY DEF OrphanMoves, OrphanStep, OrphanAsks, NoOrphan, AccountInv, Types, RuntimeTypeOK
<1>4. CASE asked' = asked
  BY <1>1, <1>2, <1>3, <1>4, SameAccount
<1>5. CASE asked' = asked + 1 /\ OrphanAsks
  <2>1. asked = 0 /\ Claimed(cred) /\ Claimed(safe) /\ \A k \in Jobs : ~MayAsk(k)
    BY <1>5 DEF AccountInv, IdentityInv, AskedInv, IdentityOf
  <2>2. IdentityInv'
    BY <1>1, <1>2, <1>3, <1>5, <2>1 DEF AccountInv, IdentityInv, IdentityOf, AskedInv, Claimed
  <2>3. HandleInv'
    BY <1>1 DEF AccountInv, HandleInv, HandleOf, HandleKept
  <2>4. QED  BY <2>2, <2>3
<1>6. QED
  BY <1>4, <1>5 DEF OrphanMoves, OrphanStep, Commits, OrphanAsks, accountVars

LEMMA CloseTerminalAccount ==
  ASSUME AccountInv, NEW j \in Jobs, CloseTerminal(j)
  PROVE  IdentityInv' /\ HandleInv'
<1>1. UNCHANGED <<at, cred, safe, asked, wrote>>
  BY DEF CloseTerminal, accountVars
<1>2. \A k \in Jobs : job'[k].temp = job[k].temp /\ job'[k].res = job[k].res
  BY DEF CloseTerminal, AccountInv, Types, JobRecord
<1>3. /\ \A k \in Jobs : k # j => rt'[k] = rt[k]
      /\ rt'[j].at = "over" /\ client' = [client EXCEPT ![j] = "none"]
  BY DEF CloseTerminal, HungUp, AccountInv, Types, RuntimeTypeOK, RunRecord
<1>4. \A k \in Jobs : MayAsk(k)' => MayAsk(k) /\ k # j
  BY <1>1, <1>3 DEF CloseTerminal, MayAsk, AccountInv, Types, RuntimeTypeOK
<1>5. CASE OrphanAsks' => OrphanAsks
  BY <1>1, <1>2, <1>4, <1>5, SameAccount
<1>6. CASE OrphanAsks' /\ ~OrphanAsks
  <2>1. client[j] = "begun" /\ rt[j].does = "create"
    BY <1>6 DEF CloseTerminal, HungUp, OrphanAsks
  <2>2. at[j] = "creating" /\ MayAsk(j)
    BY <2>1 DEF AccountInv, RunInv, RunOf, Waits, Holding, MayAsk
  <2>3. asked = 0 /\ Claimed(cred) /\ Claimed(safe)
    BY <2>2 DEF AccountInv, IdentityInv, IdentityOf
  <2>4. \A k \in Jobs : ~MayAsk(k)'
    BY <1>1, <1>4, <2>2, UserAlone DEF Alone, MayAsk, UserSteps
  <2>5. IdentityInv'
    BY <1>1, <1>2, <2>3, <2>4 DEF AccountInv, IdentityInv, IdentityOf, AskedInv, Claimed
  <2>6. HandleInv'
    BY <1>1, <1>2 DEF AccountInv, HandleInv, HandleOf, HandleKept
  <2>7. QED  BY <2>5, <2>6
<1>7. QED  BY <1>5, <1>6

LEMMA PowerLossAccount ==
  ASSUME AccountInv, PowerLoss
  PROVE  IdentityInv' /\ HandleInv'
<1>1. /\ asked' = asked /\ cred' \in {cred, safe} /\ safe' = cred' /\ orphan' = NoOrphan
      /\ \A k \in Jobs : at'[k] = "idle" /\ job'[k] = NoJob
  BY DEF PowerLoss, RuntimeGone
<1>2. IdentityInv'
  BY <1>1 DEF AccountInv, IdentityInv, IdentityOf, AskedInv, MayAsk, OrphanAsks, NoOrphan, Claimed
<1>3. wrote' # 0 => wrote' \in {cred'.handle} \cup cred'.kept
  BY DEF PowerLoss
<1>4. HandleInv'
  BY <1>1, <1>3 DEF HandleInv, HandleOf, HandleKept, NoJob
<1>5. QED  BY <1>2, <1>4

LEMMA AccountInvInit == Init => AccountInv
<1>1. SUFFICES ASSUME Init  PROVE UserInv /\ IdentityInv /\ HandleInv
  BY TypesInit, RunInvInit DEF AccountInv
<1>2. UserInv
  BY <1>1 DEF Init, UserInv, UserSteps
<1>3. IdentityInv
  BY <1>1 DEF Init, RuntimeInit, IdentityInv, IdentityOf, AskedInv, MayAsk, OrphanAsks, NoOrphan
<1>4. HandleInv
  BY <1>1 DEF Init, HandleInv, HandleOf, HandleKept, NoJob
<1>5. QED  BY <1>2, <1>3, <1>4

LEMMA AccountInvStep == AccountInv /\ [Next]_vars => AccountInv'
<1>1. SUFFICES ASSUME AccountInv, [Next]_vars  PROVE IdentityInv' /\ HandleInv'
  BY TypesStep, RunInvStep, UserInvStep DEF AccountInv
<1>2. Types
  BY <1>1 DEF AccountInv
<1>3. ASSUME NEW j \in Jobs, Start(j)  PROVE IdentityInv' /\ HandleInv'
  <2>1. Own(j)
    BY <1>2, <1>3, OwnStep
  <2>2. CASE \E f \in Fingers : StartNative(j, f)
    <3>1. Alone(j)
      BY <1>1, <2>2, UserAlone DEF StartNative
    <3>2. QED  BY <1>1, <2>1, <2>2, <3>1, AloneServes, StartNativeServes, AloneAccount
  <2>3. CASE (\E f \in Fingers : StartAccept(j, f)) \/ StartSync(j)
    <3>1. Quiet(j)
      BY <1>2, <2>3 DEF StartAccept, StartSync, Goto, accountVars, Quiet, UserSteps, TempSteps, Types, JobRecord
    <3>2. QED  BY <1>1, <2>1, <3>1, QuietAccount
  <2>4. QED  BY <1>3, <2>2, <2>3 DEF Start
<1>4. ASSUME NEW j \in Jobs, Native(j) \/ Credentials(j) \/ Acceptance(j) \/ SerializeFails(j), ~Quiet(j)
      PROVE  IdentityInv' /\ HandleInv'
  <2>1. Own(j)
    BY <1>2, <1>4, OwnStep
  <2>2. \/ WriteRecord(j) \/ WriteMarker(j) \/ NativeCreated(j) \/ RunCreate(j) \/ CreateReturns(j) \/ LinkHandle(j)
        \/ SyncHandle(j) \/ ChangeReturns(j) \/ ReplaceHandle(j) \/ DropPrevious(j) \/ OpenAccount(j) \/ PamAccepts(j)
    BY <1>2, <1>4, NativeQuiet, CredentialsQuiet, AcceptanceQuiet DEF Native, Credentials
  <2>3. OpenAccount(j) => MayCreate(j)
    BY <1>2, <1>4 DEF OpenAccount, End, Goto, Quiet, NoJob, TempSteps, UserSteps, Types
  <2>4. Alone(j)
    BY <1>1, <2>2, <2>3, UserAlone DEF WriteRecord, WriteMarker, NativeCreated, RunCreate, CreateReturns, LinkHandle,
       SyncHandle, ChangeReturns, ReplaceHandle, DropPrevious, PamAccepts, UserSteps, MayCreate
  <2>5. Serves(j)
    BY <1>1, <2>4, AloneServes
  <2>6. Serves(j)'
    BY <1>1, <2>1, <2>2, <2>5, WriteRecordServes, WriteMarkerServes, NativeCreatedServes, RunCreateServes,
       CreateReturnsServes, LinkHandleServes, SyncHandleServes, ChangeReturnsServes, ReplaceHandleServes,
       DropPreviousServes, OpenAccountServes, PamAcceptsServes
  <2>7. QED  BY <1>1, <2>1, <2>4, <2>6, AloneAccount
<1>5. ASSUME NEW j \in Jobs, Native(j) \/ Credentials(j) \/ Acceptance(j) \/ SerializeFails(j), Quiet(j)
      PROVE  IdentityInv' /\ HandleInv'
  BY <1>1, <1>2, <1>5, OwnStep, QuietAccount
<1>6. ASSUME NEW j \in Jobs, Clients(j) \/ RuntimeFails(j) \/ CloseTerminal(j)  PROVE IdentityInv' /\ HandleInv'
  BY <1>1, <1>6, RuntimeAccount, ClientCommitsAccount, ClientWritesAccount, CloseTerminalAccount DEF Clients
<1>7. ASSUME NEW j \in Jobs, PassOn(j) \/ Cancel(j) \/ StopService(j)  PROVE IdentityInv' /\ HandleInv'
  <2>1. UNCHANGED <<at, cred, safe, asked, wrote, rt, client, orphan>>
    BY <1>7 DEF PassOn, Cancel, StopService, runtimeVars, accountVars
  <2>2. \A k \in Jobs : job'[k].temp = job[k].temp /\ job'[k].res = job[k].res
    BY <1>2, <1>7 DEF PassOn, Cancel, StopService, Types, JobRecord
  <2>3. QED  BY <1>1, <2>1, <2>2, SameAccount DEF MayAsk, OrphanAsks
<1>8. ASSUME Recover \/ DeletePrint \/ KeyExpires \/ Rest \/ UNCHANGED vars  PROVE IdentityInv' /\ HandleInv'
  <2>1. UNCHANGED <<at, cred, safe, asked, wrote, rt, client, orphan>>
    BY <1>8 DEF Recover, DeletePrint, KeyExpires, Rest, vars, runtimeVars, accountVars
  <2>2. \A k \in Jobs : job'[k].temp = job[k].temp /\ job'[k].res = job[k].res
    BY <1>2, <1>8 DEF Recover, DeletePrint, KeyExpires, Rest, vars, Types, JobRecord
  <2>3. QED  BY <1>1, <2>1, <2>2, SameAccount DEF MayAsk, OrphanAsks
<1>9. QED
  BY <1>1, <1>3, <1>4, <1>5, <1>6, <1>7, <1>8, OrphanAccount, PowerLossAccount, StepCases

\* The secure world is asked for an identity once, whatever is interrupted:
\* native_enrol.py and user_credentials.py write create.requested before they ask.
THEOREM IdentityAskedOnce == Spec => []AskedOnce
<1>1. AccountInv => AskedOnce
  BY DEF AccountInv, IdentityInv, AskedInv, AskedOnce
<1>2. QED  BY <1>1, AccountInvInit, AccountInvStep, PTL DEF Spec

\* The handle to it is never dropped: native_credentials.py, create and change.
THEOREM HandleIsKept == Spec => []HandleKept
<1>1. AccountInv => HandleKept
  BY DEF AccountInv, HandleInv
<1>2. QED  BY <1>1, AccountInvInit, AccountInvStep, PTL DEF Spec

-----------------------------------------------------------------------------
(* What GNOME Settings takes for a success.                                  *)

Settled == {"copy", "say", "save"}

\* A run that returned 0 had the only listener and left the sensor off; one job
\* at a time comes through GNOME Settings.
NativeOf(j) ==
  /\ job[j].does = "native" => interface = "fprintd"
  /\ at[j] \in Settled => job[j].does = "native" /\ rt[j].at = "over" /\ rt[j].result = 0
  /\ rt[j].result = 0 => rt[j].at \in {"cleanup", "over"}
  /\ rt[j].at = "cleanup" /\ rt[j].result = 0 => listeners = {j}
  /\ interface = "fprintd" /\ rt[j].at = "over" /\ rt[j].result = 0 => listeners = {} /\ sensor = "off"
  /\ at[j] = "idle" => rt[j] = NoRun /\ job[j] = NoJob
Single == interface = "fprintd" => /\ ~hungup
                                   /\ \A j, k \in Jobs : at[j] # "idle" /\ at[k] # "idle" => j = k
NativeInv == Single /\ \A j \in Jobs : NativeOf(j)

\* What a step after the start of a job makes of what it is for.
Proceeds(j) ==
  /\ at[j] # "idle" /\ job'[j].does \in {job[j].does, "none"}
  /\ at'[j] \in Settled => /\ job'[j].does = "native"
                           /\ at[j] \in Settled \/ (Over(j) /\ rt[j].result # 1)

LEMMA NativeProceeds ==
  ASSUME Types, NativeInv, NEW j \in Jobs, Native(j) \/ SerializeFails(j)
  PROVE  Proceeds(j)
  BY DEF Native, WriteRecord, WriteMarker, NativeCreated, NativeEnrolled, NativeAccepts, MidFailed, CopyDatabase,
     SayOk,
     FprintdSaves, SerializeFails, End, Continue, Goto, NoJob, Proceeds, Settled, Types, NativeInv, NativeOf

\* What a job is for, and for which finger, stays until it ends.
LEMMA CredentialsKeepJob ==
  ASSUME Types, NEW j \in Jobs, Credentials(j), at'[j] # "idle"
  PROVE  job'[j].does = job[j].does /\ job'[j].finger = job[j].finger
<1>1. CASE CreateReturns(j)
  <2> DEFINE c == IF rt[j].line = "clean" THEN job[j].clean ELSE FALSE
  <2>1. \/ job' = [job EXCEPT ![j].res = 1, ![j].clean = c, ![j].temp = 0]
        \/ job' = [job EXCEPT ![j].clean = c]
    BY <1>1 DEF CreateReturns
  <2> HIDE DEF c
  <2>2. QED  BY <2>1 DEF Types, JobRecord
<1>2. CASE \/ LinkHandle(j) \/ SyncHandle(j) \/ ChangeReturns(j) \/ ReplaceHandle(j) \/ DropPrevious(j)
  BY <1>2 DEF LinkHandle, SyncHandle, ChangeReturns, ReplaceHandle, DropPrevious, Types, JobRecord
<1>3. CASE RunCreate(j) \/ RunEnrol(j) \/ RunChange(j) \/ Changed(j)
  BY <1>3 DEF RunCreate, RunEnrol, RunChange, Changed, End, Goto, Types, JobRecord
<1>4. QED  BY <1>1, <1>2, <1>3 DEF Credentials

LEMMA CredentialsProceed ==
  ASSUME Types, NEW j \in Jobs, Credentials(j)
  PROVE  Proceeds(j)
<1>1. at[j] # "idle" /\ at'[j] \notin Settled
  BY DEF Credentials, RunCreate, CreateReturns, LinkHandle, SyncHandle, RunEnrol, RunChange, ChangeReturns,
     ReplaceHandle, DropPrevious, Changed, End, Launch, Goto, Settled, Types
<1>2. at'[j] = "idle" => job'[j] = NoJob
  BY CredentialsOwn DEF Own, Waits, Waiting
<1>3. QED  BY <1>1, <1>2, CredentialsKeepJob DEF Proceeds, NoJob

LEMMA AcceptanceProceeds ==
  ASSUME Types, NEW j \in Jobs, Acceptance(j)
  PROVE  Proceeds(j)
<1>1. CASE OpenStore(j) \/ Authenticate(j) \/ Verify(j)
  BY <1>1 DEF OpenStore, Authenticate, Verify, Rounds, End, Launch, Goto, NoJob, Proceeds, Settled, Types, JobRecord
<1>2. CASE \/ OpenAccount(j) \/ PamRefuses(j) \/ PamAccepts(j) \/ PrepareInput(j) \/ AuthenticateFails(j) \/ Enrolled(j)
           \/ MarkReady(j) \/ Serialize(j) \/ LinkPrint(j) \/ UnlinkDatabase(j) \/ UnlinkReady(j) \/ VerifyFails(j)
           \/ VerifyPasses(j) \/ WriteReport(j) \/ RenameReport(j) \/ EnableFprintd(j)
  BY <1>2 DEF OpenAccount, PamRefuses, PamAccepts, PrepareInput, AuthenticateFails, Enrolled, MarkReady, Serialize,
     LinkPrint, UnlinkDatabase, UnlinkReady, VerifyFails, VerifyPasses, WriteReport, RenameReport, EnableFprintd,
     AfterRound, End, Continue, Goto, NoJob, Proceeds, Settled, Types
<1>3. QED  BY <1>1, <1>2 DEF Acceptance

LEMMA OwnNative ==
  ASSUME Types, NativeInv, NEW j \in Jobs, Own(j), Proceeds(j)
  PROVE  NativeInv'
<1>1. /\ UNCHANGED <<interface, hungup, listeners, sensor>>
      /\ \A k \in Jobs : k # j => at'[k] = at[k] /\ rt'[k] = rt[k] /\ job'[k] = job[k]
      /\ at[j] # "idle"
  BY DEF Own, Proceeds, hardware
<1>2. Single'
  BY <1>1 DEF NativeInv, Single
<1>3. \A k \in Jobs : k # j => NativeOf(k)'
  BY <1>1 DEF NativeInv, NativeOf
<1>4. /\ at'[j] = "idle" => rt'[j] = NoRun /\ job'[j] = NoJob
      /\ rt'[j].result = 0 => rt'[j] = rt[j]
  BY DEF Own, NoRun, Launched, Fresh, Operations, Waits
<1>5. at'[j] \in Settled => rt'[j].at = "over" /\ rt'[j].result = 0
  <2>1. at'[j] \in Settled => rt'[j] = rt[j]
    BY DEF Own, Waits, Settled
  <2>2. QED  BY <2>1 DEF Proceeds, NativeInv, NativeOf, Over, Types, RuntimeTypeOK, RunRecord
<1>6. NativeOf(j)'
  BY <1>1, <1>4, <1>5 DEF Proceeds, NativeInv, NativeOf
<1>7. QED  BY <1>2, <1>3, <1>6 DEF NativeInv

LEMMA StartNativeInv ==
  ASSUME Types, NativeInv, NEW j \in Jobs, Start(j)
  PROVE  NativeInv'
<1>1. /\ UNCHANGED <<interface, hungup, listeners, sensor, rt>>
      /\ \A k \in Jobs : k # j => at'[k] = at[k] /\ job'[k] = job[k]
      /\ at[j] = "idle" /\ at'[j] # "idle" /\ at'[j] \notin Settled
  BY DEF Start, StartNative, StartAccept, StartSync, Goto, AllIdle, runtimeVars, Settled, Types
<1>2. job'[j].does = "native" => interface = "fprintd"
  BY DEF Start, StartNative, StartAccept, StartSync, Types, JobRecord
<1>3. interface = "fprintd" => AllIdle
  BY DEF Start, StartNative, StartAccept, StartSync
<1>4. Single'
  BY <1>1, <1>3 DEF NativeInv, Single, AllIdle
<1>5. \A k \in Jobs : k # j => NativeOf(k)'
  BY <1>1 DEF NativeInv, NativeOf
<1>6. NativeOf(j)'
  BY <1>1, <1>2 DEF NativeInv, NativeOf
<1>7. QED  BY <1>4, <1>5, <1>6 DEF NativeInv

\* The run of j moves; nobody else is at the hardware.
LEMMA RunNative ==
  ASSUME Types, RunInv, NativeInv, NEW j \in Jobs, RuntimeStep(j) \/ RuntimeFails(j)
  PROVE  NativeInv'
<1>1. UNCHANGED <<interface, hungup, at, job>>
  BY DEF RuntimeStep, RuntimeFails, boundVars, otherBounds
<1>2. /\ \A k \in Jobs : k # j => rt'[k] = rt[k]
      /\ rt[j].at \in Holding \cup {"start"}
  BY DEF RuntimeStep, RuntimeFails, Runtime, Refused, TakeLock, NotReady, StartClient, ClientExits, StopClient,
     Cleanup,
     CleanupRaises, Holding, Types, RuntimeTypeOK
<1>3. /\ rt'[j].result = 0 => rt'[j].at \in {"cleanup", "over"}
      /\ rt'[j].at = "cleanup" /\ rt'[j].result = 0 => listeners' = {j}
      /\ rt'[j].at = "over" /\ rt'[j].result = 0 => listeners' = {} /\ sensor' = "off"
  <2>1. CASE \E power : Refused(j) \/ NotReady(j) \/ ClientExits(j, 1) \/ StopClient(j, power) \/ CleanupRaises(j)
    <3>1. rt'[j].result # 0
      BY <2>1 DEF Refused, NotReady, ClientExits, StopClient, CleanupRaises, NativeInv, NativeOf, Types,
         RuntimeTypeOK,
         RunRecord
    <3>2. QED  BY <3>1
  <2>2. CASE TakeLock(j) \/ StartClient(j)
    <3>1. rt'[j].result # 0
      BY <2>2 DEF TakeLock, StartClient, NativeInv, NativeOf, Types, RuntimeTypeOK, RunRecord
    <3>2. QED  BY <3>1
  <2>3. CASE ClientExits(j, 0)
    BY <2>3 DEF ClientExits, RunInv, RunOf, Types, RuntimeTypeOK, RunRecord
  <2>4. CASE Cleanup(j)
    BY <2>4 DEF Cleanup, SaysClean, NativeInv, NativeOf, Types, RuntimeTypeOK, RunRecord
  <2>5. QED  BY <2>1, <2>2, <2>3, <2>4 DEF RuntimeStep, Runtime, RuntimeFails
<1>4. at[j] \in Waiting
  BY <1>2 DEF RunInv, RunOf, Waits, Waiting
<1>5. NativeOf(j)'
  BY <1>1, <1>3, <1>4 DEF NativeInv, NativeOf, Waiting, Settled
<1>6. ASSUME NEW k \in Jobs, k # j  PROVE NativeOf(k)'
  <2>1. rt[k].at = "cleanup" => listeners' = listeners
    <3>1. SUFFICES ASSUME rt[k].at = "cleanup"  PROVE listeners' = listeners
      OBVIOUS
    <3>2. operationLock = k /\ j \notin listeners /\ rt[j].at \notin Holding
      BY <1>6, <3>1 DEF RunInv, RunOf, Holding
    <3>3. QED
      BY <1>6, <3>2, NobodyAssumption DEF RuntimeStep, RuntimeFails, Runtime, Refused, TakeLock, LockFree, NotReady,
         StartClient,
         ClientExits, StopClient, Cleanup, CleanupRaises, Holding
  <2>2. interface = "fprintd" => rt[k] = NoRun
    BY <1>4, <1>6 DEF NativeInv, Single, NativeOf, Waiting
  <2>3. rt[k] = NoRun => rt[k].at = "none"
    BY DEF NoRun, Fresh
  <2>4. QED  BY <1>1, <1>2, <1>6, <2>1, <2>2, <2>3 DEF NativeInv, NativeOf
<1>7. QED  BY <1>1, <1>5, <1>6 DEF NativeInv, Single

LEMMA ClientNative ==
  ASSUME Types, RunInv, NativeInv, NEW j \in Jobs, ClientCommits(j) \/ ClientWrites(j)
  PROVE  NativeInv'
<1>1. UNCHANGED <<interface, hungup, at, rt, listeners>> /\ rt[j].at = "client"
  BY DEF ClientCommits, ClientWrites, ClientStep, boundVars
<1>2. \A k \in Jobs : job'[k].does = job[k].does /\ (at[k] = "idle" => job'[k] = job[k])
  <2>1. at[j] # "idle"
    BY <1>1 DEF RunInv, RunOf, Waits, Holding
  <2>2. QED  BY <2>1 DEF ClientCommits, ClientWrites, Types, JobRecord
<1>3. ASSUME NEW k \in Jobs, interface = "fprintd"  PROVE rt[k].at # "over"
  <2>1. at[j] # "idle"
    BY <1>1 DEF RunInv, RunOf, Waits, Holding
  <2>2. k # j => rt[k] = NoRun
    BY <1>3, <2>1 DEF NativeInv, Single, NativeOf
  <2>3. QED  BY <1>1, <2>2 DEF NoRun, Fresh
<1>4. QED  BY <1>1, <1>2, <1>3 DEF NativeInv, NativeOf, Single

LEMMA CloseNative ==
  ASSUME Types, RunInv, NativeInv, NEW j \in Jobs, CloseTerminal(j)
  PROVE  NativeInv'
<1>1. /\ interface = "helper" /\ interface' = interface /\ at' = at
      /\ HungUp(j) /\ at[j] \in {"creating", "changing", "capturing"}
      /\ \A k \in Jobs : k # j => job'[k] = job[k]
  BY DEF CloseTerminal, otherBounds, Types
<1>2. /\ rt'[j].result = 1 /\ \A k \in Jobs : k # j => rt'[k] = rt[k]
      /\ j \notin listeners => listeners' = listeners
  <2>1. rt'[j].result = 1 /\ \A k \in Jobs : k # j => rt'[k] = rt[k]
    BY <1>1 DEF HungUp, Types, RuntimeTypeOK, RunRecord
  <2>2. j \notin listeners => listeners' = listeners
    <3>1. j \notin listeners => listeners \ {j} = listeners
      OBVIOUS
    <3>2. QED  BY <1>1, <3>1 DEF HungUp
  <2>3. QED  BY <2>1, <2>2
<1>3. job'[j].does = job[j].does
  BY DEF CloseTerminal, Types, JobRecord
<1>4. NativeOf(j)'
  BY <1>1, <1>2, <1>3 DEF NativeInv, NativeOf, Settled
<1>5. \A k \in Jobs : k # j => NativeOf(k)'
  <2>1. \A k \in Jobs : k # j /\ listeners = {k} => listeners' = listeners
    BY <1>2
  <2>2. QED  BY <1>1, <1>2, <2>1 DEF NativeInv, NativeOf
<1>6. QED  BY <1>1, <1>4, <1>5 DEF NativeInv, Single

LEMMA NativeInvInit == Init => NativeInv
  BY DEF Init, RuntimeInit, NativeInv, NativeOf, Single, Settled, NoRun, Fresh, NoJob

LEMMA NativeInvStep == Types /\ RunInv /\ NativeInv /\ [Next]_vars => NativeInv'
<1>1. SUFFICES ASSUME Types, RunInv, NativeInv, [Next]_vars  PROVE NativeInv'
  OBVIOUS
<1>2. ASSUME NEW j \in Jobs, Native(j) \/ Credentials(j) \/ Acceptance(j) \/ SerializeFails(j)
      PROVE  NativeInv'
  <2>1. Own(j) /\ Proceeds(j)
    BY <1>1, <1>2, OwnStep, NativeProceeds, CredentialsProceed, AcceptanceProceeds
  <2>2. QED  BY <1>1, <2>1, OwnNative
<1>3. ASSUME NEW j \in Jobs, Start(j) \/ Clients(j) \/ RuntimeFails(j) \/ CloseTerminal(j)
      PROVE  NativeInv'
  BY <1>1, <1>3, StartNativeInv, RunNative, ClientNative, CloseNative DEF Clients
<1>4. ASSUME UNCHANGED <<runtimeVars, at, interface, hungup>>,
             \A k \in Jobs : job'[k].does = job[k].does /\ (at[k] = "idle" => job'[k] = job[k])
      PROVE  NativeInv'
  BY <1>1, <1>4 DEF NativeInv, NativeOf, Single, runtimeVars
<1>5. ASSUME NEW j \in Jobs, PassOn(j) \/ Cancel(j) \/ StopService(j)  PROVE NativeInv'
  <2>1. UNCHANGED <<runtimeVars, at, interface, hungup>> /\ at[j] # "idle"
    BY <1>5 DEF PassOn, Cancel, StopService, ChildLives, AfterRound, boundVars, otherBounds
  <2>2. \A k \in Jobs : job'[k].does = job[k].does /\ (k # j => job'[k] = job[k])
    BY <1>1, <1>5 DEF PassOn, Cancel, StopService, Types, JobRecord
  <2>3. QED  BY <1>4, <2>1, <2>2
<1>6. ASSUME Recover  PROVE NativeInv'
  <2>1. UNCHANGED <<runtimeVars, at, interface, hungup>>
    BY <1>6 DEF Recover
  <2>2. \A k \in Jobs : job'[k].does = job[k].does /\ (at[k] = "idle" => job'[k] = job[k])
    BY <1>1, <1>6 DEF Recover, AfterRound, Types, JobRecord
  <2>3. QED  BY <1>4, <2>1, <2>2
<1>7. ASSUME DeletePrint \/ KeyExpires \/ Rest \/ UNCHANGED vars  PROVE NativeInv'
  BY <1>4, <1>7 DEF DeletePrint, KeyExpires, Rest, vars, boundVars
<1>8. ASSUME OrphanMoves  PROVE NativeInv'
  <2>1. /\ UNCHANGED <<listeners, rt, at, job, interface, hungup>>
        /\ orphan.stage # "none"
    BY <1>8 DEF OrphanMoves, OrphanStep, boundVars
  <2>2. interface # "fprintd"
    BY <1>1, <2>1 DEF RunInv, PathInv, NativeInv, Single, NoOrphan
  <2>3. QED  BY <1>1, <2>1, <2>2 DEF NativeInv, NativeOf, Single
<1>9. ASSUME PowerLoss  PROVE NativeInv'
  BY <1>1, <1>9 DEF PowerLoss, RuntimeGone, otherBounds, NativeInv, NativeOf, Single, Settled, NoRun, Fresh, NoJob
<1>10. QED  BY <1>1, <1>2, <1>3, <1>5, <1>6, <1>7, <1>8, <1>9, StepCases

\* What native_enrol.py reports to GNOME Settings as enrolled leaves the hardware
\* as the first run found it: sensor off, path restored, nobody there.
THEOREM ReportedIsClean == Spec => []OkIsClean
<1>1. ASSUME Types, RunInv, NativeInv, NEW j \in Jobs, at[j] = "save"  PROVE HardwareIdle
  <2>1. interface = "fprintd" /\ rt[j].at = "over" /\ listeners = {} /\ sensor = "off"
    BY <1>1 DEF NativeInv, NativeOf, Settled
  <2>2. \A k \in Jobs : rt[k].at \notin Holding
    <3>1. ASSUME NEW k \in Jobs, k # j  PROVE rt[k].at = "none"
      BY <1>1, <2>1, <3>1 DEF NativeInv, Single, NativeOf, NoRun, Fresh
    <3>2. QED  BY <2>1, <3>1 DEF Holding
  <2>3. operationLock = Nobody /\ \A k \in Jobs : client[k] = "none"
    BY <1>1, <2>2 DEF RunInv, RunOf, Holding, Types, RuntimeTypeOK
  <2>4. orphan = NoOrphan /\ firmwarePath = "empty"
    BY <1>1, <2>1, <2>3 DEF RunInv, PathInv, NativeInv, Single
  <2>5. QED  BY <2>1, <2>3, <2>4 DEF HardwareIdle
<1>2. Types /\ RunInv /\ NativeInv => OkIsClean
  BY <1>1 DEF OkIsClean
<1>3. QED
  BY <1>2, RunInvInit, RunInvStep, NativeInvInit, NativeInvStep, TypesHold, PTL DEF Spec

-----------------------------------------------------------------------------
(* The template that is published.                                           *)

NativeSteps == {"record", "marker", "create", "creating", "link", "sync", "created",
                "capture", "capturing", "copy", "say", "save"}
SyncSteps == {"change", "changing", "replace", "replaced", "changed"}
Exported == {"mark", "serialize", "expose", "tidyDb"}

\* The steps of enrol_publish.py, between the lock of the store and its release.
InStore(j) ==
  \/ at[j] \in Exported \cup {"authenticate", "tidyReady"}
  \/ interface = "helper" /\ at[j] \in {"capture", "capturing"}

\* The export is one that a chain which returned 0 has left.
Vouched == outlived \/ pending.db = "accepted"

\* Who is in the store is alone there and finds nothing published until it has
\* published itself; what it publishes is there and vouched for.
StoreOf(j) ==
  /\ interface = "fprintd" /\ at[j] # "idle" => at[j] \in NativeSteps /\ job[j].does = "native" /\ prints = {}
  /\ at[j] \notin SyncSteps \cup {"idle"} => job[j].finger \in Fingers
  /\ InStore(j) => storeLock = j /\ (at[j] \in {"tidyDb", "tidyReady"} \/ prints = {})
  /\ at[j] \in Exported => pending.db # "none" /\ Vouched

\* A ready marker vouches for the export beside it, but for the moment when the
\* export is gone and the marker about to go.
MarkerInv == pending.ready # NoFinger => Vouched \/ \E j \in Jobs : at[j] = "tidyReady"

Template == [finger : Fingers, from : {"raw", "accepted"}]
PrintInv ==
  /\ prints = {} \/ \E p \in Template : prints = {p}
  /\ outlived \/ \A p \in prints : p.from = "accepted"

StoreInv == MarkerInv /\ PrintInv /\ \A j \in Jobs : StoreOf(j)

\* A step of j that neither publishes nor exports: the lock of the store is kept,
\* or given back by a job that ends.
Plain(j) ==
  /\ pending' = pending /\ prints' = prints /\ outlived' = outlived
  /\ at[j] # "tidyReady"
  /\ storeLock' = storeLock \/ (at'[j] = "idle" /\ storeLock' = Free(storeLock, j))

LEMMA PlainStore ==
  ASSUME Types, StoreInv, NEW j \in Jobs, Own(j), Plain(j), StoreOf(j)'
  PROVE  StoreInv'
<1>1. /\ UNCHANGED <<pending, prints, outlived, interface>>
      /\ \A k \in Jobs : k # j => at'[k] = at[k] /\ job'[k] = job[k]
  BY DEF Own, Plain
<1>2. MarkerInv' /\ PrintInv'
  BY <1>1 DEF Plain, StoreInv, MarkerInv, PrintInv, Vouched, Template
<1>3. ASSUME NEW k \in Jobs, k # j  PROVE StoreOf(k)'
  BY <1>1, <1>3 DEF Plain, Free, StoreInv, StoreOf, InStore, Vouched
<1>4. QED  BY <1>2, <1>3 DEF StoreInv

LEMMA StartStore ==
  ASSUME Types, NativeInv, StoreInv, NEW j \in Jobs, Start(j)
  PROVE  StoreInv'
<1>1. Own(j) /\ Plain(j)
  BY StartOwn DEF Start, StartNative, StartAccept, StartSync, AllIdle, templateVars, Plain
<1>2. CASE \E f \in Fingers : StartNative(j, f)
  <2>1. PICK f \in Fingers : StartNative(j, f)
    BY <1>2
  <2>2. /\ interface = "fprintd" /\ interface' = interface /\ prints = {} /\ prints' = prints
        /\ at'[j] \in {"capture", "record"}
    BY <2>1 DEF StartNative, Goto, templateVars, Types
  <2>3. job'[j].does = "native" /\ job'[j].finger = f
    BY <2>1 DEF StartNative, Types, JobRecord
  <2>4. StoreOf(j)'
    BY <2>2, <2>3 DEF StoreOf, InStore, Exported, NativeSteps, SyncSteps
  <2>5. QED  BY <1>1, <2>4, PlainStore
<1>3. CASE \E f \in Fingers : StartAccept(j, f)
  <2>1. PICK f \in Fingers : StartAccept(j, f)
    BY <1>3
  <2>2. /\ interface' = "helper" /\ at'[j] \in {"verify1", "credential", "publish"} /\ job'[j].finger = f
    BY <2>1 DEF StartAccept, Goto, Types, JobRecord
  <2>3. StoreOf(j)'
    BY <2>2 DEF StoreOf, InStore, Exported
  <2>4. QED  BY <1>1, <2>3, PlainStore
<1>4. CASE StartSync(j)
  <2>1. interface' = "helper" /\ at'[j] = "change"
    BY <1>4 DEF StartSync, Goto, Types
  <2>2. StoreOf(j)'
    BY <2>1 DEF StoreOf, InStore, Exported, SyncSteps
  <2>3. QED  BY <1>1, <2>2, PlainStore
<1>5. QED  BY <1>2, <1>3, <1>4 DEF Start

\* A job that ends is nowhere.
LEMMA EndStore ==
  ASSUME NEW j \in Jobs, at'[j] = "idle"
  PROVE  StoreOf(j)'
  BY DEF StoreOf, InStore, Exported, SyncSteps

LEMMA NativeStore ==
  ASSUME Types, NativeInv, StoreInv, NEW j \in Jobs, Native(j) \/ SerializeFails(j), ~FprintdSaves(j)
  PROVE  StoreInv'
<1>1. Own(j)
  BY NativeOwn
<1>2. Plain(j)
  BY DEF Native, WriteRecord, WriteMarker, NativeCreated, NativeEnrolled, CopyDatabase, SayOk, SerializeFails,
     End, Continue, Goto, Plain, templateVars, boundVars, Types
<1>3. StoreOf(j)'
  <2>1. CASE at'[j] = "idle"
    BY <2>1, EndStore
  <2>2. CASE at'[j] # "idle"
    <3>1. /\ UNCHANGED <<interface, prints, job>>
          /\ \/ at[j] \in {"record", "marker", "created", "capturing"} /\ job'[j] = job[j]
             \/ at[j] \in {"copy", "say"}
          /\ at'[j] \in {"marker", "create", "capture", "copy", "say", "save"}
          /\ at'[j] = "capture" => job[j].does = "native"
      BY <2>2 DEF Native, WriteRecord, WriteMarker, NativeCreated, NativeEnrolled, CopyDatabase, SayOk,
         SerializeFails,
         End, Continue, Goto, templateVars, boundVars, Types
    <3>2. at'[j] = "capture" => interface = "fprintd"
      BY <3>1 DEF NativeInv, NativeOf
    <3>3. interface \in {"fprintd", "helper"}
      BY DEF Types
    <3>4. QED  BY <3>1, <3>2, <3>3 DEF StoreInv, StoreOf, InStore, Exported, NativeSteps, SyncSteps
  <2>3. QED  BY <2>1, <2>2
<1>4. QED  BY <1>1, <1>2, <1>3, PlainStore

LEMMA CredentialsStore ==
  ASSUME Types, NativeInv, StoreInv, NEW j \in Jobs, Credentials(j)
  PROVE  StoreInv'
<1>1. Own(j)
  BY CredentialsOwn
<1>2. Plain(j)
  BY DEF Credentials, RunCreate, CreateReturns, LinkHandle, SyncHandle, RunEnrol, RunChange, ChangeReturns,
     ReplaceHandle, DropPrevious, Changed, End, Launch, Goto, Plain, templateVars, boundVars, Types
<1>3. StoreOf(j)'
  <2>1. CASE at'[j] = "idle"
    BY <2>1, EndStore
  <2>2. CASE at'[j] # "idle"
    <3>1. /\ UNCHANGED <<interface, prints>>
          /\ at'[j] \in SyncSteps <=> at[j] \in SyncSteps
          /\ at[j] \in NativeSteps <=> at'[j] \in NativeSteps
          /\ at'[j] \notin Exported \cup {"authenticate", "tidyReady", "capture"}
          /\ at'[j] = "capturing" => at[j] = "capture" /\ storeLock' = storeLock
          /\ at[j] # "idle"
      BY <2>2, CredentialsMove DEF CredentialMove, SyncSteps, NativeSteps, Exported
    <3>2. QED  BY <2>2, <3>1, CredentialsKeepJob DEF StoreInv, StoreOf, InStore, Exported
  <2>3. QED  BY <2>1, <2>2
<1>4. QED  BY <1>1, <1>2, <1>3, PlainStore
\* What is added to an empty store.
LEMMA FirstPrint ==
  ASSUME NEW p \in Template, prints = {}, prints' = prints \cup {p}, outlived' \/ p.from = "accepted"
  PROVE  PrintInv'
<1>1. prints' = {p}
  OBVIOUS
<1>2. QED  BY <1>1 DEF PrintInv, Template

\* Only the other interface and its jobs come to the steps of acceptance.py.
LEMMA AcceptanceHelps ==
  ASSUME Types, StoreInv, NEW j \in Jobs, Acceptance(j)
  PROVE  interface = "helper"
<1>1. at[j] \notin NativeSteps \/ job[j].does = "accept"
  BY DEF Acceptance, OpenAccount, PamRefuses, PamAccepts, PrepareInput, OpenStore, AuthenticateFails, Authenticate,
     Enrolled, MarkReady, Serialize, LinkPrint, UnlinkDatabase, UnlinkReady, Verify, VerifyFails, VerifyPasses,
     WriteReport, RenameReport, EnableFprintd, Rounds, AfterRound, NativeSteps
<1>2. at[j] # "idle"
  BY DEF Acceptance, OpenAccount, PamRefuses, PamAccepts, PrepareInput, OpenStore, AuthenticateFails, Authenticate,
     Enrolled, MarkReady, Serialize, LinkPrint, UnlinkDatabase, UnlinkReady, Verify, VerifyFails, VerifyPasses,
     WriteReport, RenameReport, EnableFprintd, Rounds, AfterRound
<1>3. QED  BY <1>1, <1>2 DEF StoreInv, StoreOf, Types

Publishing(j) ==
  OpenStore(j) \/ Enrolled(j) \/ MarkReady(j) \/ LinkPrint(j) \/ UnlinkDatabase(j) \/ UnlinkReady(j)

LEMMA AcceptancePlain ==
  ASSUME Types, StoreInv, NEW j \in Jobs, Acceptance(j), ~Publishing(j)
  PROVE  StoreInv'
<1>1. CASE \/ OpenAccount(j) \/ PamRefuses(j) \/ PamAccepts(j) \/ PrepareInput(j) \/ AuthenticateFails(j)
           \/ Authenticate(j) \/ Serialize(j)
  <2>1. Plain(j)
    BY <1>1 DEF OpenAccount, PamRefuses, PamAccepts, PrepareInput, AuthenticateFails, Authenticate, Serialize,
       End, Continue, Goto, templateVars, boundVars, Plain, Types
  <2>2. ASSUME at'[j] # "idle"
        PROVE  /\ at'[j] \in {"pam", "create", "publish"} \/ (at[j] = "authenticate" /\ at'[j] = "capture")
                  \/ (at[j] = "serialize" /\ at'[j] = "expose")
               /\ at[j] \in {"credential", "pam", "created", "authenticate", "serialize"}
               /\ storeLock' = storeLock
    BY <1>1, <2>2 DEF OpenAccount, PamRefuses, PamAccepts, PrepareInput, AuthenticateFails, Authenticate, Serialize,
       End, Continue, Goto, Types
  <2>3. at'[j] # "idle" => job'[j].finger = job[j].finger
    BY <1>1 DEF OpenAccount, PamRefuses, PamAccepts, PrepareInput, AuthenticateFails, Authenticate, Serialize,
       End, Continue, Goto, Types, JobRecord
  <2>4. at'[j] # "idle" => StoreOf(j)'
    <3>1. interface' = "helper"
      BY AcceptanceHelps, AcceptanceOwn DEF Own
    <3>2. QED  BY <2>1, <2>2, <2>3, <3>1 DEF Plain, StoreInv, StoreOf, InStore, Exported, SyncSteps, Vouched
  <2>5. QED  BY <2>1, <2>4, EndStore, AcceptanceOwn, PlainStore
<1>2. CASE \/ Verify(j) \/ VerifyFails(j) \/ VerifyPasses(j) \/ WriteReport(j) \/ RenameReport(j) \/ EnableFprintd(j)
  <2>1. Plain(j)
    BY <1>2 DEF Verify, VerifyFails, VerifyPasses, WriteReport, RenameReport, EnableFprintd, Rounds, AfterRound,
       End, Continue, Launch, Goto, templateVars, boundVars, Plain, Types
  <2>2. ASSUME at'[j] # "idle"
        PROVE  /\ at'[j] \notin Exported \cup {"authenticate", "tidyReady", "capture", "capturing"}
               /\ at[j] \notin SyncSteps \cup {"idle"}
    BY <1>2, <2>2 DEF Verify, VerifyFails, VerifyPasses, WriteReport, RenameReport, EnableFprintd, Rounds, AfterRound,
       End, Continue, Launch, Goto, Types, Exported, SyncSteps
  <2>3. at'[j] # "idle" => job'[j].finger = job[j].finger
    BY <1>2 DEF Verify, VerifyFails, VerifyPasses, WriteReport, RenameReport, EnableFprintd,
       End, Continue, Goto, Types, JobRecord
  <2>4. at'[j] # "idle" => StoreOf(j)'
    <3>1. interface' = "helper"
      BY AcceptanceHelps, AcceptanceOwn DEF Own
    <3>2. QED  BY <2>1, <2>2, <2>3, <3>1 DEF StoreInv, StoreOf, InStore, Exported
  <2>5. QED  BY <2>1, <2>4, EndStore, AcceptanceOwn, PlainStore
<1>3. QED  BY <1>1, <1>2 DEF Acceptance, Publishing

LEMMA PublishingStore ==
  ASSUME Types, StoreInv, NEW j \in Jobs, Publishing(j)
  PROVE  StoreInv'
<1>1. Own(j) /\ interface = "helper" /\ interface' = "helper" /\ outlived' = outlived
  BY AcceptanceOwn, AcceptanceHelps DEF Publishing, Acceptance, Own, OpenStore, Enrolled, MarkReady, LinkPrint,
     UnlinkDatabase, UnlinkReady, boundVars
<1>2. \A k \in Jobs : k # j => at'[k] = at[k] /\ job'[k] = job[k]
  BY <1>1 DEF Own
<1>3. ASSUME at'[j] = "idle"  PROVE StoreInv'
  <2>1. Plain(j)
    BY <1>3 DEF Publishing, OpenStore, Enrolled, MarkReady, LinkPrint, UnlinkDatabase, UnlinkReady,
       End, Continue, Goto, templateVars, boundVars, Plain, Types
  <2>2. QED  BY <1>1, <1>3, <2>1, EndStore, PlainStore
<1>4. ASSUME \A k \in Jobs : k # j => ~InStore(k), StoreOf(j)', MarkerInv', PrintInv'
      PROVE  StoreInv'
  <2>1. \A k \in Jobs : k # j => StoreOf(k)'
    BY <1>1, <1>2, <1>4 DEF StoreInv, StoreOf, InStore, Exported
  <2>2. QED  BY <1>4, <2>1 DEF StoreInv
<1>5. InStore(j) => \A k \in Jobs : k # j => ~InStore(k)
  BY DEF StoreInv, StoreOf
<1>6. ASSUME prints' = prints  PROVE PrintInv'
  BY <1>1, <1>6 DEF StoreInv, PrintInv, Template
<1>7. CASE OpenStore(j) /\ at'[j] # "idle"
  <2>1. /\ at[j] = "publish" /\ storeLock = Nobody /\ prints = {} /\ storeLock' = j
        /\ UNCHANGED <<pending, prints>>
        /\ \/ at'[j] = "authenticate"
           \/ at'[j] = "serialize" /\ pending.db # "none" /\ pending.ready = job[j].finger
    BY <1>7 DEF OpenStore, UsableExport, End, Goto, templateVars, Types
  <2>2. job'[j].finger = job[j].finger
    BY <1>7 DEF OpenStore, End, Goto, Types, JobRecord
  <2>3. \A k \in Jobs : ~InStore(k)
    BY <2>1, NobodyAssumption DEF StoreInv, StoreOf
  <2>4. at'[j] = "serialize" => Vouched
    <3>1. job[j].finger \in Fingers
      BY <2>1 DEF StoreInv, StoreOf, SyncSteps
    <3>2. QED  BY <2>1, <2>3, <3>1, FingerAssumption DEF StoreInv, MarkerInv, InStore
  <2>5. StoreOf(j)'
    BY <1>1, <2>1, <2>2, <2>4 DEF StoreInv, StoreOf, InStore, Exported, Vouched, SyncSteps
  <2>6. MarkerInv'
    BY <1>1, <1>2, <2>1, <2>3 DEF StoreInv, MarkerInv, Vouched, InStore
  <2>7. QED  BY <1>4, <1>6, <2>1, <2>3, <2>5, <2>6
<1>8. CASE Enrolled(j) /\ at'[j] # "idle"
  <2>1. /\ at[j] = "capturing" /\ at'[j] = "mark" /\ pending'.db = "accepted"
        /\ UNCHANGED <<prints, storeLock, job>>
    BY <1>8 DEF Enrolled, Accepts, MidFailed, End, Goto, Types, RuntimeTypeOK, RunRecord
  <2>2. InStore(j)
    BY <1>1, <2>1 DEF InStore
  <2>3. StoreOf(j)'
    BY <1>1, <2>1, <2>2 DEF StoreInv, StoreOf, InStore, Exported, Vouched, SyncSteps
  <2>4. MarkerInv'
    BY <2>1 DEF MarkerInv, Vouched
  <2>5. QED  BY <1>4, <1>5, <1>6, <2>1, <2>2, <2>3, <2>4
<1>9. CASE MarkReady(j) /\ at'[j] # "idle"
  <2>1. /\ at[j] = "mark" /\ at'[j] = "serialize" /\ pending'.db = pending.db
        /\ UNCHANGED <<prints, storeLock, job>>
    BY <1>9 DEF MarkReady, End, Continue, Goto, Types
  <2>2. InStore(j) /\ pending.db # "none" /\ Vouched
    BY <2>1 DEF StoreInv, StoreOf, InStore, Exported
  <2>3. StoreOf(j)' /\ MarkerInv'
    BY <1>1, <2>1, <2>2 DEF StoreInv, StoreOf, MarkerInv, InStore, Exported, Vouched, SyncSteps
  <2>4. QED  BY <1>4, <1>5, <1>6, <2>1, <2>2, <2>3
<1>10. CASE LinkPrint(j) /\ at'[j] # "idle"
  <2> DEFINE p == [finger |-> job[j].finger, from |-> pending.db]
  <2>1. /\ at[j] = "expose" /\ at'[j] = "tidyDb" /\ prints' = prints \cup {p}
        /\ UNCHANGED <<pending, storeLock, job>>
    BY <1>10 DEF LinkPrint, End, Continue, Goto, Types
  <2>2. InStore(j) /\ pending.db # "none" /\ Vouched /\ prints = {} /\ job[j].finger \in Fingers
    BY <2>1 DEF StoreInv, StoreOf, InStore, Exported, SyncSteps
  <2>3. p \in Template /\ p.from = pending.db
    BY <2>2 DEF Template, Types
  <2> HIDE DEF p
  <2>4. PrintInv'
    BY <1>1, <2>1, <2>2, <2>3, FirstPrint DEF Vouched
  <2>5. StoreOf(j)' /\ MarkerInv'
    BY <1>1, <2>1, <2>2 DEF StoreInv, StoreOf, MarkerInv, InStore, Exported, Vouched, SyncSteps
  <2>6. QED  BY <1>4, <1>5, <2>2, <2>4, <2>5
<1>11. CASE UnlinkDatabase(j)
  <2>1. /\ at[j] = "tidyDb" /\ at'[j] = "tidyReady"
        /\ UNCHANGED <<prints, storeLock, job>>
    BY <1>11 DEF UnlinkDatabase, Continue, Goto, Types
  <2>2. InStore(j)
    BY <2>1 DEF InStore, Exported
  <2>3. StoreOf(j)' /\ MarkerInv'
    BY <1>1, <2>1, <2>2 DEF StoreInv, StoreOf, MarkerInv, InStore, Exported, SyncSteps
  <2>4. QED  BY <1>4, <1>5, <1>6, <2>1, <2>2, <2>3
<1>12. CASE UnlinkReady(j)
  <2>1. /\ at[j] = "tidyReady" /\ at'[j] = "verify1" /\ pending'.ready = NoFinger
        /\ UNCHANGED <<prints, job>>
    BY <1>12 DEF UnlinkReady, Goto, Types
  <2>2. InStore(j)
    BY <2>1 DEF InStore
  <2>3. StoreOf(j)' /\ MarkerInv'
    BY <1>1, <2>1, <2>2 DEF StoreInv, StoreOf, MarkerInv, InStore, Exported, SyncSteps
  <2>4. QED  BY <1>4, <1>5, <1>6, <2>1, <2>2, <2>3
<1>13. QED
  BY <1>3, <1>7, <1>8, <1>9, <1>10, <1>11, <1>12 DEF Publishing

LEMMA SaveStore ==
  ASSUME Types, NativeInv, StoreInv, NEW j \in Jobs, FprintdSaves(j)
  PROVE  StoreInv'
<1>1. /\ at[j] = "save" /\ at'[j] = "idle" /\ UNCHANGED <<pending, outlived, interface>>
      /\ \A k \in Jobs : k # j => at'[k] = at[k] /\ job'[k] = job[k]
  BY DEF FprintdSaves, End, Goto, boundVars, Types
<1>2. rt[j].result = 0 /\ interface = "fprintd" /\ prints = {} /\ job[j].finger \in Fingers
  BY <1>1 DEF NativeInv, NativeOf, Settled, StoreInv, StoreOf, SyncSteps
<1>3. \A k \in Jobs : k # j => at[k] = "idle"
  BY <1>1, <1>2 DEF NativeInv, Single
<1>4. \A k \in Jobs : StoreOf(k)'
  BY <1>1, <1>3 DEF StoreOf, InStore, Exported, SyncSteps
<1>5. MarkerInv'
  BY <1>1 DEF StoreInv, MarkerInv, Vouched
<1>6. PrintInv'
  <2>1. CASE prints' = prints
    BY <1>1, <2>1 DEF StoreInv, PrintInv, Template
  <2>2. CASE prints' = prints \cup {[finger |-> job[j].finger, from |-> "accepted"]}
    <3>1. [finger |-> job[j].finger, from |-> "accepted"] \in Template
      BY <1>2 DEF Template
    <3>2. QED  BY <1>2, <2>2, <3>1, FirstPrint
  <2>3. QED  BY <1>2, <2>1, <2>2 DEF FprintdSaves
<1>7. QED  BY <1>4, <1>5, <1>6 DEF StoreInv

\* What the clients, the signals and the user do between two steps of a job: an
\* export appears where there was none, or the template goes.
LEMMA BesideStore ==
  ASSUME StoreInv, UNCHANGED <<at, storeLock, interface, outlived>>, prints' \in {prints, {}},
         \A k \in Jobs : job'[k].does = job[k].does /\ job'[k].finger = job[k].finger,
         pending' = pending \/ (pending.db = "none" /\ pending'.ready = pending.ready)
  PROVE  StoreInv'
<1>1. \A k \in Jobs : StoreOf(k)'
  BY DEF StoreInv, StoreOf, InStore, Exported, Vouched
<1>2. MarkerInv'
  BY DEF StoreInv, MarkerInv, Vouched
<1>3. PrintInv'
  BY DEF StoreInv, PrintInv, Template
<1>4. QED  BY <1>1, <1>2, <1>3 DEF StoreInv

LEMMA StoreInvInit == Init => StoreInv
  BY DEF Init, StoreInv, MarkerInv, PrintInv, StoreOf, InStore, Exported, SyncSteps

LEMMA StoreInvStep == Types /\ NativeInv /\ StoreInv /\ [Next]_vars => StoreInv'
<1>1. SUFFICES ASSUME Types, NativeInv, StoreInv, [Next]_vars  PROVE StoreInv'
  OBVIOUS
<1>2. ASSUME NEW j \in Jobs, Start(j) \/ Native(j) \/ Credentials(j) \/ Acceptance(j) \/ SerializeFails(j)
      PROVE  StoreInv'
  BY <1>1, <1>2, StartStore, NativeStore, SaveStore, CredentialsStore, AcceptancePlain, PublishingStore
<1>3. ASSUME NEW j \in Jobs, RuntimeStep(j) \/ ClientCommits(j) \/ RuntimeFails(j)  PROVE StoreInv'
  <2>1. UNCHANGED <<at, job, storeLock, interface, outlived, prints, pending>>
    BY <1>3 DEF RuntimeStep, ClientCommits, Commits, RuntimeFails, templateVars, boundVars, otherBounds
  <2>2. QED  BY <1>1, <2>1, BesideStore
<1>4. ASSUME NEW j \in Jobs, ClientWrites(j)  PROVE StoreInv'
  <2>1. /\ UNCHANGED <<at, storeLock, interface, outlived, prints>>
        /\ pending' = pending \/ (pending.db = "none" /\ pending'.ready = pending.ready)
    BY <1>1, <1>4 DEF ClientWrites, Exports, boundVars, Types
  <2>2. \A k \in Jobs : job'[k].does = job[k].does /\ job'[k].finger = job[k].finger
    BY <1>1, <1>4 DEF ClientWrites, Types, JobRecord
  <2>3. QED  BY <1>1, <2>1, <2>2, BesideStore
<1>5. ASSUME NEW j \in Jobs, PassOn(j) \/ Cancel(j) \/ StopService(j) \/ CloseTerminal(j)  PROVE StoreInv'
  <2>1. UNCHANGED <<at, storeLock, interface, outlived, prints, pending>>
    BY <1>5 DEF PassOn, Cancel, StopService, CloseTerminal, templateVars, boundVars, otherBounds
  <2>2. \A k \in Jobs : job'[k].does = job[k].does /\ job'[k].finger = job[k].finger
    BY <1>1, <1>5 DEF PassOn, Cancel, StopService, CloseTerminal, Types, JobRecord
  <2>3. QED  BY <1>1, <2>1, <2>2, BesideStore
<1>6. ASSUME Recover  PROVE StoreInv'
  <2>1. UNCHANGED <<at, storeLock, interface, outlived, prints, pending>>
    BY <1>6 DEF Recover
  <2>2. \A k \in Jobs : job'[k].does = job[k].does /\ job'[k].finger = job[k].finger
    BY <1>1, <1>6 DEF Recover, Types, JobRecord
  <2>3. QED  BY <1>1, <2>1, <2>2, BesideStore
<1>7. ASSUME OrphanMoves  PROVE StoreInv'
  <2>1. UNCHANGED <<at, job, storeLock, interface, outlived, prints>>
    BY <1>7 DEF OrphanMoves, Commits, templateVars, boundVars
  <2>2. pending' = pending \/ (pending.db = "none" /\ pending'.ready = pending.ready)
    BY <1>1, <1>7 DEF OrphanMoves, Commits, Exports, templateVars, Types
  <2>3. QED  BY <1>1, <2>1, <2>2, BesideStore
<1>8. ASSUME DeletePrint \/ KeyExpires \/ Rest \/ UNCHANGED vars  PROVE StoreInv'
  <2>1. UNCHANGED <<at, job, storeLock, interface, outlived, pending>> /\ prints' \in {prints, {}}
    BY <1>8 DEF DeletePrint, KeyExpires, Rest, vars, templateVars, boundVars
  <2>2. QED  BY <1>1, <2>1, BesideStore
<1>9. ASSUME PowerLoss  PROVE StoreInv'
  <2>1. /\ UNCHANGED <<pending, prints, interface>> /\ \A j \in Jobs : at'[j] = "idle"
        /\ outlived' = (outlived \/ \E j \in Jobs : at[j] = "tidyReady")
    BY <1>9 DEF PowerLoss, otherBounds
  <2>2. MarkerInv'
    BY <1>1, <2>1 DEF StoreInv, MarkerInv, Vouched
  <2>3. PrintInv'
    BY <1>1, <2>1 DEF StoreInv, PrintInv, Template
  <2>4. QED  BY <2>1, <2>2, <2>3, EndStore DEF StoreInv
<1>10. QED
  BY <1>1, <1>2, <1>3, <1>4, <1>5, <1>6, <1>7, <1>8, <1>9, StepCases DEF Clients

LEMMA StoreInvHolds == Spec => [](Types /\ StoreInv)
  BY RunInvInit, RunInvStep, NativeInvInit, NativeInvStep, StoreInvInit, StoreInvStep, TypesHold, PTL DEF Spec

\* Every variable keeps to its values; the templates do with the invariant that
\* says where they come from.
THEOREM TypeCorrect == Spec => []TypeOK
<1>1. Types /\ StoreInv => TypeOK
  BY DEF StoreInv, PrintInv, Template, TypeOK
<1>2. QED  BY <1>1, StoreInvHolds, PTL

\* An account has one template at most, and of an accepted enrolment, over every
\* order of two interfaces, cancellations, closed terminals and power losses.
THEOREM TemplateIsAccepted == Spec => []PrintIsAccepted
<1>1. PrintInv => PrintIsAccepted
  <2>1. SUFFICES ASSUME PrintInv  PROVE Cardinality(prints) <= 1
    BY DEF PrintInv, PrintIsAccepted
  <2>2. CASE prints = {}
    BY <2>2, FS_EmptySet
  <2>3. ASSUME NEW p, prints = {p}  PROVE Cardinality(prints) = 1
    BY <2>3, FS_Singleton
  <2>4. QED  BY <2>1, <2>2, <2>3 DEF PrintInv
<1>2. Types /\ StoreInv => PrintIsAccepted
  BY <1>1 DEF StoreInv
<1>3. QED  BY <1>2, StoreInvHolds, PTL

-----------------------------------------------------------------------------
(* What undisturbed jobs leave.                                              *)

\* The client of j has returned 0; it has given out what it was asked for; the
\* secure world is ahead of the handle on the disk.
Done(j) == rt[j].at \in {"cleanup", "over"} /\ rt[j].result = 0
Gave(j) == client[j] = "wrote" \/ Done(j)
Ahead(j) == client[j] = "committed" \/ Gave(j)

\* A signal is passed on to a verification or, in GNOME Settings, to an enrolment;
\* a run that is not refused has the only listener and finds the sensor off.
CalmOf(j) ==
  /\ interface = "helper" => ~job[j].top
  /\ job[j].mid => at[j] \in DOMAIN AfterRound \/ (interface = "fprintd" /\ at[j] = "capturing")
  /\ rt[j].at = "ready" => listeners = {j}
  /\ Over(j) /\ rt[j].result = 0 => rt[j].line = "clean"
SensorInv ==
  sensor = "on" => \E j \in Jobs : client[j] = "committed" /\ Powers(rt[j].does)
CalmInv == ~hungup /\ Nobody \notin listeners /\ SensorInv /\ \A j \in Jobs : CalmOf(j)

\* The account between two operations, and at each step of one.
Tidy ==
  /\ cred.handle = ta /\ cred.kept = {}
  /\ cred.requested => cred.handle # 0 /\ interface = "helper"
  /\ interface = "fprintd" => CredentialWhole

Creates == {"create", "creating", "link", "sync", "created"}
Changes == {"changing", "replace", "replaced"}
Busy == {"marker"} \cup Creates \cup Changes

TidyOf(j) ==
  /\ job[j].clean
  /\ at[j] \in {"record", "pam", "marker", "create", "creating", "link"} => cred.handle = 0
  /\ at[j] \in {"marker", "create"} => ta = 0
  /\ at[j] = "marker" => ~cred.requested
  /\ at[j] \in {"pam", "marker"} \cup Creates => cred.params
  /\ at[j] \in {"marker", "changing"} \cup Creates => cred.kept = {}
  /\ at[j] \in {"creating", "changing"} => /\ job[j].temp = IF Gave(j) THEN ta ELSE 0
                                           /\ IF Ahead(j) THEN ta # 0 ELSE ta = cred.handle
  /\ at[j] = "creating" /\ rt[j].at \in {"cleanup", "over"} => rt[j].result = 0
  /\ at[j] \in {"link", "replace"} => job[j].temp = ta
  /\ at[j] \in {"sync", "created", "replaced"} => cred.handle = ta /\ ta # 0
  /\ at[j] = "created" => job[j].res = 0
  /\ at[j] = "replace" => cred.kept = {cred.handle, ta} /\ job[j].prev = cred.handle
  /\ at[j] = "replaced" => cred.kept \subseteq {job[j].prev}

TidyInv ==
  /\ \A j \in Jobs : TidyOf(j)
  /\ (\A j \in Jobs : at[j] \notin Busy) => Tidy

\* Who has a template to publish or to verify, or a password to change, has a handle.
Later == {"capture", "capturing", "copy", "say", "save", "mark", "serialize", "expose", "tidyDb",
          "tidyReady", "verify1", "verify2", "verify3", "verifying1", "verifying2", "verifying3"} \cup SyncSteps
LaterInv ==
  /\ prints # {} => cred.handle # 0
  /\ \A j \in Jobs : at[j] \in Later => cred.handle # 0

\* An export is there from the enrolment of a job to its removal by that job.
Empty == [db |-> "none", ready |-> NoFinger]
Holds(j) == at[j] \in Exported \cup {"tidyReady"} \/ (at[j] = "capturing" /\ Gave(j))
ExportInv ==
  /\ pending = Empty \/ \E j \in Jobs : InStore(j) /\ Holds(j)
  /\ \A j \in Jobs : at[j] \in {"capturing", "mark"} => pending.ready = NoFinger
  /\ \A j \in Jobs : at[j] = "tidyReady" => pending.db = "none"

NeatInv == Undisturbed => CalmInv /\ TidyInv /\ LaterInv /\ ExportInv

\* The steps after which the jobs are not undisturbed any more.
Disturbs ==
  \/ PowerLoss
  \/ \E j \in Jobs : \/ RuntimeFails(j) \/ SerializeFails(j) \/ StopService(j) \/ CloseTerminal(j)
                     \/ Cancel(j) /\ interface # "fprintd"

LEMMA InterfaceKept ==
  ASSUME Types, [Next]_vars
  PROVE  interface' = interface
<1>1. ASSUME NEW j \in Jobs, Start(j) \/ Native(j) \/ Credentials(j) \/ Acceptance(j) \/ SerializeFails(j)
      PROVE  interface' = interface
  BY <1>1, OwnStep DEF Own
<1>2. ASSUME NEW j \in Jobs, \/ Clients(j) \/ PassOn(j) \/ RuntimeFails(j) \/ Cancel(j)
                             \/ StopService(j) \/ CloseTerminal(j)
      PROVE  interface' = interface
  BY <1>2 DEF Clients, RuntimeStep, ClientCommits, ClientWrites, PassOn, RuntimeFails, Cancel, StopService,
     CloseTerminal, boundVars, otherBounds
<1>3. ASSUME PowerLoss \/ Recover \/ OrphanMoves \/ DeletePrint \/ KeyExpires \/ Rest \/ UNCHANGED vars
      PROVE  interface' = interface
  BY <1>3 DEF PowerLoss, Recover, OrphanMoves, DeletePrint, KeyExpires, Rest, vars, boundVars, otherBounds
<1>4. QED  BY <1>1, <1>2, <1>3, StepCases

LEMMA DisturbedAfter ==
  ASSUME Types, Disturbs
  PROVE  ~Undisturbed'
<1>1. faults' # 0
  <2>1. faults' = faults + 1
    BY DEF Disturbs, PowerLoss, RuntimeFails, SerializeFails, StopService, CloseTerminal, Cancel, RoughFault, Fault
  <2>2. faults \in Nat
    BY BoundsAssumption DEF Types
  <2>3. QED  BY <2>1, <2>2
<1>2. rough' = TRUE \/ interface' # "fprintd"
  BY DEF Disturbs, PowerLoss, RuntimeFails, SerializeFails, StopService, CloseTerminal, Cancel, RoughFault, otherBounds
<1>3. QED  BY <1>1, <1>2 DEF Undisturbed

LEMMA UndisturbedBefore ==
  ASSUME Types, [Next]_vars, Undisturbed'
  PROVE  Undisturbed /\ ~Disturbs
<1>1. ~Disturbs
  BY DisturbedAfter
<1>2. (faults' = faults \/ faults' = faults + 1) /\ (rough' = rough \/ rough' = TRUE)
  <2>1. ASSUME NEW j \in Jobs, Start(j) \/ Native(j) \/ Credentials(j) \/ Acceptance(j)
        PROVE  faults' = faults /\ rough' = rough
    <3>1. CASE Start(j)
      BY <3>1 DEF Start, StartNative, StartAccept, StartSync
    <3>2. CASE Native(j)
      BY <3>2 DEF Native, WriteRecord, WriteMarker, NativeCreated, NativeEnrolled, CopyDatabase, SayOk,
         FprintdSaves, boundVars
    <3>3. CASE Credentials(j)
      BY <3>3 DEF Credentials, RunCreate, CreateReturns, LinkHandle, SyncHandle, RunEnrol, RunChange,
         ChangeReturns, ReplaceHandle, DropPrevious, Changed, boundVars
    <3>4. CASE Acceptance(j)
      BY <3>4 DEF Acceptance, OpenAccount, PamRefuses, PamAccepts, PrepareInput, OpenStore, AuthenticateFails,
         Authenticate, Enrolled, MarkReady, Serialize, LinkPrint, UnlinkDatabase, UnlinkReady, Verify, VerifyFails,
         VerifyPasses, WriteReport, RenameReport, EnableFprintd, boundVars
    <3>5. QED  BY <2>1, <3>1, <3>2, <3>3, <3>4
  <2>2. ASSUME NEW j \in Jobs, \/ Clients(j) \/ PassOn(j) \/ RuntimeFails(j) \/ SerializeFails(j) \/ Cancel(j)
                               \/ StopService(j) \/ CloseTerminal(j)
        PROVE  (faults' = faults \/ faults' = faults + 1) /\ (rough' = rough \/ rough' = TRUE)
    BY <2>2 DEF Clients, RuntimeStep, ClientCommits, ClientWrites, PassOn, RuntimeFails, SerializeFails, Cancel,
       StopService, CloseTerminal, boundVars, otherBounds, RoughFault, Fault
  <2>3. ASSUME PowerLoss \/ Recover \/ OrphanMoves \/ DeletePrint \/ KeyExpires \/ Rest \/ UNCHANGED vars
        PROVE  (faults' = faults \/ faults' = faults + 1) /\ (rough' = rough \/ rough' = TRUE)
    BY <2>3 DEF PowerLoss, Recover, OrphanMoves, DeletePrint, KeyExpires, Rest, vars, boundVars, otherBounds,
       RoughFault, Fault
  <2>4. QED  BY <2>1, <2>2, <2>3, StepCases
<1>3. QED  BY <1>1, <1>2, InterfaceKept DEF Undisturbed, Types

\* Of the flags of a job a step clears some, and lets no cancellation past the end
\* of the program it was passed on to.
KeepsFlags(j) ==
  /\ job'[j].top => job[j].top
  /\ job'[j].mid => job[j].mid /\ at[j] \notin {"capturing"} \cup DOMAIN AfterRound

LEMMA FlagsKept ==
  ASSUME Types, NEW j \in Jobs, Start(j) \/ Native(j) \/ Credentials(j) \/ Acceptance(j)
  PROVE  KeepsFlags(j)
<1>1. CASE Start(j)
  BY <1>1 DEF Start, StartNative, StartAccept, StartSync, AllIdle, AfterRound, Types, JobRecord, KeepsFlags
<1>2. CASE Native(j)
  BY <1>2 DEF Native, WriteRecord, WriteMarker, NativeCreated, NativeEnrolled, NativeAccepts, MidFailed,
     CopyDatabase, SayOk, FprintdSaves, End, Continue, NoJob, AfterRound, Types, KeepsFlags
<1>3. CASE RunCreate(j) \/ RunEnrol(j) \/ RunChange(j) \/ Changed(j)
  BY <1>3 DEF RunCreate, RunEnrol, RunChange, Changed, End, NoJob, AfterRound, Types, JobRecord, KeepsFlags
<1>4. CASE LinkHandle(j) \/ SyncHandle(j) \/ ChangeReturns(j) \/ ReplaceHandle(j) \/ DropPrevious(j)
  BY <1>4 DEF LinkHandle, SyncHandle, ChangeReturns, ReplaceHandle, DropPrevious, AfterRound, Types, JobRecord,
     KeepsFlags
<1>5. CASE CreateReturns(j)
  <2> DEFINE c == IF rt[j].line = "clean" THEN job[j].clean ELSE FALSE
  <2>1. \/ job' = [job EXCEPT ![j].res = 1, ![j].clean = c, ![j].temp = 0]
        \/ job' = [job EXCEPT ![j].clean = c]
    BY <1>5 DEF CreateReturns
  <2>2. at[j] = "creating"
    BY <1>5 DEF CreateReturns
  <2> HIDE DEF c
  <2>3. QED  BY <2>1, <2>2 DEF Types, JobRecord, KeepsFlags, AfterRound
<1>6. CASE OpenStore(j) \/ Authenticate(j) \/ Verify(j)
  BY <1>6 DEF OpenStore, Authenticate, Verify, Rounds, End, NoJob, AfterRound, Types, JobRecord, KeepsFlags
<1>7. CASE \/ OpenAccount(j) \/ PamRefuses(j) \/ PamAccepts(j) \/ PrepareInput(j) \/ AuthenticateFails(j)
           \/ Enrolled(j) \/ MarkReady(j) \/ Serialize(j) \/ LinkPrint(j) \/ UnlinkDatabase(j) \/ UnlinkReady(j)
           \/ VerifyFails(j) \/ VerifyPasses(j) \/ WriteReport(j) \/ RenameReport(j) \/ EnableFprintd(j)
  BY <1>7 DEF OpenAccount, PamRefuses, PamAccepts, PrepareInput, AuthenticateFails, Enrolled, Accepts, MidFailed,
     MarkReady, Serialize, LinkPrint, UnlinkDatabase, UnlinkReady, VerifyFails, VerifyPasses, WriteReport,
     RenameReport, EnableFprintd, End, Continue, NoJob, AfterRound, Types, KeepsFlags
<1>8. QED  BY <1>1, <1>2, <1>3, <1>4, <1>5, <1>6, <1>7 DEF Credentials, Acceptance

LEMMA OwnCalm ==
  ASSUME Types, RunInv, CalmInv, NEW j \in Jobs, Own(j), KeepsFlags(j)
  PROVE  CalmInv'
<1>1. UNCHANGED <<operationLock, listeners, sensor, client, hungup, interface>>
  BY DEF Own, hardware
<1>2. rt[j].at \notin Holding
  BY DEF RunInv, RunOf, Own, Over, Holding, Waits, Waiting
<1>3. SensorInv'
  <2>1. client[j] = "none"
    BY <1>2 DEF RunInv, RunOf, Holding
  <2>2. QED  BY <1>1, <2>1 DEF CalmInv, SensorInv, Own, Powers
<1>4. \A k \in Jobs : k # j => CalmOf(k)'
  BY <1>1 DEF CalmInv, CalmOf, Own, Over
<1>5. rt'[j] = rt[j] \/ (rt'[j].at \in {"none", "start"} /\ rt'[j].result = 1)
  <2>1. /\ NoRun.at = "none" /\ NoRun.result = 1
        /\ \A operation : Launched(operation).at = "start" /\ Launched(operation).result = 1
    BY DEF NoRun, Launched, Fresh
  <2>2. rt'[j] = rt[j] \/ rt'[j] = NoRun \/ \E operation : rt'[j] = Launched(operation)
    BY DEF Own
  <2>3. QED  BY <2>1, <2>2
<1>6. CalmOf(j)'
  <2>1. ~job'[j].mid
    BY DEF CalmInv, CalmOf, KeepsFlags
  <2>2. interface' = "helper" => ~job'[j].top
    BY <1>1 DEF CalmInv, CalmOf, KeepsFlags
  <2>3. rt'[j].at = "ready" => listeners' = {j}
    BY <1>1, <1>5 DEF CalmInv, CalmOf
  <2>4. Over(j)' /\ rt'[j].result = 0 => rt'[j].line = "clean"
    BY <1>5 DEF CalmInv, CalmOf, Over
  <2>5. QED  BY <2>1, <2>2, <2>3, <2>4 DEF CalmOf
<1>7. QED  BY <1>1, <1>3, <1>4, <1>6 DEF CalmInv

\* What a step of the run of j does to the hardware, while nothing disturbs.
RunsOn(j) ==
  /\ \A k \in Jobs : k # j => rt'[k] = rt[k] /\ client'[k] = client[k]
  /\ rt'[j].at = "ready" => listeners' = {j}
  /\ rt'[j].at = "over" /\ rt'[j].result = 0 => rt'[j].line = "clean"
  /\ listeners' \subseteq listeners \cup {j}
  /\ \A k \in Jobs : k # j /\ rt[k].at = "ready" => listeners' = listeners
  /\ sensor' = "on" =>
       \/ sensor = "on" /\ ~(client[j] = "committed" /\ Powers(rt[j].does))
       \/ client'[j] = "committed" /\ Powers(rt'[j].does)

LEMMA RunsOnCalm ==
  ASSUME Types, CalmInv, NEW j \in Jobs, RunsOn(j), UNCHANGED <<at, interface, hungup>>,
         \A k \in Jobs : job'[k].top = job[k].top /\ job'[k].mid = job[k].mid
  PROVE  CalmInv'
<1>1. Nobody \notin listeners'
  BY NobodyAssumption DEF CalmInv, RunsOn
<1>2. SensorInv'
  BY DEF CalmInv, SensorInv, RunsOn
<1>3. \A k \in Jobs : CalmOf(k)'
  BY DEF CalmInv, CalmOf, RunsOn, Over
<1>4. QED  BY <1>1, <1>2, <1>3 DEF CalmInv

LEMMA RuntimeRunsOn ==
  ASSUME Types, RunInv, NativeInv, CalmInv, NEW j \in Jobs, Runtime(j)
  PROVE  RunsOn(j)
<1>1. /\ rt \in [Jobs -> RunRecord] /\ client \in [Jobs -> Stages]
      /\ client[j] # "none" <=> rt[j].at = "client"
      /\ rt[j].at = "start" => rt[j].result # 0
      /\ \A k \in Jobs : k # j /\ rt[k].at = "ready" =>
           operationLock \in Jobs /\ rt[j].at \notin Holding /\ j \notin listeners
  BY DEF RunInv, RunOf, NativeInv, NativeOf, Holding, Types, RuntimeTypeOK
<1>2. CASE Refused(j)
  <2>1. /\ rt[j].at = "start" /\ rt'[j].at = "over" /\ rt'[j].result # 0
        /\ \A k \in Jobs : k # j => rt'[k] = rt[k]
        /\ UNCHANGED <<listeners, client, sensor>>
    BY <1>1, <1>2 DEF Refused, RunRecord
  <2>2. QED  BY <1>1, <2>1 DEF RunsOn, Powers
<1>3. CASE TakeLock(j)
  <2>1. /\ rt[j].at = "start" /\ rt'[j].at = "ready" /\ operationLock = Nobody /\ listeners' = listeners \cup {j}
        /\ \A k \in Jobs : k # j => rt'[k] = rt[k]
        /\ UNCHANGED <<client, sensor>>
    BY <1>1, <1>3 DEF TakeLock, LockFree, RunRecord
  <2>2. listeners = {}
    BY <2>1, NobodyAssumption DEF CalmInv, RunInv, RunOf, Types, RuntimeTypeOK
  <2>3. QED  BY <1>1, <2>1, <2>2, NobodyAssumption DEF RunsOn, Powers
<1>4. CASE NotReady(j)
  <2>1. /\ rt[j].at = "ready" /\ rt'[j].at = "cleanup" /\ listeners' \in {listeners, listeners \ {j}}
        /\ \A k \in Jobs : k # j => rt'[k] = rt[k]
        /\ UNCHANGED <<client, sensor>>
    BY <1>1, <1>4 DEF NotReady, RunRecord
  <2>2. QED  BY <1>1, <2>1 DEF RunsOn, Powers, Holding
<1>5. CASE StartClient(j)
  <2>1. /\ rt[j].at = "ready" /\ rt'[j].at = "client" /\ client'[j] = "begun"
        /\ \A k \in Jobs : k # j => rt'[k] = rt[k] /\ client'[k] = client[k]
        /\ UNCHANGED <<listeners, sensor>>
    BY <1>1, <1>5 DEF StartClient, RunRecord
  <2>2. QED  BY <1>1, <2>1 DEF RunsOn, Powers
<1>6. CASE ClientExits(j, 0) \/ ClientExits(j, 1) \/ StopClient(j, "off")
  <2>1. /\ rt[j].at = "client" /\ rt'[j].at = "cleanup" /\ client'[j] = "none"
        /\ \A k \in Jobs : k # j => rt'[k] = rt[k] /\ client'[k] = client[k]
        /\ listeners' = listeners
    BY <1>1, <1>6 DEF ClientExits, StopClient, RunRecord
  <2>2. sensor' = IF Powers(rt[j].does) THEN "off" ELSE sensor
    BY <1>6 DEF ClientExits, StopClient
  <2>3. QED  BY <1>1, <2>1, <2>2 DEF RunsOn, Powers
<1>7. CASE Cleanup(j)
  <2>1. /\ rt[j].at = "cleanup" /\ rt'[j].at = "over" /\ listeners' = listeners \ {j}
        /\ \A k \in Jobs : k # j => rt'[k] = rt[k]
        /\ UNCHANGED <<client, sensor>>
    BY <1>1, <1>7 DEF Cleanup, RunRecord
  <2>2. rt'[j].result = 0 => rt'[j].line = "clean"
    BY <1>1, <1>7 DEF Cleanup, RunRecord
  <2>3. QED  BY <1>1, <2>1, <2>2 DEF RunsOn, Powers, Holding
<1>8. QED
  BY <1>2, <1>3, <1>4, <1>5, <1>6, <1>7 DEF Runtime

LEMMA ClientRunsOn ==
  ASSUME Types, RunInv, CalmInv, NEW j \in Jobs, NEW from, NEW to \in Stages \ {"none"}, ClientStep(j, from, to)
  PROVE  RunsOn(j)
<1>1. /\ rt[j].at = "client" /\ UNCHANGED <<rt, listeners>> /\ client'[j] = to
      /\ \A k \in Jobs : k # j => client'[k] = client[k]
      /\ sensor' = IF Powers(rt[j].does) THEN IF to = "committed" THEN "on" ELSE "off" ELSE sensor
  BY DEF ClientStep, SensorAfter, Types, RuntimeTypeOK
<1>2. QED  BY <1>1 DEF RunsOn, Powers

LEMMA NoOrphanMoves ==
  ASSUME RunInv, CalmInv
  PROVE  ~OrphanMoves
<1>1. orphan = NoOrphan
  BY DEF CalmInv, RunInv, PathInv
<1>2. OrphanMoves => orphan.stage # "none"
  BY DEF OrphanMoves, OrphanStep
<1>3. QED  BY <1>1, <1>2 DEF NoOrphan

\* The signals that reach a job: in GNOME Settings a cancellation, which goes on to
\* an enrolment, and on the other side the end of the daemon under a verification.
Signalled(k) ==
  /\ job'[k].top => job[k].top \/ interface = "fprintd"
  /\ job'[k].mid => \/ job[k].mid \/ at[k] \in DOMAIN AfterRound
                    \/ interface = "fprintd" /\ at[k] = "capturing"

LEMMA SignalCalm ==
  ASSUME CalmInv, UNCHANGED <<hungup, listeners, sensor, client, rt, interface, at>>,
         \A k \in Jobs : Signalled(k)
  PROVE  CalmInv'
<1>1. SensorInv'
  BY DEF CalmInv, SensorInv, Powers
<1>2. \A k \in Jobs : CalmOf(k)'
  BY DEF CalmInv, CalmOf, Signalled, Over
<1>3. QED  BY <1>1, <1>2 DEF CalmInv

LEMMA CalmStep ==
  ASSUME Types, RunInv, NativeInv, StoreInv, CalmInv, [Next]_vars, ~Disturbs
  PROVE  CalmInv'
<1>1. ASSUME NEW j \in Jobs, Start(j) \/ Native(j) \/ Credentials(j) \/ Acceptance(j)  PROVE CalmInv'
  BY <1>1, OwnStep, FlagsKept, OwnCalm
<1>2. ASSUME NEW j \in Jobs, RuntimeStep(j)  PROVE CalmInv'
  <2>1. UNCHANGED <<at, interface, hungup, job>> /\ Runtime(j)
    BY <1>2 DEF RuntimeStep, boundVars
  <2>2. QED  BY <2>1, RuntimeRunsOn, RunsOnCalm
<1>3. ASSUME NEW j \in Jobs, ClientCommits(j) \/ ClientWrites(j)  PROVE CalmInv'
  <2>1. \E from, to : to \in Stages \ {"none"} /\ ClientStep(j, from, to)
    BY <1>3 DEF ClientCommits, ClientWrites, Stages
  <2>2. UNCHANGED <<at, interface, hungup>>
    BY <1>3 DEF ClientCommits, ClientWrites, boundVars
  <2>3. \A k \in Jobs : job'[k].top = job[k].top /\ job'[k].mid = job[k].mid
    BY <1>3 DEF ClientCommits, ClientWrites, Types, JobRecord
  <2>4. QED  BY <2>1, <2>2, <2>3, ClientRunsOn, RunsOnCalm
<1>4. ASSUME NEW j \in Jobs, PassOn(j)  PROVE CalmInv'
  <2>1. UNCHANGED <<hungup, listeners, sensor, client, rt, interface, at>> /\ job[j].top
    BY <1>4 DEF PassOn, runtimeVars, boundVars
  <2>2. interface = "fprintd"
    BY <2>1 DEF CalmInv, CalmOf, Types
  <2>3. at[j] = "capturing"
    BY <1>4, <2>2 DEF PassOn, ChildLives, Shielded, StoreInv, StoreOf, NativeSteps, AfterRound
  <2>4. \A k \in Jobs : Signalled(k)
    BY <1>4, <2>2, <2>3 DEF PassOn, Signalled, Types, JobRecord
  <2>5. QED  BY <2>1, <2>4, SignalCalm
<1>5. ASSUME NEW j \in Jobs, Cancel(j)  PROVE CalmInv'
  <2>1. UNCHANGED <<hungup, listeners, sensor, client, rt, interface, at>> /\ interface = "fprintd"
    BY <1>5 DEF Cancel, Disturbs, runtimeVars, otherBounds
  <2>2. \A k \in Jobs : Signalled(k)
    BY <1>5, <2>1 DEF Cancel, Signalled, Types, JobRecord
  <2>3. QED  BY <2>1, <2>2, SignalCalm
<1>6. ASSUME Recover  PROVE CalmInv'
  <2>1. UNCHANGED <<hungup, listeners, sensor, client, rt, interface, at>>
    BY <1>6 DEF Recover, runtimeVars
  <2>2. \A k \in Jobs : Signalled(k)
    BY <1>6 DEF Recover, Signalled, Types, JobRecord
  <2>3. QED  BY <2>1, <2>2, SignalCalm
<1>7. ASSUME DeletePrint \/ KeyExpires \/ Rest \/ UNCHANGED vars  PROVE CalmInv'
  <2>1. UNCHANGED <<hungup, listeners, sensor, client, rt, interface, at, job>>
    BY <1>7 DEF DeletePrint, KeyExpires, Rest, vars, runtimeVars, boundVars
  <2>2. \A k \in Jobs : Signalled(k)
    BY <2>1 DEF Signalled
  <2>3. QED  BY <2>1, <2>2, SignalCalm
<1>8. QED
  BY <1>1, <1>2, <1>3, <1>4, <1>5, <1>6, <1>7, NoOrphanMoves, StepCases DEF Clients, Disturbs

\* The jobs beside j stay as they are.
OthersStay(j) ==
  /\ interface' = interface
  /\ \A k \in Jobs : k # j => at'[k] = at[k] /\ rt'[k] = rt[k] /\ job'[k] = job[k] /\ client'[k] = client[k]

LEMMA OwnOthers ==
  ASSUME NEW j \in Jobs, Own(j)
  PROVE  OthersStay(j) /\ client' = client
  BY DEF Own, hardware, OthersStay

\* A step that leaves the account as it is.
LEMMA TidyFrame ==
  ASSUME TidyInv, NEW j \in Jobs, OthersStay(j), UNCHANGED <<cred, ta>>,
         at[j] \notin Busy, TidyOf(j)'
  PROVE  TidyInv'
<1>1. \A k \in Jobs : k # j => TidyOf(k)'
  BY DEF TidyInv, TidyOf, OthersStay, Gave, Ahead, Done
<1>2. (\A k \in Jobs : at'[k] \notin Busy) => Tidy'
  BY DEF TidyInv, OthersStay, Tidy, CredentialWhole
<1>3. QED  BY <1>1, <1>2 DEF TidyInv

\* A step that has the account to itself.
LEMMA TidyAlone ==
  ASSUME TidyInv, NEW j \in Jobs, OthersStay(j), Alone(j), TidyOf(j)', at'[j] \notin Busy => Tidy'
  PROVE  TidyInv'
<1>1. \A k \in Jobs : k # j => TidyOf(k)'
  BY DEF TidyInv, TidyOf, OthersStay, Alone, UserSteps, Creates, Changes
<1>2. QED  BY <1>1 DEF TidyInv

\* Who has the account to himself and is at none of its operations finds it tidy.
LEMMA AloneTidy ==
  ASSUME TidyInv, NEW j \in Jobs, Alone(j), at[j] \notin Busy
  PROVE  Tidy
  BY DEF TidyInv, Alone, UserSteps, Busy, Creates, Changes

\* A job that is past the operations of the account, or in none.
LEMMA AwayTidy ==
  ASSUME NEW j \in Jobs, job'[j].clean,
         at'[j] \notin {"record", "pam", "marker"} \cup Creates \cup Changes
  PROVE  TidyOf(j)'
  BY DEF TidyOf, Creates, Changes

LEMMA SameTidy ==
  ASSUME TidyInv, UNCHANGED <<cred, ta, interface, at, rt, client>>,
         \A k \in Jobs : /\ job'[k].clean = job[k].clean /\ job'[k].temp = job[k].temp
                         /\ job'[k].res = job[k].res /\ job'[k].prev = job[k].prev
  PROVE  TidyInv'
<1>1. \A k \in Jobs : TidyOf(k)'
  BY DEF TidyInv, TidyOf, Gave, Ahead, Done
<1>2. QED  BY <1>1 DEF TidyInv, Tidy, CredentialWhole

Cleans == \A j \in Jobs : job[j].clean
LEMMA TidyClean ==
  ASSUME TidyInv
  PROVE  Cleans
  BY DEF TidyInv, TidyOf, Cleans

LEMMA StartTidy ==
  ASSUME AccountInv, StoreInv, TidyInv, NEW j \in Jobs, Start(j)
  PROVE  TidyInv'
<1> USE DEF AccountInv
<1>1. OthersStay(j) /\ UNCHANGED <<cred, ta>> /\ at[j] = "idle"
  BY StartOwn, OwnOthers DEF Start, StartNative, StartAccept, StartSync, AllIdle, accountVars
<1>2. job'[j].clean
  BY TidyClean DEF Cleans, Start, StartNative, StartAccept, StartSync, Types, JobRecord
<1>3. CASE \E f \in Fingers : StartNative(j, f)
  <2>1. at'[j] = "capture" \/ (at'[j] = "record" /\ cred.handle = 0)
    BY <1>3 DEF StartNative, CredentialWhole, Goto, Types
  <2>2. TidyOf(j)'
    BY <1>1, <1>2, <2>1 DEF TidyOf, Creates, Changes
  <2>3. QED  BY <1>1, <2>2, TidyFrame DEF Busy, Creates, Changes
<1>4. CASE (\E f \in Fingers : StartAccept(j, f)) \/ StartSync(j)
  <2>1. at'[j] \in {"verify1", "credential", "publish", "change"}
    BY <1>4 DEF StartAccept, StartSync, Goto, Types
  <2>2. TidyOf(j)'
    BY <1>2, <2>1, AwayTidy DEF Creates, Changes
  <2>3. QED  BY <1>1, <2>2, TidyFrame DEF Busy, Creates, Changes
<1>5. QED  BY <1>3, <1>4 DEF Start

LEMMA EndTidy ==
  ASSUME NEW j \in Jobs, at'[j] = "idle", job'[j] = NoJob
  PROVE  TidyOf(j)'
  BY DEF TidyOf, NoJob, Creates, Changes

\* Before a run has started nothing has been given out.
LEMMA NotAhead ==
  ASSUME AccountInv, NEW j \in Jobs, at[j] \notin Waiting
  PROVE  client[j] = "none" /\ (at[j] \notin TempSteps => job[j].temp = 0)
  BY DEF AccountInv, RunInv, RunOf, HandleInv, HandleOf, Holding, Waits, Waiting

LEMMA LaunchTidy ==
  ASSUME AccountInv, TidyInv, NEW j \in Jobs, NEW operation, at[j] \in {"create", "change"},
         at'[j] \in {"creating", "changing"},
         rt'[j] = Launched(operation), UNCHANGED <<cred, ta, client, interface>>, job' = job,
         cred.handle = ta, cred.kept = {}, at'[j] = "creating" => cred.handle = 0 /\ cred.params
  PROVE  TidyOf(j)'
<1>1. client[j] = "none" /\ job[j].temp = 0
  BY NotAhead DEF Waiting, TempSteps
<1>2. rt'[j].at = "start"
  BY DEF Launched, Fresh
<1>3. ~Gave(j)' /\ ~Ahead(j)'
  BY <1>1, <1>2 DEF Gave, Ahead, Done
<1>4. job[j].clean
  BY TidyClean DEF Cleans
<1>5. QED
  BY <1>1, <1>2, <1>3, <1>4 DEF TidyOf, Creates

LEMMA RecordTidy ==
  ASSUME AccountInv, TidyInv, NEW j \in Jobs, WriteRecord(j)
  PROVE  TidyInv'
<1> USE DEF AccountInv
<1>1. OthersStay(j) /\ Alone(j) /\ at[j] = "record" /\ ta' = ta /\ Own(j)
  BY NativeOwn, OwnOthers, UserAlone DEF Native, WriteRecord, UserSteps
<1>2. Tidy /\ cred.handle = 0 /\ job[j].clean
  BY <1>1, AloneTidy, TidyClean DEF Busy, Creates, Changes, TidyInv, TidyOf
<1>3. CASE at'[j] = "idle"
  <2>1. cred' = cred /\ job'[j] = NoJob
    BY <1>3 DEF WriteRecord, End, Continue, Goto, Types
  <2>2. Tidy'
    BY <1>1, <1>2, <2>1 DEF Tidy, CredentialWhole, OthersStay
  <2>3. QED  BY <1>1, <1>3, <2>1, <2>2, EndTidy, TidyAlone
<1>4. CASE at'[j] # "idle"
  <2>1. at'[j] = "marker" /\ job' = job /\ cred' = [cred EXCEPT !.params = TRUE]
    BY <1>4 DEF WriteRecord, End, Continue, Durable, Goto, Types
  <2>2. cred'.params /\ cred'.handle = cred.handle /\ cred'.kept = cred.kept /\ cred'.requested = cred.requested
    BY <2>1 DEF Types, Directory
  <2>3. TidyOf(j)'
    BY <1>1, <1>2, <2>1, <2>2 DEF TidyOf, Tidy, Creates, Changes
  <2>4. QED  BY <1>1, <2>1, <2>3, TidyAlone DEF Busy
<1>5. QED  BY <1>3, <1>4

LEMMA MarkTidy ==
  ASSUME AccountInv, TidyInv, NEW j \in Jobs, WriteMarker(j) \/ PamAccepts(j)
  PROVE  TidyInv'
<1> USE DEF AccountInv
<1>1. /\ at[j] \in {"marker", "pam"} /\ at'[j] = "create" /\ job' = job /\ ta' = ta
      /\ cred' = [cred EXCEPT !.requested = TRUE]
  BY DEF WriteMarker, PamAccepts, MarkRequested, Durable, Continue, Goto, Types
<1>2. OthersStay(j) /\ Alone(j)
  BY <1>1, NativeOwn, AcceptanceOwn, OwnOthers, UserAlone DEF Native, Acceptance, UserSteps
<1>3. cred'.params = cred.params /\ cred'.handle = cred.handle /\ cred'.kept = cred.kept
  BY <1>1 DEF Types, Directory
<1>4. /\ cred.params /\ cred.handle = 0 /\ job[j].clean
      /\ at[j] = "marker" => ta = 0 /\ cred.kept = {}
  BY <1>1 DEF TidyInv, TidyOf
<1>5. at[j] = "pam" => ta = 0 /\ cred.kept = {}
  BY <1>2, <1>4, AloneTidy DEF Busy, Creates, Changes, Tidy
<1>6. TidyOf(j)'
  BY <1>1, <1>3, <1>4, <1>5 DEF TidyOf, Creates, Changes
<1>7. QED  BY <1>1, <1>2, <1>6, TidyAlone DEF Busy, Creates

LEMMA NativeCreatedTidy ==
  ASSUME AccountInv, NativeInv, TidyInv, NEW j \in Jobs, NativeCreated(j)
  PROVE  TidyInv'
<1> USE DEF AccountInv
<1>1. OthersStay(j) /\ Alone(j) /\ at[j] = "created" /\ ta' = ta /\ interface = "fprintd"
  BY NativeOwn, OwnOthers, UserAlone DEF Native, NativeCreated, UserSteps, NativeInv, NativeOf
<1>2. /\ job[j].clean /\ job[j].res = 0 /\ cred.params /\ cred.kept = {}
      /\ cred.handle = ta /\ ta # 0
  BY <1>1 DEF TidyInv, TidyOf, Creates
<1>3. at'[j] = "capture" /\ job' = job /\ cred' = [cred EXCEPT !.requested = FALSE]
  BY <1>2 DEF NativeCreated, ClearsMarker, Continue, Durable, Goto, Types
<1>4. /\ cred'.params = cred.params /\ cred'.handle = cred.handle /\ cred'.kept = cred.kept
      /\ cred'.requested = FALSE
  BY <1>3 DEF Types, Directory
<1>5. Tidy'
  BY <1>1, <1>2, <1>4 DEF Tidy, CredentialWhole
<1>6. TidyOf(j)'
  BY <1>2, <1>3, AwayTidy DEF Creates, Changes
<1>7. QED  BY <1>1, <1>5, <1>6, TidyAlone

LEMMA RunCreateTidy ==
  ASSUME AccountInv, NativeInv, StoreInv, CalmInv, TidyInv, NEW j \in Jobs, RunCreate(j)
  PROVE  TidyInv'
<1> USE DEF AccountInv
<1>1. /\ OthersStay(j) /\ Alone(j) /\ at[j] = "create" /\ UNCHANGED <<cred, ta, client, interface>>
  BY CredentialsOwn, OwnOthers, UserAlone DEF Credentials, RunCreate, UserSteps, accountVars, Own
<1>2. ~(job[j].top /\ job[j].does = "accept")
  BY <1>1 DEF CalmInv, CalmOf, StoreInv, StoreOf, Types
<1>3. at'[j] = "creating" /\ job' = job /\ rt'[j] = Launched("create")
  BY <1>2 DEF RunCreate, Launch, Goto, Types, RuntimeTypeOK
<1>4. cred.handle = ta /\ cred.kept = {} /\ cred.handle = 0 /\ cred.params
  BY <1>1 DEF TidyInv, TidyOf, Creates
<1>5. TidyOf(j)'
  BY <1>1, <1>3, <1>4, LaunchTidy
<1>6. QED  BY <1>1, <1>3, <1>5, TidyAlone DEF Busy, Creates

LEMMA RunChangeTidy ==
  ASSUME AccountInv, TidyInv, NEW j \in Jobs, RunChange(j)
  PROVE  TidyInv'
<1> USE DEF AccountInv
<1>1. /\ OthersStay(j) /\ Alone(j) /\ at[j] = "change" /\ UNCHANGED <<cred, ta, client, interface>>
  BY CredentialsOwn, OwnOthers, UserAlone DEF Credentials, RunChange, UserSteps, accountVars, Own
<1>2. Tidy
  BY <1>1, AloneTidy DEF Busy, Creates, Changes
<1>3. CASE at'[j] = "idle"
  <2>1. job'[j] = NoJob
    BY <1>3 DEF RunChange, End, Launch, Goto, Types
  <2>2. QED  BY <1>1, <1>3, <2>1, EndTidy, TidyFrame DEF Busy, Creates, Changes
<1>4. CASE at'[j] # "idle"
  <2>1. at'[j] = "changing" /\ job' = job /\ rt'[j] = Launched("change")
    BY <1>4 DEF RunChange, End, Launch, Goto, Types, RuntimeTypeOK
  <2>2. TidyOf(j)'
    BY <1>1, <1>2, <2>1, LaunchTidy DEF Tidy
  <2>3. QED  BY <1>1, <2>1, <2>2, TidyAlone DEF Busy, Changes
<1>5. QED  BY <1>3, <1>4

LEMMA CreateReturnsTidy ==
  ASSUME AccountInv, CalmInv, TidyInv, NEW j \in Jobs, CreateReturns(j)
  PROVE  TidyInv'
<1> USE DEF AccountInv
<1>1. OthersStay(j) /\ Alone(j) /\ at[j] = "creating" /\ rt[j].at = "over" /\ ta' = ta
  BY CredentialsOwn, OwnOthers, UserAlone DEF Credentials, CreateReturns, Over, UserSteps
<1>2. /\ rt[j].result = 0 /\ job[j].temp = ta /\ ta # 0 /\ job[j].clean
      /\ cred.handle = 0 /\ cred.params /\ cred.kept = {}
  BY <1>1 DEF TidyInv, TidyOf, Creates, Gave, Ahead, Done
<1>3. ~MidFailed(j) /\ rt[j].line = "clean"
  BY <1>1, <1>2 DEF CalmInv, CalmOf, Over, MidFailed, AfterRound
<1>4. at'[j] = "link" /\ cred' = cred /\ job' = [job EXCEPT ![j].clean = job[j].clean]
  BY <1>2, <1>3 DEF CreateReturns, Goto, Types
<1>5. job'[j].clean /\ job'[j].temp = job[j].temp
  BY <1>2, <1>4 DEF Types, JobRecord
<1>6. TidyOf(j)'
  BY <1>1, <1>2, <1>4, <1>5 DEF TidyOf, Creates, Changes
<1>7. QED  BY <1>1, <1>4, <1>6, TidyAlone DEF Busy, Creates

LEMMA LinkTidy ==
  ASSUME AccountInv, TidyInv, NEW j \in Jobs, LinkHandle(j) \/ SyncHandle(j)
  PROVE  TidyInv'
<1> USE DEF AccountInv
<1>1. OthersStay(j) /\ Alone(j) /\ ta' = ta
  BY CredentialsOwn, OwnOthers, UserAlone DEF Credentials, LinkHandle, SyncHandle, UserSteps
<1>2. CASE LinkHandle(j)
  <2>1. /\ at[j] = "link" /\ at'[j] = "sync"
        /\ cred' = [cred EXCEPT !.handle = job[j].temp] /\ job' = [job EXCEPT ![j].temp = 0]
    BY <1>2 DEF LinkHandle, Goto, Types
  <2>2. job[j].temp = ta /\ ta # 0 /\ job[j].clean /\ cred.params /\ cred.kept = {}
    BY <2>1 DEF TidyInv, TidyOf, Creates, IdentityInv, IdentityOf
  <2>3. cred'.handle = ta /\ cred'.params = cred.params /\ cred'.kept = cred.kept
    BY <2>1, <2>2 DEF Types, Directory
  <2>4. job'[j].clean = job[j].clean
    BY <2>1 DEF Types, JobRecord
  <2>5. TidyOf(j)'
    BY <1>1, <2>1, <2>2, <2>3, <2>4 DEF TidyOf, Creates, Changes
  <2>6. QED  BY <1>1, <2>1, <2>5, TidyAlone DEF Busy, Creates
<1>3. CASE SyncHandle(j)
  <2>1. at[j] = "sync" /\ at'[j] = "created" /\ cred' = cred /\ job' = [job EXCEPT ![j].res = 0]
    BY <1>3 DEF SyncHandle, Durable, Goto, Types
  <2>2. cred.handle = ta /\ ta # 0 /\ job[j].clean /\ cred.params /\ cred.kept = {}
    BY <2>1 DEF TidyInv, TidyOf, Creates
  <2>3. job'[j].clean = job[j].clean /\ job'[j].res = 0
    BY <2>1 DEF Types, JobRecord
  <2>4. TidyOf(j)'
    BY <1>1, <2>1, <2>2, <2>3 DEF TidyOf, Creates, Changes
  <2>5. QED  BY <1>1, <2>1, <2>4, TidyAlone DEF Busy, Creates
<1>4. QED  BY <1>2, <1>3

\* The steps of --change-input belong to the other interface, and to an account
\* with a handle.
LEMMA ChangeHelps ==
  ASSUME AccountInv, StoreInv, LaterInv, NEW j \in Jobs, at[j] \in SyncSteps
  PROVE  interface = "helper" /\ cred.handle # 0
  BY DEF AccountInv, StoreInv, StoreOf, LaterInv, Later, SyncSteps, NativeSteps, Types

LEMMA ChangeReturnsTidy ==
  ASSUME AccountInv, StoreInv, CalmInv, TidyInv, LaterInv, NEW j \in Jobs, ChangeReturns(j)
  PROVE  TidyInv'
<1> USE DEF AccountInv
<1>1. /\ OthersStay(j) /\ Alone(j) /\ at[j] = "changing" /\ rt[j].at = "over" /\ ta' = ta /\ ta \in Nat
      /\ interface = "helper" /\ cred.handle # 0 /\ ~job[j].mid
  BY CredentialsOwn, OwnOthers, UserAlone, ChangeHelps
     DEF Credentials, ChangeReturns, Over, UserSteps, SyncSteps, CalmInv, CalmOf, AfterRound, Types
<1>2. client[j] = "none" /\ job[j].clean /\ cred.kept = {}
  BY <1>1 DEF RunInv, RunOf, TidyInv, TidyOf
<1>3. CASE rt[j].result = 1
  <2>1. job[j].temp = 0 /\ cred.handle = ta
    BY <1>1, <1>2, <1>3 DEF TidyInv, TidyOf, Gave, Ahead, Done
  <2>2. /\ at'[j] = "changed" /\ cred' = [cred EXCEPT !.kept = @ \cup Candidate(j)]
        /\ job' = [job EXCEPT ![j].res = 1, ![j].temp = 0]
    BY <1>3 DEF ChangeReturns, MidFailed, Goto, Types
  <2>3. /\ cred'.kept = {} /\ cred'.handle = cred.handle
        /\ cred'.requested = cred.requested /\ cred'.params = cred.params
    BY <1>2, <2>1, <2>2 DEF Types, Directory, Candidate
  <2>4. job'[j].clean
    BY <1>2, <2>2 DEF Types, JobRecord
  <2>5. Tidy'
    BY <1>1, <2>1, <2>3 DEF Tidy, OthersStay
  <2>6. QED  BY <1>1, <2>2, <2>4, <2>5, AwayTidy, TidyAlone DEF Creates, Changes
<1>4. CASE rt[j].result # 1
  <2>1. job[j].temp = ta /\ ta # 0
    BY <1>1, <1>4 DEF TidyInv, TidyOf, Gave, Ahead, Done, Types, RuntimeTypeOK, RunRecord
  <2>2. /\ at'[j] = "replace" /\ cred' = [cred EXCEPT !.kept = @ \cup {cred.handle, job[j].temp}]
        /\ job' = [job EXCEPT ![j].prev = cred.handle]
    BY <1>1, <1>4, <2>1 DEF ChangeReturns, MidFailed, LinkPrevious, Durable, Goto, Types
  <2>3. cred'.kept = {cred.handle, ta} /\ cred'.handle = cred.handle
    BY <1>2, <2>1, <2>2 DEF Types, Directory
  <2>4. job'[j].clean = job[j].clean /\ job'[j].prev = cred.handle /\ job'[j].temp = job[j].temp
    BY <2>2 DEF Types, JobRecord, Directory
  <2>5. TidyOf(j)'
    BY <1>1, <1>2, <2>1, <2>2, <2>3, <2>4 DEF TidyOf, Creates, Changes
  <2>6. QED  BY <1>1, <2>2, <2>5, TidyAlone DEF Busy, Changes
<1>5. QED  BY <1>3, <1>4

LEMMA ReplaceTidy ==
  ASSUME AccountInv, StoreInv, CalmInv, TidyInv, LaterInv, NEW j \in Jobs, ReplaceHandle(j)
  PROVE  TidyInv'
<1> USE DEF AccountInv
<1>1. OthersStay(j) /\ Alone(j) /\ at[j] = "replace" /\ ~job[j].mid /\ ta' = ta
  BY CredentialsOwn, OwnOthers, UserAlone
     DEF Credentials, ReplaceHandle, UserSteps, CalmInv, CalmOf, AfterRound
<1>2. /\ job[j].clean /\ job[j].temp = ta /\ ta # 0
      /\ cred.kept = {cred.handle, ta} /\ job[j].prev = cred.handle
  BY <1>1 DEF TidyInv, TidyOf, IdentityInv, IdentityOf
<1>3. /\ at'[j] = "replaced" /\ job' = [job EXCEPT ![j].temp = 0]
      /\ cred' = [cred EXCEPT !.handle = job[j].temp, !.kept = @ \ {job[j].temp}]
  BY <1>1 DEF ReplaceHandle, Goto, Types
<1>4. cred'.handle = ta /\ cred'.kept \subseteq {cred.handle}
  BY <1>2, <1>3 DEF Types, Directory
<1>5. job'[j].clean = job[j].clean /\ job'[j].prev = job[j].prev
  BY <1>3 DEF Types, JobRecord
<1>6. TidyOf(j)'
  BY <1>1, <1>2, <1>3, <1>4, <1>5 DEF TidyOf, Creates, Changes
<1>7. QED  BY <1>1, <1>3, <1>6, TidyAlone DEF Busy, Changes

LEMMA DropTidy ==
  ASSUME AccountInv, StoreInv, TidyInv, LaterInv, NEW j \in Jobs, DropPrevious(j)
  PROVE  TidyInv'
<1> USE DEF AccountInv
<1>1. /\ OthersStay(j) /\ Alone(j) /\ at[j] = "replaced" /\ ta' = ta
      /\ interface = "helper" /\ cred.handle # 0
  BY CredentialsOwn, OwnOthers, UserAlone, ChangeHelps DEF Credentials, DropPrevious, UserSteps, SyncSteps
<1>2. job[j].clean /\ cred.handle = ta /\ cred.kept \subseteq {job[j].prev}
  BY <1>1 DEF TidyInv, TidyOf
<1>3. /\ at'[j] = "changed" /\ cred' = [cred EXCEPT !.kept = @ \ {job[j].prev}]
      /\ job' = [job EXCEPT ![j].res = 0]
  BY DEF DropPrevious, Durable, Goto, Types
<1>4. cred'.handle = cred.handle /\ cred'.kept = {}
  BY <1>2, <1>3 DEF Types, Directory
<1>5. job'[j].clean
  BY <1>2, <1>3 DEF Types, JobRecord
<1>6. Tidy'
  BY <1>1, <1>2, <1>4 DEF Tidy, OthersStay
<1>7. QED  BY <1>1, <1>3, <1>5, <1>6, AwayTidy, TidyAlone DEF Creates, Changes

LEMMA OpenAccountTidy ==
  ASSUME AccountInv, StoreInv, TidyInv, NEW j \in Jobs, OpenAccount(j)
  PROVE  TidyInv'
<1> USE DEF AccountInv
<1>1. OthersStay(j) /\ at[j] = "credential" /\ ta' = ta /\ interface = "helper" /\ interface' = "helper"
  BY AcceptanceOwn, OwnOthers, AcceptanceHelps DEF Acceptance, OpenAccount, OthersStay
<1>2. CASE ~MayCreate(j)
  <2>1. at'[j] = "idle" /\ job'[j] = NoJob /\ cred' = cred
    BY <1>2 DEF OpenAccount, End, Goto, Types
  <2>2. QED  BY <1>1, <2>1, EndTidy, TidyFrame DEF Busy, Creates, Changes
<1>3. CASE MayCreate(j)
  <2>1. at'[j] = "pam" /\ job' = job /\ cred' = [cred EXCEPT !.params = TRUE] /\ cred.handle = 0 /\ Alone(j)
    BY <1>3, UserAlone DEF OpenAccount, MayCreate, Durable, Goto, Types
  <2>2. /\ cred'.params /\ cred'.handle = cred.handle /\ cred'.kept = cred.kept
        /\ cred'.requested = cred.requested
    BY <2>1 DEF Types, Directory
  <2>3. Tidy /\ job[j].clean
    BY <1>1, <2>1, AloneTidy, TidyClean DEF Busy, Creates, Changes, Cleans
  <2>4. Tidy'
    BY <1>1, <2>2, <2>3 DEF Tidy
  <2>5. TidyOf(j)'
    BY <2>1, <2>2, <2>3 DEF TidyOf, Creates, Changes
  <2>6. QED  BY <1>1, <2>1, <2>4, <2>5, TidyAlone
<1>4. QED  BY <1>2, <1>3

LEMMA PrepareTidy ==
  ASSUME AccountInv, StoreInv, TidyInv, NEW j \in Jobs, PrepareInput(j)
  PROVE  TidyInv'
<1> USE DEF AccountInv
<1>1. /\ OthersStay(j) /\ at[j] = "created" /\ UNCHANGED <<cred, ta>> /\ interface = "helper"
      /\ interface' = "helper" /\ Alone(j)
  BY AcceptanceOwn, OwnOthers, AcceptanceHelps, UserAlone
     DEF Acceptance, PrepareInput, OthersStay, accountVars, UserSteps
<1>2. job[j].clean /\ cred.handle = ta /\ ta # 0 /\ cred.kept = {}
  BY <1>1 DEF TidyInv, TidyOf, Creates
<1>3. Tidy'
  BY <1>1, <1>2 DEF Tidy
<1>4. TidyOf(j)'
  <2>1. CASE at'[j] = "idle"
    <3>1. job'[j] = NoJob
      BY <2>1 DEF PrepareInput, End, Goto, Types
    <3>2. QED  BY <2>1, <3>1, EndTidy
  <2>2. CASE at'[j] # "idle"
    <3>1. at'[j] = "publish" /\ job' = job
      BY <2>2 DEF PrepareInput, End, Goto, Types
    <3>2. QED  BY <1>2, <3>1, AwayTidy DEF Creates, Changes
  <2>3. QED  BY <2>1, <2>2
<1>5. QED  BY <1>1, <1>3, <1>4, TidyAlone

\* The steps that have nothing to do with an operation of the account.
Elsewhere(j) ==
  /\ UNCHANGED <<cred, ta>>
  /\ at[j] \notin Busy
  /\ at'[j] \notin {"record", "pam", "marker"} \cup Creates \cup Changes
  /\ job[j].clean => job'[j].clean

LEMMA ElsewhereTidy ==
  ASSUME TidyInv, NEW j \in Jobs, Own(j), Elsewhere(j)
  PROVE  TidyInv'
<1>1. job'[j].clean
  BY TidyClean DEF Cleans, Elsewhere
<1>2. TidyOf(j)'
  BY <1>1, AwayTidy DEF Elsewhere
<1>3. QED  BY <1>2, OwnOthers, TidyFrame DEF Elsewhere

LEMMA NativeElsewhere ==
  ASSUME Types, NEW j \in Jobs, NativeEnrolled(j) \/ CopyDatabase(j) \/ SayOk(j) \/ FprintdSaves(j)
  PROVE  Elsewhere(j)
  BY DEF NativeEnrolled, CopyDatabase, SayOk, FprintdSaves, End, Continue, Goto, accountVars, NoJob,
     Elsewhere, Busy, Creates, Changes, Types

LEMMA CredentialsElsewhere ==
  ASSUME Types, NEW j \in Jobs, RunEnrol(j) \/ Changed(j)
  PROVE  Elsewhere(j)
  BY DEF RunEnrol, Changed, End, Launch, Goto, accountVars, NoJob, JobRecord, Elsewhere, Busy, Creates, Changes, Types

LEMMA AcceptanceElsewhere ==
  ASSUME Types, NEW j \in Jobs, Acceptance(j), ~OpenAccount(j), ~PamAccepts(j), ~PrepareInput(j)
  PROVE  Elsewhere(j)
<1>1. CASE \/ PamRefuses(j) \/ AuthenticateFails(j) \/ Enrolled(j) \/ MarkReady(j) \/ Serialize(j)
           \/ LinkPrint(j) \/ UnlinkDatabase(j) \/ UnlinkReady(j) \/ VerifyFails(j) \/ VerifyPasses(j)
           \/ WriteReport(j) \/ RenameReport(j) \/ EnableFprintd(j)
  BY <1>1 DEF PamRefuses, AuthenticateFails, Enrolled, MarkReady, Serialize, LinkPrint, UnlinkDatabase,
     UnlinkReady, VerifyFails, VerifyPasses, WriteReport, RenameReport, EnableFprintd, AfterRound,
     End, Continue, Goto, accountVars, NoJob, Elsewhere, Busy, Creates, Changes, Types
<1>2. CASE OpenStore(j) \/ Authenticate(j) \/ Verify(j)
  BY <1>2 DEF OpenStore, Authenticate, Verify, Rounds, End, Launch, Goto, accountVars, NoJob, JobRecord,
     Elsewhere, Busy, Creates, Changes, Types
<1>3. QED  BY <1>1, <1>2 DEF Acceptance

LEMMA OwnTidy ==
  ASSUME AccountInv, NativeInv, StoreInv, CalmInv, TidyInv, LaterInv,
         NEW j \in Jobs, Start(j) \/ Native(j) \/ Credentials(j) \/ Acceptance(j)
  PROVE  TidyInv'
<1>1. Own(j) /\ Types
  BY OwnStep DEF AccountInv
<1>2. CASE Start(j)
  BY <1>2, StartTidy
<1>3. CASE Native(j)
  BY <1>1, <1>3, RecordTidy, MarkTidy, NativeCreatedTidy, NativeElsewhere, ElsewhereTidy DEF Native
<1>4. CASE Credentials(j)
  BY <1>1, <1>4, RunCreateTidy, CreateReturnsTidy, LinkTidy, RunChangeTidy, ChangeReturnsTidy, ReplaceTidy,
     DropTidy, CredentialsElsewhere, ElsewhereTidy DEF Credentials
<1>5. CASE Acceptance(j)
  BY <1>1, <1>5, OpenAccountTidy, MarkTidy, PrepareTidy, AcceptanceElsewhere, ElsewhereTidy
<1>6. QED  BY <1>2, <1>3, <1>4, <1>5

\* While an identity is created nobody else has the hardware.
LEMMA NobodyBeside ==
  ASSUME AccountInv, TidyInv, LaterInv, NEW j \in Jobs, at[j] = "creating", rt[j].at = "start"
  PROVE  operationLock = Nobody
<1> USE DEF AccountInv
<1>1. SUFFICES ASSUME operationLock \in Jobs  PROVE FALSE
  BY DEF Types, RuntimeTypeOK
<1>2. rt[operationLock].at \in Holding /\ operationLock # j
  BY <1>1 DEF RunInv, RunOf, Holding
<1>3. at[operationLock] \in {"verifying1", "verifying2", "verifying3"}
  BY <1>1, <1>2, UserAlone DEF RunInv, RunOf, Waits, Alone, UserSteps
<1>4. QED
  BY <1>1, <1>3 DEF LaterInv, Later, TidyInv, TidyOf

\* A step of a run for the account.
LEMMA RuntimeTidy ==
  ASSUME AccountInv, NativeInv, CalmInv, TidyInv, LaterInv, NEW j \in Jobs, RuntimeStep(j)
  PROVE  TidyInv'
<1> USE DEF AccountInv
<1>1. Runtime(j) /\ UNCHANGED <<at, job, cred, ta, interface>>
  BY DEF RuntimeStep, accountVars, boundVars
<1>2. RunsOn(j) /\ OthersStay(j)
  BY <1>1, RuntimeRunsOn DEF RunsOn, OthersStay
<1>3. job[j].clean
  BY TidyClean DEF Cleans
<1>4. CASE at[j] \notin Busy
  <2>1. at[j] \in Waiting
    BY <1>1 DEF Runtime, Refused, TakeLock, NotReady, StartClient, ClientExits, StopClient, Cleanup,
       RunInv, RunOf, Holding, Waits, Waiting
  <2>2. TidyOf(j)'
    BY <1>1, <1>3, <1>4, <2>1, AwayTidy DEF Waiting, Busy
  <2>3. QED  BY <1>1, <1>2, <1>4, <2>2, TidyFrame
<1>5. CASE at[j] \in Busy
  <2>1. at[j] \in {"creating", "changing"} /\ Alone(j) /\ ~job[j].mid
    <3>1. at[j] \in Waiting
      BY <1>1 DEF Runtime, Refused, TakeLock, NotReady, StartClient, ClientExits, StopClient, Cleanup,
         RunInv, RunOf, Holding, Waits, Waiting
    <3>2. at[j] \in {"creating", "changing"}
      BY <1>5, <3>1 DEF Waiting, Busy, Creates, Changes
    <3>3. QED  BY <3>2, UserAlone DEF UserSteps, CalmInv, CalmOf, AfterRound
  <2>2. /\ rt \in [Jobs -> RunRecord] /\ client \in [Jobs -> Stages]
        /\ client[j] # "none" <=> rt[j].at = "client"
        /\ rt[j].result = 0 => rt[j].at \in {"cleanup", "over"}
        /\ rt[j].at = "ready" => listeners = {j}
        /\ at[j] = "creating" /\ rt[j].at = "client" => rt[j].does = "create"
        /\ at[j] = "changing" /\ rt[j].at = "client" => rt[j].does = "change"
    BY DEF RunInv, RunOf, Waits, Holding, NativeInv, NativeOf, CalmInv, CalmOf, Types, RuntimeTypeOK
  <2>3. /\ Gave(j)' <=> Gave(j)
        /\ Ahead(j)' <=> Ahead(j)
        /\ at[j] = "creating" /\ rt'[j].at \in {"cleanup", "over"} => rt'[j].result = 0
    <3>1. CASE operationLock # Nobody /\ Refused(j)
      <4>1. rt[j].at = "start" /\ rt'[j].at = "over" /\ rt'[j].result = rt[j].result /\ client' = client
        BY <2>2, <3>1 DEF Refused, RunRecord
      <4>2. at[j] # "creating"
        BY <3>1, <4>1, NobodyBeside
      <4>3. QED  BY <2>2, <4>1, <4>2 DEF Gave, Ahead, Done
    <3>2. CASE TakeLock(j)
      <4>1. rt[j].at = "start" /\ rt'[j].at = "ready" /\ client' = client
        BY <2>2, <3>2 DEF TakeLock, RunRecord
      <4>2. QED  BY <2>2, <4>1 DEF Gave, Ahead, Done
    <3>3. CASE (job[j].mid \/ listeners # {j}) /\ NotReady(j)
      BY <2>1, <2>2, <3>3 DEF NotReady
    <3>4. CASE StartClient(j)
      <4>1. rt[j].at = "ready" /\ rt'[j].at = "client" /\ client'[j] = "begun"
        BY <2>2, <3>4 DEF StartClient, RunRecord
      <4>2. QED  BY <2>2, <4>1 DEF Gave, Ahead, Done
    <3>5. CASE ClientExits(j, 0)
      <4>1. rt'[j].at = "cleanup" /\ rt'[j].result = 0 /\ client[j] = "wrote"
        BY <2>2, <3>5 DEF ClientExits, RunRecord
      <4>2. QED  BY <4>1 DEF Gave, Ahead, Done
    <3>6. CASE /\ \/ client[j] = "begun" /\ ~Admitted(rt[j].does, job[j].input)
                  \/ client[j] = "committed" /\ rt[j].does = "enrol" /\ pending.db # "none"
               /\ ClientExits(j, 1)
      <4>1. rt[j].at = "client"
        BY <3>6 DEF ClientExits
      <4>2. client[j] = "begun" => ta = cred.handle \/ at[j] = "creating"
        BY <2>1, <4>1 DEF TidyInv, TidyOf, Ahead, Gave, Done
      <4>3. QED  BY <2>1, <2>2, <3>6, <4>1, <4>2 DEF Admitted
    <3>7. CASE job[j].mid /\ StopClient(j, "off")
      BY <2>1, <3>7
    <3>8. CASE Cleanup(j)
      <4>1. sensor = "off"
        BY <3>8 DEF Cleanup, CalmInv, SensorInv, RunInv, RunOf, Holding, Types, RuntimeTypeOK
      <4>2. rt[j].at = "cleanup" /\ rt'[j].at = "over" /\ rt'[j].result = rt[j].result /\ client' = client
        BY <2>2, <3>8, <4>1 DEF Cleanup, SaysClean, RunRecord
      <4>3. at[j] = "creating" => rt[j].result = 0
        BY <4>2 DEF TidyInv, TidyOf
      <4>4. QED  BY <4>2, <4>3 DEF Gave, Ahead, Done
    <3>9. QED  BY <1>1, <3>1, <3>2, <3>3, <3>4, <3>5, <3>6, <3>7, <3>8 DEF Runtime
  <2>4. TidyOf(j)'
    BY <1>1, <2>1, <2>3 DEF TidyInv, TidyOf, Creates, Changes
  <2>5. QED  BY <1>1, <1>2, <1>5, <2>1, <2>4, TidyAlone
<1>6. QED  BY <1>4, <1>5

LEMMA ClientTidy ==
  ASSUME AccountInv, TidyInv, NEW j \in Jobs, ClientCommits(j) \/ ClientWrites(j)
  PROVE  TidyInv'
<1> USE DEF AccountInv
<1>1. /\ rt[j].at = "client" /\ UNCHANGED <<at, rt, cred, interface>>
      /\ \A k \in Jobs : k # j => client'[k] = client[k] /\ job'[k] = job[k]
      /\ Waits(at[j], rt[j].does)
  BY DEF ClientCommits, ClientWrites, ClientStep, Commits, boundVars, RunInv, RunOf, Holding, Types, RuntimeTypeOK
<1>2. OthersStay(j)
  BY <1>1 DEF OthersStay
<1>3. job[j].clean /\ ta \in Nat
  BY TidyClean DEF Cleans, Types
<1>4. CASE at[j] \notin {"creating", "changing"}
  <2>1. rt[j].does \in {"enrol", "match"} /\ at[j] \in Waiting
    BY <1>1, <1>4 DEF Waits, Waiting
  <2>2. ta' = ta /\ job' = job
    BY <2>1 DEF ClientCommits, ClientWrites, Commits
  <2>3. TidyOf(j)'
    BY <1>1, <1>3, <1>4, <2>1, <2>2, AwayTidy DEF Waiting, Creates, Changes
  <2>4. QED
    BY <1>1, <1>2, <1>4, <2>1, <2>2, <2>3, TidyFrame DEF Waiting, Busy, Creates, Changes
<1>5. CASE at[j] \in {"creating", "changing"}
  <2>1. rt[j].does \in {"create", "change"} /\ Alone(j)
    BY <1>1, <1>5, UserAlone DEF Waits, UserSteps
  <2>2. CASE ClientCommits(j)
    <3>1. client[j] = "begun" /\ client'[j] = "committed" /\ ta' = ta + 1 /\ job' = job
      BY <2>1, <2>2 DEF ClientCommits, ClientStep, Commits, Types, RuntimeTypeOK
    <3>2. ta' # 0
      BY <1>3, <3>1
    <3>3. job[j].temp = 0
      BY <1>1, <1>5, <3>1 DEF TidyInv, TidyOf, Gave, Done
    <3>4. TidyOf(j)'
      BY <1>1, <1>3, <1>5, <3>1, <3>2, <3>3 DEF TidyInv, TidyOf, Gave, Ahead, Done, Creates, Changes
    <3>5. QED  BY <1>1, <1>2, <1>5, <2>1, <3>4, TidyAlone DEF Busy, Creates, Changes
  <2>3. CASE ClientWrites(j)
    <3>1. /\ client[j] = "committed" /\ client'[j] = "wrote" /\ ta' = ta
          /\ job' = [job EXCEPT ![j].temp = ta]
      BY <2>1, <2>3 DEF ClientWrites, ClientStep, Types, RuntimeTypeOK
    <3>2. ta # 0
      BY <1>5, <3>1 DEF TidyInv, TidyOf, Ahead
    <3>3. job'[j].temp = ta /\ job'[j].clean = job[j].clean
      BY <3>1 DEF Types, JobRecord
    <3>4. TidyOf(j)'
      BY <1>1, <1>3, <1>5, <3>1, <3>2, <3>3 DEF TidyInv, TidyOf, Gave, Ahead, Done, Creates, Changes
    <3>5. QED  BY <1>1, <1>2, <1>5, <2>1, <3>4, TidyAlone DEF Busy, Creates, Changes
  <2>4. QED  BY <2>2, <2>3
<1>6. QED  BY <1>4, <1>5

\* The steps beside the jobs, and the signals, leave the account as it is.
LEMMA BesideTidy ==
  ASSUME AccountInv, TidyInv,
         \/ \E j \in Jobs : PassOn(j) \/ Cancel(j)
         \/ Recover \/ DeletePrint \/ KeyExpires \/ Rest \/ UNCHANGED vars
  PROVE  TidyInv'
<1>1. UNCHANGED <<cred, ta, interface, at, rt, client>>
  BY DEF PassOn, Cancel, Recover, DeletePrint, KeyExpires, Rest, vars, runtimeVars, accountVars, boundVars, otherBounds
<1>2. \A k \in Jobs : /\ job'[k].clean = job[k].clean /\ job'[k].temp = job[k].temp
                      /\ job'[k].res = job[k].res /\ job'[k].prev = job[k].prev
  <2>1. ASSUME NEW j \in Jobs, PassOn(j) \/ Cancel(j)
        PROVE  \A k \in Jobs : /\ job'[k].clean = job[k].clean /\ job'[k].temp = job[k].temp
                               /\ job'[k].res = job[k].res /\ job'[k].prev = job[k].prev
    BY <2>1 DEF PassOn, Cancel, AccountInv, Types, JobRecord
  <2>2. ASSUME Recover
        PROVE  \A k \in Jobs : /\ job'[k].clean = job[k].clean /\ job'[k].temp = job[k].temp
                               /\ job'[k].res = job[k].res /\ job'[k].prev = job[k].prev
    BY <2>2 DEF Recover, AccountInv, Types, JobRecord
  <2>3. ASSUME DeletePrint \/ KeyExpires \/ Rest \/ UNCHANGED vars
        PROVE  job' = job
    BY <2>3 DEF DeletePrint, KeyExpires, Rest, vars
  <2>4. QED  BY <2>1, <2>2, <2>3
<1>3. QED  BY <1>1, <1>2, SameTidy

LEMMA TidyStep ==
  ASSUME AccountInv, NativeInv, StoreInv, CalmInv, TidyInv, LaterInv, [Next]_vars, ~Disturbs
  PROVE  TidyInv'
<1>1. RunInv
  BY DEF AccountInv
<1>2. QED
  BY <1>1, OwnTidy, RuntimeTidy, ClientTidy, BesideTidy, NoOrphanMoves, StepCases DEF Clients, Disturbs

\* The handle stays, whatever it is replaced by, and so does what relies on it.
LEMMA HandleStays ==
  ASSUME AccountInv, NEW j \in Jobs, Start(j) \/ Native(j) \/ Credentials(j) \/ Acceptance(j), cred.handle # 0
  PROVE  cred'.handle # 0
<1> USE DEF AccountInv
<1>1. CASE LinkHandle(j) \/ ReplaceHandle(j)
  BY <1>1 DEF LinkHandle, ReplaceHandle, IdentityInv, IdentityOf, Types, Directory
<1>2. CASE Start(j)
  BY <1>2 DEF Start, StartNative, StartAccept, StartSync, accountVars
<1>3. CASE Native(j)
  BY <1>3 DEF Native, WriteRecord, WriteMarker, MarkRequested, NativeCreated, NativeEnrolled, CopyDatabase, SayOk,
     FprintdSaves, Durable, accountVars, Types, Directory
<1>4. CASE Credentials(j) /\ ~LinkHandle(j) /\ ~ReplaceHandle(j)
  BY <1>4 DEF Credentials, RunCreate, CreateReturns, SyncHandle, RunEnrol, RunChange, ChangeReturns, LinkPrevious,
     DropPrevious, Changed, Durable, accountVars, Types, Directory
<1>5. CASE Acceptance(j)
  BY <1>5 DEF Acceptance, OpenAccount, PamRefuses, PamAccepts, MarkRequested, PrepareInput, OpenStore,
     AuthenticateFails, Authenticate, Enrolled, MarkReady, Serialize, LinkPrint, UnlinkDatabase, UnlinkReady,
     Verify, VerifyFails, VerifyPasses, WriteReport, RenameReport, EnableFprintd, Durable, accountVars, Types, Directory
<1>6. QED  BY <1>1, <1>2, <1>3, <1>4, <1>5

LEMMA LaterComes ==
  ASSUME AccountInv, NativeInv, TidyInv, LaterInv, ExportInv, NEW j \in Jobs,
         Start(j) \/ Native(j) \/ Credentials(j) \/ Acceptance(j), at'[j] \in Later
  PROVE  cred.handle # 0
<1> USE DEF AccountInv
<1>1. CASE Start(j)
  BY <1>1 DEF Start, StartNative, StartAccept, StartSync, Goto, CredentialWhole, LaterInv, Later, SyncSteps, Types
<1>2. CASE Native(j)
  <2>1. at[j] = "created" \/ at[j] \in Later
    BY <1>2 DEF Native, WriteRecord, WriteMarker, NativeCreated, NativeEnrolled, CopyDatabase, SayOk,
       FprintdSaves, End, Continue, Goto, Later, SyncSteps, Types
  <2>2. QED  BY <2>1 DEF LaterInv, TidyInv, TidyOf
<1>3. CASE Credentials(j)
  <2>1. at[j] \in Later
    BY <1>3, CredentialsMove DEF CredentialMove, Later, SyncSteps
  <2>2. QED  BY <2>1 DEF LaterInv
<1>4. CASE Acceptance(j)
  <2>1. at[j] \in Later \/ Authenticate(j) \/ OpenStore(j)
    <3> DEFINE Ends == {"idle", "pam", "create", "publish", "enable", "rename"}
    <3>1. ASSUME NEW to \in Ends, Goto(j, to) PROVE FALSE
      BY <3>1 DEF Goto, Later, SyncSteps, Types
    <3>2. ~End(j) /\ \A to \in Ends : ~Continue(j, to)
      BY <3>1 DEF End, Continue
    <3>3. ~(OpenAccount(j) \/ PamRefuses(j) \/ PamAccepts(j) \/ PrepareInput(j) \/ AuthenticateFails(j))
      BY <3>1, <3>2 DEF OpenAccount, PamRefuses, PamAccepts, PrepareInput, AuthenticateFails
    <3>4. ~(VerifyFails(j) \/ WriteReport(j) \/ RenameReport(j) \/ EnableFprintd(j))
      BY <3>2 DEF VerifyFails, WriteReport, RenameReport, EnableFprintd
    <3>5. CASE Enrolled(j) \/ MarkReady(j) \/ Serialize(j) \/ LinkPrint(j) \/ UnlinkDatabase(j) \/ UnlinkReady(j)
      BY <3>5 DEF Enrolled, MarkReady, Serialize, LinkPrint, UnlinkDatabase, UnlinkReady, Later
    <3>6. CASE Verify(j) \/ VerifyPasses(j)
      BY <3>6 DEF Verify, VerifyPasses, Rounds, AfterRound, Later
    <3>7. QED
      BY <1>4, <3>3, <3>4, <3>5, <3>6 DEF Acceptance
  <2>2. CASE OpenStore(j)
    <3>1. pending.db # "none"
      BY <2>2 DEF OpenStore, End, Goto, Later, SyncSteps, Types
    <3>2. PICK k \in Jobs : Holds(k)
      BY <3>1 DEF ExportInv, Empty
    <3>3. at[k] \in Later
      BY <3>2 DEF Holds, Exported, Later
    <3>4. QED  BY <3>3 DEF LaterInv
  <2>3. QED  BY <2>1, <2>2 DEF LaterInv, Authenticate
<1>5. QED  BY <1>1, <1>2, <1>3, <1>4

LEMMA PrintsCome ==
  ASSUME AccountInv, LaterInv, NEW j \in Jobs,
         Start(j) \/ Native(j) \/ Credentials(j) \/ Acceptance(j), prints' # {}
  PROVE  cred.handle # 0
<1> USE DEF AccountInv
<1>1. CASE FprintdSaves(j) \/ LinkPrint(j)
  BY <1>1 DEF FprintdSaves, LinkPrint, LaterInv, Later
<1>2. CASE Start(j) \/ (Native(j) /\ ~FprintdSaves(j)) \/ Credentials(j) \/ (Acceptance(j) /\ ~LinkPrint(j))
  <2>1. prints' = prints
    BY <1>2 DEF Start, StartNative, StartAccept, StartSync, Native, WriteRecord, WriteMarker, NativeCreated,
       NativeEnrolled, CopyDatabase, SayOk, Credentials, RunCreate, CreateReturns, LinkHandle, SyncHandle, RunEnrol,
       RunChange, ChangeReturns, ReplaceHandle, DropPrevious, Changed, Acceptance, OpenAccount, PamRefuses,
       PamAccepts, PrepareInput, OpenStore, AuthenticateFails, Authenticate, Enrolled, MarkReady, Serialize,
       UnlinkDatabase, UnlinkReady, Verify, VerifyFails, VerifyPasses, WriteReport, RenameReport, EnableFprintd,
       templateVars
  <2>2. QED  BY <2>1 DEF LaterInv
<1>3. QED  BY <1>1, <1>2

LEMMA LaterStep ==
  ASSUME AccountInv, NativeInv, StoreInv, CalmInv, TidyInv, LaterInv, ExportInv, [Next]_vars, ~Disturbs
  PROVE  LaterInv'
<1>1. ASSUME NEW j \in Jobs, Start(j) \/ Native(j) \/ Credentials(j) \/ Acceptance(j)  PROVE LaterInv'
  <2>1. \A k \in Jobs : k # j => at'[k] = at[k]
    BY <1>1, OwnStep DEF Own, AccountInv
  <2>2. \A k \in Jobs : at'[k] \in Later => cred.handle # 0
    BY <1>1, <2>1, LaterComes DEF LaterInv
  <2>3. QED  BY <1>1, <2>2, PrintsCome, HandleStays DEF LaterInv
<1>2. ASSUME UNCHANGED <<cred, at>>, prints' = {} \/ prints' = prints  PROVE LaterInv'
  BY <1>2 DEF LaterInv
<1>3. ASSUME NEW j \in Jobs, Clients(j) \/ PassOn(j) \/ Cancel(j)  PROVE LaterInv'
  BY <1>2, <1>3 DEF Clients, RuntimeStep, ClientCommits, ClientWrites, Commits, PassOn, Cancel, accountVars, templateVars
<1>4. ASSUME Recover \/ DeletePrint \/ KeyExpires \/ Rest \/ UNCHANGED vars  PROVE LaterInv'
  BY <1>2, <1>4 DEF Recover, DeletePrint, KeyExpires, Rest, vars, accountVars, templateVars
<1>5. RunInv
  BY DEF AccountInv
<1>6. QED
  BY <1>1, <1>3, <1>4, <1>5, NoOrphanMoves, StepCases DEF Disturbs

LEMMA ExportFrame ==
  ASSUME ExportInv, NEW j \in Jobs, OthersStay(j), pending' = pending,
         InStore(j) /\ Holds(j) => InStore(j)' /\ Holds(j)',
         at'[j] \in {"capturing", "mark"} => pending.ready = NoFinger,
         at'[j] = "tidyReady" => pending.db = "none"
  PROVE  ExportInv'
<1>1. \A k \in Jobs : InStore(k) /\ Holds(k) => InStore(k)' /\ Holds(k)'
  BY DEF OthersStay, InStore, Holds, Gave, Done
<1>2. pending' = Empty \/ \E k \in Jobs : InStore(k)' /\ Holds(k)'
  BY <1>1 DEF ExportInv
<1>3. \A k \in Jobs : /\ at'[k] \in {"capturing", "mark"} => pending'.ready = NoFinger
                      /\ at'[k] = "tidyReady" => pending'.db = "none"
  BY DEF ExportInv, OthersStay
<1>4. QED  BY <1>2, <1>3 DEF ExportInv

\* A step that does not come near the export.
Spares(j) ==
  /\ pending' = pending
  /\ ~(InStore(j) /\ Holds(j))
  /\ at'[j] \notin {"capturing", "mark", "tidyReady"}

LEMMA SparesExport ==
  ASSUME ExportInv, NEW j \in Jobs, OthersStay(j), Spares(j)
  PROVE  ExportInv'
  BY ExportFrame DEF Spares

\* In the store one is alone, and not in GNOME Settings.
LEMMA StoreAlone ==
  ASSUME Types, StoreInv, NEW j \in Jobs, InStore(j)
  PROVE  interface = "helper" /\ \A k \in Jobs : k # j => ~InStore(k)
<1>1. \A k \in Jobs : k # j => ~InStore(k)
  BY DEF StoreInv, StoreOf
<1>2. interface = "helper"
  BY DEF StoreInv, StoreOf, InStore, Exported, NativeSteps, Types
<1>3. QED  BY <1>1, <1>2

LEMMA SoleExport ==
  ASSUME NEW j \in Jobs, OthersStay(j), \A k \in Jobs : k # j => ~InStore(k), interface = "helper",
         pending' = Empty \/ (InStore(j)' /\ Holds(j)'),
         at'[j] \in {"capturing", "mark"} => pending'.ready = NoFinger,
         at'[j] = "tidyReady" => pending'.db = "none"
  PROVE  ExportInv'
<1>1. \A k \in Jobs : k # j => at'[k] \notin {"capturing", "mark", "tidyReady"}
  BY DEF OthersStay, InStore, Exported
<1>2. QED  BY <1>1 DEF ExportInv

LEMMA StartExport ==
  ASSUME Types, ExportInv, NEW j \in Jobs, Start(j)
  PROVE  ExportInv'
<1>1. Spares(j)
  BY DEF Start, StartNative, StartAccept, StartSync, AllIdle, Goto, templateVars, Spares, InStore, Exported, Types
<1>2. QED  BY <1>1, StartOwn, OwnOthers, SparesExport

LEMMA NativeExport ==
  ASSUME Types, NativeInv, StoreInv, ExportInv, NEW j \in Jobs, Native(j)
  PROVE  ExportInv'
<1>1. pending' = pending /\ at'[j] \notin {"capturing", "mark", "tidyReady"}
  BY DEF Native, WriteRecord, WriteMarker, NativeCreated, NativeEnrolled, CopyDatabase, SayOk, FprintdSaves,
     End, Continue, Goto, templateVars, Types
<1>2. at[j] \notin Exported \cup {"tidyReady"} /\ (at[j] = "capturing" => job[j].does = "native")
  BY DEF Native, WriteRecord, WriteMarker, NativeCreated, NativeEnrolled, CopyDatabase, SayOk, FprintdSaves, Exported
<1>3. ~(InStore(j) /\ Holds(j))
  BY <1>2 DEF NativeInv, NativeOf, InStore, Holds
<1>4. QED  BY <1>1, <1>3, NativeOwn, OwnOthers, SparesExport DEF Spares

LEMMA CredentialsExport ==
  ASSUME Types, StoreInv, ExportInv, NEW j \in Jobs, Credentials(j)
  PROVE  ExportInv'
<1>1. /\ pending' = pending /\ at'[j] \notin {"mark", "tidyReady"} /\ ~Holds(j)
      /\ at'[j] = "capturing" => at[j] = "capture"
  BY DEF Credentials, RunCreate, CreateReturns, LinkHandle, SyncHandle, RunEnrol, RunChange, ChangeReturns,
     ReplaceHandle, DropPrevious, Changed, End, Launch, Goto, templateVars, Holds, Exported, Types
<1>2. at[j] = "capture" => pending = Empty
  <2>1. SUFFICES ASSUME at[j] = "capture", NEW k \in Jobs, InStore(k), Holds(k)  PROVE FALSE
    BY DEF ExportInv
  <2>2. interface = "helper"
    BY <2>1, StoreAlone
  <2>3. InStore(j) /\ k # j
    BY <2>1, <2>2 DEF InStore, Holds, Exported
  <2>4. QED  BY <2>1, <2>3, StoreAlone
<1>3. QED  BY <1>1, <1>2, CredentialsOwn, OwnOthers, ExportFrame DEF Empty

LEMMA AcceptanceSpares ==
  ASSUME Types, NEW j \in Jobs, Acceptance(j), ~Publishing(j), ~Serialize(j)
  PROVE  Spares(j)
<1>1. CASE \/ OpenAccount(j) \/ PamRefuses(j) \/ PamAccepts(j) \/ PrepareInput(j) \/ AuthenticateFails(j)
           \/ Authenticate(j)
  BY <1>1 DEF OpenAccount, PamRefuses, PamAccepts, PrepareInput, AuthenticateFails, Authenticate,
     End, Continue, Goto, templateVars, Spares, Holds, Exported, Types
<1>2. CASE \/ Verify(j) \/ VerifyFails(j) \/ VerifyPasses(j) \/ WriteReport(j) \/ RenameReport(j) \/ EnableFprintd(j)
  BY <1>2 DEF Verify, VerifyFails, VerifyPasses, WriteReport, RenameReport, EnableFprintd, Rounds, AfterRound,
     End, Continue, Launch, Goto, templateVars, Spares, Holds, Exported, Types
<1>3. QED  BY <1>1, <1>2 DEF Acceptance, Publishing

LEMMA PublishingExport ==
  ASSUME Types, RunInv, StoreInv, CalmInv, ExportInv, NEW j \in Jobs, Publishing(j) \/ Serialize(j)
  PROVE  ExportInv'
<1>1. OthersStay(j) /\ interface = "helper" /\ interface' = "helper" /\ ~job[j].top
  BY AcceptanceOwn, OwnOthers, AcceptanceHelps DEF Publishing, Acceptance, OthersStay, CalmInv, CalmOf
<1>2. ASSUME InStore(j)
      PROVE  /\ \A k \in Jobs : k # j => ~InStore(k)
             /\ Holds(j) \/ pending = Empty
  BY <1>2, StoreAlone DEF ExportInv
<1>3. CASE OpenStore(j)
  <2>1. pending' = pending /\ at[j] = "publish"
    BY <1>3 DEF OpenStore, templateVars
  <2>2. at'[j] \in {"idle", "authenticate", "serialize"}
    BY <1>3 DEF OpenStore, End, Goto, Types
  <2>3. QED  BY <1>1, <2>1, <2>2, SparesExport DEF Spares, Holds, Exported
<1>4. CASE Enrolled(j)
  <2>1. at[j] = "capturing" /\ rt[j].at = "over" /\ ~job[j].mid /\ InStore(j) /\ client[j] = "none"
    BY <1>1, <1>4 DEF Enrolled, Over, CalmInv, CalmOf, AfterRound, InStore, RunInv, RunOf
  <2>2. CASE rt[j].result = 1
    <3>1. at'[j] = "idle" /\ pending' = pending
      BY <1>4, <2>2 DEF Enrolled, Accepts, MidFailed, End, Goto, Types
    <3>2. QED  BY <1>1, <2>1, <2>2, <3>1, SparesExport DEF Spares, Holds, Gave, Done, Exported
  <2>3. CASE rt[j].result # 1
    <3>1. at'[j] = "mark" /\ pending'.ready = pending.ready
      BY <1>1, <1>4, <2>1, <2>3 DEF Enrolled, Accepts, MidFailed, End, Goto, Types
    <3>2. pending.ready = NoFinger
      BY <2>1 DEF ExportInv
    <3>3. QED  BY <1>1, <1>2, <2>1, <3>1, <3>2, SoleExport DEF InStore, Holds, Exported
  <2>4. QED  BY <2>2, <2>3
<1>5. CASE MarkReady(j)
  <2>1. at[j] = "mark" /\ InStore(j) /\ pending.ready = NoFinger
    BY <1>5 DEF MarkReady, InStore, Exported, ExportInv
  <2>2. at'[j] = "serialize"
    BY <1>5, <2>1 DEF MarkReady, Continue, Goto, Types
  <2>3. QED  BY <1>1, <1>2, <2>1, <2>2, SoleExport DEF InStore, Holds, Exported
<1>6. CASE Serialize(j) \/ LinkPrint(j)
  <2>1. at'[j] \in {"expose", "tidyDb"} /\ pending' = pending
    BY <1>1, <1>6 DEF Serialize, LinkPrint, Continue, Goto, templateVars, Types
  <2>2. QED  BY <1>1, <2>1, ExportFrame DEF InStore, Holds, Exported
<1>7. CASE UnlinkDatabase(j)
  <2>1. at[j] = "tidyDb" /\ at'[j] = "tidyReady" /\ pending' = [pending EXCEPT !.db = "none"]
    BY <1>7 DEF UnlinkDatabase, Continue, Goto, Types
  <2>2. pending'.db = "none" /\ InStore(j)
    BY <2>1 DEF Types, InStore, Exported
  <2>3. QED  BY <1>1, <1>2, <2>1, <2>2, SoleExport DEF InStore, Holds, Exported
<1>8. CASE UnlinkReady(j)
  <2>1. at[j] = "tidyReady" /\ at'[j] = "verify1" /\ pending' = [pending EXCEPT !.ready = NoFinger]
    BY <1>8 DEF UnlinkReady, Goto, Types
  <2>2. pending.db = "none" /\ InStore(j)
    BY <2>1 DEF ExportInv, InStore
  <2>3. pending' = Empty
    BY <2>1, <2>2 DEF Empty, Types
  <2>4. QED  BY <1>1, <1>2, <2>1, <2>2, <2>3, SoleExport
<1>9. QED  BY <1>3, <1>4, <1>5, <1>6, <1>7, <1>8 DEF Publishing

LEMMA GaveStays ==
  ASSUME Types, RunInv, CalmInv, NEW j \in Jobs, Runtime(j), Gave(j), ~job[j].mid
  PROVE  Gave(j)'
<1>1. /\ rt \in [Jobs -> RunRecord] /\ client \in [Jobs -> Stages]
      /\ rt[j].at = "client" <=> client[j] # "none"
      /\ rt[j].at \in {"client", "cleanup", "over"}
  BY DEF Gave, Done, RunInv, RunOf, Types, RuntimeTypeOK
<1>2. CASE ClientExits(j, 0)
  BY <1>1, <1>2 DEF ClientExits, Gave, Done, RunRecord
<1>3. CASE Cleanup(j)
  <2>1. sensor = "off"
    BY <1>3 DEF Cleanup, CalmInv, SensorInv, RunInv, RunOf, Holding, Types, RuntimeTypeOK
  <2>2. rt'[j].at = "over" /\ rt'[j].result = rt[j].result /\ rt[j].result = 0
    BY <1>1, <1>3, <2>1 DEF Cleanup, SaysClean, RunRecord, Gave, Done
  <2>3. QED  BY <2>2 DEF Gave, Done
<1>4. CASE Refused(j) \/ TakeLock(j) \/ NotReady(j) \/ StartClient(j)
  BY <1>1, <1>4 DEF Refused, TakeLock, NotReady, StartClient
<1>5. CASE /\ ClientExits(j, 1) /\ client[j] \in {"begun", "committed"}
  BY <1>1, <1>5 DEF ClientExits, Gave, Done
<1>6. QED  BY <1>2, <1>3, <1>4, <1>5 DEF Runtime

LEMMA ClientsExport ==
  ASSUME Types, RunInv, StoreInv, CalmInv, ExportInv, NEW j \in Jobs, Clients(j)
  PROVE  ExportInv'
<1>1. CASE RuntimeStep(j)
  <2>1. Runtime(j) /\ UNCHANGED <<at, job, pending, interface>>
    BY <1>1 DEF RuntimeStep, templateVars, boundVars
  <2>2. OthersStay(j)
    BY <2>1, <1>1 DEF Runtime, Refused, TakeLock, NotReady, StartClient, ClientExits, StopClient, Cleanup,
       Types, RuntimeTypeOK, OthersStay
  <2>3. ASSUME InStore(j), Holds(j)  PROVE InStore(j)' /\ Holds(j)'
    <3>1. interface = "helper"
      BY <2>3, StoreAlone
    <3>2. at[j] = "capturing" => ~job[j].mid
      BY <3>1 DEF CalmInv, CalmOf, AfterRound
    <3>3. at[j] = "capturing" => Gave(j)'
      BY <2>1, <2>3, <3>2, GaveStays DEF Holds, Exported
    <3>4. QED  BY <2>1, <2>3, <3>3 DEF InStore, Holds
  <2>4. QED  BY <2>1, <2>2, <2>3, ExportFrame DEF ExportInv
<1>2. CASE ClientCommits(j)
  <2>1. /\ UNCHANGED <<at, rt, job, pending, interface>> /\ rt[j].at = "client" /\ client[j] = "begun"
        /\ \A k \in Jobs : k # j => client'[k] = client[k]
    BY <1>2 DEF ClientCommits, ClientStep, Commits, boundVars, Types, RuntimeTypeOK
  <2>2. InStore(j) /\ Holds(j) => InStore(j)' /\ Holds(j)'
    BY <2>1 DEF InStore, Holds, Gave, Done
  <2>3. QED  BY <2>1, <2>2, ExportFrame DEF ExportInv, OthersStay
<1>3. CASE ClientWrites(j)
  <2>1. /\ UNCHANGED <<at, rt, interface>> /\ rt[j].at = "client" /\ client'[j] = "wrote"
        /\ \A k \in Jobs : k # j => client'[k] = client[k] /\ job'[k] = job[k]
        /\ Waits(at[j], rt[j].does) /\ Exports(rt[j].does)
    BY <1>3 DEF ClientWrites, ClientStep, boundVars, RunInv, RunOf, Holding, Types, RuntimeTypeOK
  <2>2. OthersStay(j) /\ Gave(j)'
    BY <2>1 DEF OthersStay, Gave
  <2>3. CASE pending' = pending
    <3>1. InStore(j) /\ Holds(j) => InStore(j)' /\ Holds(j)'
      BY <2>1, <2>2 DEF InStore, Holds
    <3>2. QED  BY <2>1, <2>2, <2>3, <3>1, ExportFrame DEF ExportInv
  <2>4. CASE pending' # pending
    <3>1. /\ interface = "helper" /\ at[j] = "capturing" /\ pending'.ready = pending.ready
      BY <2>1, <2>4 DEF Exports, Waits, Types
    <3>2. InStore(j) /\ InStore(j)' /\ Holds(j)'
      BY <2>1, <2>2, <3>1 DEF InStore, Holds
    <3>3. QED  BY <2>1, <2>2, <3>1, <3>2, StoreAlone, SoleExport DEF ExportInv
  <2>5. QED  BY <2>3, <2>4
<1>4. QED  BY <1>1, <1>2, <1>3 DEF Clients

LEMMA ExportStep ==
  ASSUME Types, RunInv, NativeInv, StoreInv, CalmInv, ExportInv, [Next]_vars, ~Disturbs
  PROVE  ExportInv'
<1>1. ASSUME NEW j \in Jobs, Start(j) \/ Native(j) \/ Credentials(j)  PROVE ExportInv'
  BY <1>1, StartExport, NativeExport, CredentialsExport
<1>2. ASSUME NEW j \in Jobs, Acceptance(j)  PROVE ExportInv'
  BY <1>2, AcceptanceOwn, OwnOthers, AcceptanceSpares, SparesExport, PublishingExport
<1>3. ASSUME NEW j \in Jobs, PassOn(j) \/ Cancel(j)  PROVE ExportInv'
  <2>1. UNCHANGED <<at, rt, client, pending, interface>>
    BY <1>3 DEF PassOn, Cancel, runtimeVars, templateVars, boundVars, otherBounds
  <2>2. QED  BY <2>1 DEF ExportInv, InStore, Holds, Gave, Done
<1>4. ASSUME Recover \/ DeletePrint \/ KeyExpires \/ Rest \/ UNCHANGED vars  PROVE ExportInv'
  <2>1. UNCHANGED <<at, rt, client, pending, interface>>
    BY <1>4 DEF Recover, DeletePrint, KeyExpires, Rest, vars, runtimeVars, templateVars, boundVars
  <2>2. QED  BY <2>1 DEF ExportInv, InStore, Holds, Gave, Done
<1>5. QED
  BY <1>1, <1>2, <1>3, <1>4, ClientsExport, NoOrphanMoves, StepCases DEF Disturbs

LEMMA NeatInvInit == Init => NeatInv
<1>1. SUFFICES ASSUME Init  PROVE CalmInv /\ TidyInv /\ LaterInv /\ ExportInv
  BY DEF NeatInv
<1>2. CalmInv
  BY <1>1 DEF Init, RuntimeInit, CalmInv, CalmOf, SensorInv, NoJob, NoRun, Fresh, Over
<1>3. TidyInv
  BY <1>1 DEF Init, TidyInv, TidyOf, Tidy, CredentialWhole, NoJob, Creates, Changes
<1>4. LaterInv /\ ExportInv
  BY <1>1 DEF Init, LaterInv, Later, SyncSteps, ExportInv, Empty
<1>5. QED  BY <1>2, <1>3, <1>4

LEMMA NeatInvStep == AccountInv /\ NativeInv /\ StoreInv /\ NeatInv /\ [Next]_vars => NeatInv'
<1>1. SUFFICES ASSUME AccountInv, NativeInv, StoreInv, NeatInv, [Next]_vars, Undisturbed'
               PROVE  (CalmInv /\ TidyInv /\ LaterInv /\ ExportInv)'
  BY DEF NeatInv
<1>2. Types /\ RunInv
  BY <1>1 DEF AccountInv
<1>3. CalmInv /\ TidyInv /\ LaterInv /\ ExportInv /\ ~Disturbs
  BY <1>1, <1>2, UndisturbedBefore DEF NeatInv
<1>4. QED
  BY <1>1, <1>2, <1>3, CalmStep, TidyStep, LaterStep, ExportStep

\* Jobs that nothing disturbed, however two of them are interleaved, and enrolments
\* that were only cancelled leave nothing behind that a later one would refuse: the
\* handle is the last one the secure world gave out, no file is left, the sensor is
\* off and the path restored.
THEOREM LeavesNothing == Spec => []NothingLeft
<1>1. ASSUME AccountInv, NativeInv, NeatInv, AllIdle, Undisturbed
      PROVE  /\ Tidy /\ pending = Empty /\ HardwareIdle
  <2>1. CalmInv /\ TidyInv /\ ExportInv /\ Types /\ RunInv
    BY <1>1 DEF NeatInv, AccountInv
  <2>2. Tidy
    BY <1>1, <2>1 DEF AllIdle, TidyInv, Busy, Creates, Changes
  <2>3. pending = Empty
    BY <1>1, <2>1 DEF AllIdle, ExportInv, Holds, Exported
  <2>4. \A j \in Jobs : rt[j].at \notin Holding /\ client[j] = "none"
    BY <1>1, <2>1 DEF AllIdle, RunInv, RunOf, Holding, Waits
  <2>5. operationLock = Nobody
    BY <2>1, <2>4 DEF RunInv, RunOf, Types, RuntimeTypeOK
  <2>6. sensor = "off" /\ listeners = {} /\ orphan = NoOrphan /\ firmwarePath = "empty"
    BY <2>1, <2>4, <2>5, NobodyAssumption DEF CalmInv, SensorInv, RunInv, RunOf, PathInv, Types, RuntimeTypeOK
  <2>7. QED  BY <2>2, <2>3, <2>4, <2>6 DEF HardwareIdle
<1>2. AccountInv /\ NativeInv /\ NeatInv => NothingLeft
  BY <1>1 DEF NothingLeft, Tidy, Empty
<1>3. AccountInv => Types /\ RunInv
  BY DEF AccountInv
<1>4. QED
  BY <1>2, <1>3, AccountInvInit, AccountInvStep, NativeInvInit, NativeInvStep, StoreInvInit, StoreInvStep,
     NeatInvInit, NeatInvStep, PTL DEF Spec

====
