SPECIFICATION Spec
CONSTANTS
  Proc = {p1}
  Ubuntu = {u1}
  Android = {a1, a2}
  Other = {torn}
  Whole = {u1, a1, a2}
  ImportFiles = {a2}
  Asks = {"status", "verify", "stash-android", "import-android", "to-ubuntu", "to-android"}
  Options = {"reboot", "stay", "dry"}
  Absent = Absent
  Damaged = Damaged
  MaxFaults = 2
  MaxCrashes = 1
INVARIANTS ArchivedBeforeOverwrite ReplacementReady SealsRestored SuccessIsVerified
PROPERTIES   KeepsPromise DryRunWritesNothing
