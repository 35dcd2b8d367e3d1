SPECIFICATION Spec
CONSTANTS
  Proc = {p1}
  Ubuntu = {u1, u2}
  Android = {a1, a2}
  Other = {torn}
  Whole = {u1, u2, a1, a2}
  ImportFiles = {a2}
  Asks = {"stash-android", "import-android", "to-ubuntu", "to-android"}
  Options = {"reboot", "stay"}
  Absent = Absent
  Damaged = Damaged
  MaxFaults = 0
  MaxCrashes = 0
INVARIANTS WayBackVerified
