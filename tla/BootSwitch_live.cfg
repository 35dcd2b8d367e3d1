SPECIFICATION FairSpec
CONSTANTS
  Proc = {p1, p2}
  Ubuntu = {u1}
  Android = {a1}
  Other = {torn}
  Whole = {u1, a1}
  ImportFiles = {}
  Asks = {"to-ubuntu", "to-android"}
  Options = {"reboot"}
  Absent = Absent
  Damaged = Damaged
  MaxFaults = 1
  MaxCrashes = 1
INVARIANTS TypeOK LockExclusive
PROPERTIES SwitchEnds SwitchArrives
