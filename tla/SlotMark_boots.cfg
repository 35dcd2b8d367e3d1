SPECIFICATION FairSpec
CONSTANTS
  MaxTries = 2
  MaxFaults = 2
  MaxCrashes = 2
  Torn = Torn
INVARIANTS TypeOK OneCopyValid HandoverVerified
PROPERTIES NeverSelects SlotIsMarked
