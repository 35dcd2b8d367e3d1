SPECIFICATION Spec
CONSTANTS
    j1 = j1
    j2 = j2
    Jobs <- TwoJobs
    Nobody = Nobody
    Fingers = {"index", "thumb"}
    MaxStarts = 3
    MaxFaults = 2
    MaxDeletes = 1
SYMMETRY JobSymmetry
INVARIANTS
    TypeOK
    AskedOnce
    
    PrintIsAccepted
    HardwareAlone
    OkIsClean
    NothingLeft
