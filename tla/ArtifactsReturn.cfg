SPECIFICATION FairSpec
CONSTANTS
    Id = {i1}
    DriveId = {i1}
    Ask = {a1}
    MaxCount = 2
    MaxStray = 1
    NoId = NoId
PROPERTIES SealReturns
CHECK_DEADLOCK FALSE
