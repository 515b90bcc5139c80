SPECIFICATION Spec
CONSTANTS
    Id = {i1, i2}
    DriveId = {i1}
    Ask = {a1, a2}
    MaxCount = 2
    MaxStray = 1
    NoId = NoId
SYMMETRY ArtifactSymmetry
INVARIANTS ReleasedIsGone BillExact InvalidatedLeavesNothing PermitExact
PROPERTIES FencedNeverPublishes
CHECK_DEADLOCK FALSE
