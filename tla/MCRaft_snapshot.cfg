SPECIFICATION Spec
CONSTANTS
    s1 = s1  s2 = s2  s3 = s3  s4 = s4  s5 = s5  v1 = v1  v2 = v2
    Server = {s1, s2, s3}
    Value = {v1, v2}
    Nil = Nil
    SnapShotInterval = 2
    Electable <- S3Rebels
    Appliers = {s1, s3}
    VoteLinks <- S1ToS2
    LogLinks <- S1ToBoth
    TornReplies = FALSE
    MaxAppends = 3
    Startable <- TwoInTerm1
    Restartable = {s1, s3}
    MaxRestarts = 1
SYMMETRY SymmetryOfValues
INVARIANTS StateMachineSafety NeverOutOfLog
PROPERTIES CommittedStays VoteIsKept
CHECK_DEADLOCK FALSE
