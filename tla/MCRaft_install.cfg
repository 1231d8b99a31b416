SPECIFICATION Spec
CONSTANTS
    s1 = s1  s2 = s2  s3 = s3  s4 = s4  s5 = s5  v1 = v1  v2 = v2
    Server = {s1, s2, s3}
    Value = {v1}
    Nil = Nil
    SnapShotInterval = 2
    Electable <- S1Once
    Appliers = {s1}
    VoteLinks <- S1ToS2
    LogLinks <- S1ToS2
    TornReplies = FALSE
    MaxAppends = 4
    Startable <- TwoInTerm1
    Restartable = {s1}
    MaxRestarts = 1
PROPERTIES InstallKeepsRecent
CHECK_DEADLOCK FALSE
