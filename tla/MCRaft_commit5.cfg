SPECIFICATION Spec
CONSTANTS
    s1 = s1  s2 = s2  s3 = s3  s4 = s4  s5 = s5  v1 = v1  v2 = v2
    Server = {s1, s2, s3, s4, s5}
    Value = {v1}
    Nil = Nil
    SnapShotInterval = 10
    Electable <- S1Twice
    Appliers = {}
    VoteLinks <- VotesOfS3AndS4
    LogLinks <- S1ToS2
    TornReplies = FALSE
    MaxAppends = 10
    Startable <- OneInEach
    Restartable = {s1}
    MaxRestarts = 1
INVARIANTS CommittedDurable
CHECK_DEADLOCK FALSE
