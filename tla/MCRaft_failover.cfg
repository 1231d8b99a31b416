SPECIFICATION Spec
CONSTANTS
    s1 = s1  s2 = s2  s3 = s3  s4 = s4  s5 = s5  v1 = v1  v2 = v2
    Server = {s1, s2, s3}
    Value = {v1}
    Nil = Nil
    SnapShotInterval = 10
    Electable <- FigureEight
    Appliers = {}
    VoteLinks <- VotesOfS2
    LogLinks <- S1ToS2
    Startable <- OneThenNext
    Restartable = {s2}
    MaxRestarts = 1
    TornReplies = TRUE
    MaxAppends = 3
INVARIANTS LeaderCompleteness CommittedDurable
PROPERTIES CommittedStays LogRefined
CHECK_DEADLOCK FALSE
