SPECIFICATION Spec
CONSTANTS
    s1 = s1  s2 = s2  s3 = s3  s4 = s4  s5 = s5  v1 = v1  v2 = v2
    Server = {s1, s2, s3}
    Value = {v1}
    Nil = Nil
    SnapShotInterval = 10
    Electable <- InTurn
    Appliers = {}
    VoteLinks <- VotesOfS2
    LogLinks <- S1ToBoth
    Startable <- OneThenNext
    Restartable = {}
    MaxRestarts = 0
    TornReplies = FALSE
    MaxAppends = 4
INVARIANTS TypeOK LogMatching
CHECK_DEADLOCK FALSE
