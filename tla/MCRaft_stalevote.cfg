SPECIFICATION Spec
CONSTANTS
    s1 = s1  s2 = s2  s3 = s3  s4 = s4  s5 = s5  v1 = v1  v2 = v2
    Server = {s1, s2, s3}
    Value = {v1, v2}
    Nil = Nil
    SnapShotInterval = 10
    Electable <- OneAfterTheOther
    Appliers = {s2, s3}
    VoteLinks <- VotesInARing
    LogLinks <- CallsInARing
    Startable <- OneInTerms3And4
    Restartable = {}
    MaxRestarts = 0
    TornReplies = FALSE
    MaxAppends = 3
INVARIANTS StateMachineSafety
CONSTRAINT LateReply
SYMMETRY SymmetryOfValues
CHECK_DEADLOCK FALSE
