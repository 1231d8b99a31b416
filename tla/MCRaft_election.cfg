SPECIFICATION Spec
CONSTANTS
    s1 = s1  s2 = s2  s3 = s3  s4 = s4  s5 = s5  v1 = v1  v2 = v2
    Server = {s1, s2, s3}
    Value = {v1}
    Nil = Nil
    SnapShotInterval = 10
    Electable <- TwoCandidates
    Appliers = {}
    VoteLinks <- AllLinks
    LogLinks <- AllLinks
    TornReplies = FALSE
    MaxAppends = 3
    Startable = {}
    Restartable = {s1, s2, s3}
    MaxRestarts = 1
SYMMETRY SymmetryOfTwo
INVARIANTS ElectionSafety VoteOnce
PROPERTIES VoteIsKept VotingRefined
CHECK_DEADLOCK FALSE
