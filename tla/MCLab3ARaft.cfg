SPECIFICATION Spec
CONSTANTS
    s1 = s1  s2 = s2  s3 = s3
    Server = {s1, s2, s3}
    NoOne = NoOne
    Electable <- S2ThreeTimes
    VoteLinks <- VotesOfS3
    LogLinks <- ToS3AndS1
    LateLinks <- LateStartOfS1
    Startable <- OneInEach
    Appends <- OneCallInEach
    Restartable = {s3}
    MaxRestarts = 1
INVARIANTS TypeOK OneLeader CommittedAgree SenderPanicsExplained
CHECK_DEADLOCK FALSE
