SPECIFICATION Spec
CONSTANTS
    NotifyCap = 1
    SnapShotInterval = 2
    MaxIndex = 2
    Installable <- OneSnapshot
    MaxRestarts = 1
    MaxLate = 1
INVARIANTS TypeOK FaultNeedsInstall
PROPERTIES WedgedForGood CommittedIsApplied LockIsReturned
CHECK_DEADLOCK FALSE
