SPECIFICATION Spec
CONSTANTS
  w1 = w1
  w2 = w2
  Nobody = Nobody
  Worker <- Workers
  Crashable <- SomeCrash
  NMap = 2
  NReduce = 1
  MaxEarly = 1
  MaxErrors = 1
INVARIANTS TypeOK NoTaskLost OutputsExact LockLeakNeedsFault
PROPERTY Finishes
CHECK_DEADLOCK FALSE
