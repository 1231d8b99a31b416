SPECIFICATION Spec
CONSTANTS
    Program = {"channel", "aggregate", "counter", "wordcount", "timeout"}
    N = 2
    Items = 3
    Capacity = 1
    Words <- ThreeWords
    Durations = {1, 3}
    Timeout = 2
INVARIANTS TypeOK NothingLost CounterExact TotalOrNothing CancelIsTooLate
PROPERTY Terminates
CHECK_DEADLOCK FALSE
