SPECIFICATION TracedSpec
CONSTANTS
    w1 = w1
    w2 = w2
    Workers = {w1}
    MaxNumber = 3
    MaxChanges = 2
    Faults = TRUE
INVARIANTS ConvertedOnce
CHECK_DEADLOCK FALSE
