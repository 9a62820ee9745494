SPECIFICATION BFairSpec
CONSTANT Cores = {0, 1, 2, 3}
INVARIANTS
    NoSharedStack
    NoInterruptTooEarly
PROPERTY CoresSettle
