SPECIFICATION KFairSpec
CONSTANTS
    NUM_THREADS = 3
    idle_thread = idle_thread
    NULL = NULL
    SleepArgs = {1}
    Words = {0, 1, 2}
    MaxChars = 2
    BufSize = 1
PROPERTIES
    KernelReturns
    RxServed
    KReadyRuns
    SleeperWakes
