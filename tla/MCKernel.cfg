SPECIFICATION KSpec
CONSTANTS
    NUM_THREADS = 3
    idle_thread = idle_thread
    NULL = NULL
    SleepArgs = {0}
    Words = {0, 1, 2, 3}
    MaxChars = 3
    BufSize = 2
INVARIANTS
    KTypeOK
    NoLostWakeup
    RxNotStranded
    GrantReachesThread
    CharsConserved
    NoOvertaking
PROPERTY ImplementsScheduler
