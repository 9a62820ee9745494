SPECIFICATION USpec
CONSTANTS
    NUM_THREADS = 3
    idle_thread = idle_thread
    NULL = NULL
    SleepArgs = {0, 1}
    Words = {0, 1, 2, 3}
    MaxChars = 3
    BufSize = 2
    PRINT_COUNT = 2
    Keys = {"S", "i", "A", "a"}
INVARIANTS
    OneWorkerPerChar
    PrintsExactly
