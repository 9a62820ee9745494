SPECIFICATION UFairSpec
CONSTANTS
    NUM_THREADS = 2
    idle_thread = idle_thread
    NULL = NULL
    SleepArgs = {0, 1}
    Words = {0, 1, 2, 3}
    MaxChars = 3
    BufSize = 2
    PRINT_COUNT = 1
    Keys = {"s", "1"}
PROPERTIES
    InputIsRead
    WorkersFinish
