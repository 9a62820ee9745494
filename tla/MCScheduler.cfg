SPECIFICATION SSpec
CONSTANTS
    NUM_THREADS = 3
    idle_thread = idle_thread
    NULL = NULL
    SleepArgs = {0, 1, 2}
    Words = {0, 1}
INVARIANTS
    TypeOK
    NotifiedNotRunning
    QueueDiscipline
    NeverOverslept
PROPERTIES
    NeverWokenEarly
    ImplementsRoundRobin
