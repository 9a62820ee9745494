SPECIFICATION Spec
CONSTANTS
    UserThreads = {1, 2}
    idle_thread = 0
    thread_entry = 0
    StackTop <- MCStackTop
    ArgSizes = {1}
    Results = {7}
    UserRegs <- MCUserRegs
    KernelValue = 3
    KernelTop = 1024
    Word = 4096
INVARIANTS
    ResumesExactly
    BackInUserMode
    ReportsFaultingThread
