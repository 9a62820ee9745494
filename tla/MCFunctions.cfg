SPECIFICATION MCSpec
CONSTANTS
    FsrBits = {0, 1, 2, 3, 10}
    Addresses = {1, 2}
    MemSize = 10
    Contents <- MCContents
    Fills <- MCFills
    stack = 2
    THREAD_STACK_SIZE = 4
    Align = 2
    Alphabet = {"t", "%", "0", "1", "6", "c", "s", "i", "u", "x", "p", "?"}
    MaxLen = 5
    Word <- MCWord
    Ints <- MCInts
    Unsigneds <- MCUnsigneds
    Strings <- MCStrings
INVARIANTS
    ReportsThisFault
    StatusNamed
    MemFunctionsCorrect
    ArgumentOnOwnStack
    BufferHolds
    AllOrNothing
    NumbersReadBack
