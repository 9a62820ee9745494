SPECIFICATION FSpec
CONSTANTS
    FsrBits = {0, 1, 2, 3, 10}
    Addresses = {1, 2}
INVARIANT HighStatusNamed
