SPECIFICATION TSpec
CONSTANTS
    Wrap = 32
    Interval = 5
    MaxLatency = 5
INVARIANT NextMatchAhead
PROPERTY NoDrift
