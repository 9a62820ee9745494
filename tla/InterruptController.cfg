SPECIFICATION CFairSpec
INVARIANT EveryInterruptHasACause
PROPERTIES
    TickServed
