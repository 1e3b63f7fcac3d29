CONSTANTS
    MaxMessages = 3
    MaxOpens = 3
SPECIFICATION FairSpec
CHECK_DEADLOCK FALSE
INVARIANTS
    NothingLostOrReordered
    SessionIsServed
PROPERTIES
    GreetReturns
