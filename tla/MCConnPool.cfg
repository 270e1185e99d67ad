\* Three users share two connections; one of them may release a connection
\* that it has already given back.
SPECIFICATION MCFairSpec
CONSTANTS
    Users = {u1, u2, u3}
    Owner = main
    NoThread = none
    Conns = {c1, c2}
    NoConn = null
    Careless = {u1}
    MaxRounds = 2
    MaxSpurious = 1
INVARIANTS
    ReleaseNeverBlocks
    NoLostWakeups
PROPERTIES
    ImplementsLending
    GetIsServed
    BorrowingEnds
CHECK_DEADLOCK FALSE
