\* The lost wakeup of stop(): one worker is enough.
\* No task needs to be added.
SPECIFICATION MCFairSpec
CONSTANTS
    Workers = {w1}
    Producers = {p1}
    Owner = main
    Threads = {w1, p1, main}
    NoThread = none
    NoTask = nullptr
    Elements = {t1}
    QueSize = 1
    MayFail = {}
    MaxSpurious = 1
PROPERTIES
    StopReturns
CHECK_DEADLOCK FALSE
