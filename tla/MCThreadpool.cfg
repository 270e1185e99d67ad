\* Two workers (one may fail to start), two producers that add two tasks to a
\* queue of one slot, two spurious wakeups.
SPECIFICATION MCFairSpec
CONSTANTS
    Workers = {w1, w2}
    Producers = {p1, p2}
    Owner = main
    Threads = {w1, w2, p1, p2, main}
    NoThread = none
    NoTask = nullptr
    Elements = {t1, t2}
    QueSize = 1
    MayFail = {w2}
    MaxSpurious = 2
INVARIANTS
    TaskAccounting
    StopWaitsForEarlierTasks
PROPERTIES
    ImplementsExecutor
    TaskIsExecuted
    AddTaskReturns
    StopReturnsUnlessRaced
    ImplementsFairFifo
CHECK_DEADLOCK FALSE
