\* Two producers and three consumers over a queue of two slots.
SPECIFICATION MCSpec
CONSTANTS
    Threads = {p1, p2, c1, c2, c3, owner0}
    NoThread = none
    Producers = {p1, p2}
    Consumers = {c1, c2, c3}
    Closers = {owner0}
    Elements = {e1, e2}
    QueSize = 2
    MaxPush = 4
INVARIANTS
    PopSeesElement
    NoLostWakeups
PROPERTIES
    ImplementsFifo
CHECK_DEADLOCK FALSE
