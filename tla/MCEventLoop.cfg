\* Two posting threads, three posts, one other descriptor.
SPECIFICATION MCFairSpec
CONSTANTS
    Posters = {w1, w2}
    Functors = {f1, f2}
    NoFunctor = none
    Sources = {s1}
    EventFd = evfd
    MaxPosts = 3
INVARIANTS
    MailboxAnnounced
    EventReadNeverBlocks
PROPERTIES
    ImplementsMailbox
    FunctorsRun
    UnloopTakesEffect
CHECK_DEADLOCK FALSE
