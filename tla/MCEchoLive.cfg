\* Patient clients under fair scheduling: one of them sends two lines.
SPECIFICATION FairSpec
CONSTANTS
    Clients = {c1, c2}
    Slow = {}
    Hasty = {}
    Fds = {3, 4}
    Listen = listen
    EventFd = evfd
    Sources = {3, 4, listen}
    Posters = {w1, w2}
    Functors <- MCLines
    NoFunctor = none
    QueSize = 1
    Room = 1
    Nobody = nobody
    Chatty = {c1}
PROPERTIES
    LinesAreAnswered
    DescriptorsAreFreed
CHECK_DEADLOCK FALSE
