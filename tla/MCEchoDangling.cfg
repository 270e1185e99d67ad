\* A client that closes before its answer has come.
SPECIFICATION Spec
CONSTANTS
    Clients = {c1, c2}
    Slow = {}
    Hasty = {c1}
    Fds = {3, 4}
    Listen = listen
    EventFd = evfd
    Sources = {3, 4, listen}
    Posters = {w1, w2}
    Functors <- MCLines
    NoFunctor = none
    QueSize = 1
    Room = 1
    Nobody = nobody
    Chatty = {}
INVARIANTS
    SendsOnLiveConnection
CHECK_DEADLOCK FALSE
