\* Two hasty clients and a patient one, one of the hasty with unfinished lines,
\* share two descriptors.
SPECIFICATION Spec
CONSTANTS
    Clients = {c1, c2, c3}
    Slow = {c1}
    Hasty = {c1, c2}
    Fds = {3, 4}
    Listen = listen
    EventFd = evfd
    Sources = {3, 4, listen}
    Posters = {w1, w2}
    Functors <- MCLines
    NoFunctor = none
    QueSize = 1
    Room = 1
    Nobody = nobody
    Chatty = {}
SYMMETRY Symmetric
INVARIANTS
    TableOK
    DescriptorsOK
    EventsAreFresh
    PatientNeverDangles
PROPERTIES
    ImplementsEcho
CHECK_DEADLOCK FALSE
