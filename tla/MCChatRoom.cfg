\* One client talks, one says a word and may leave or abort, one is silent; two
\* descriptors.
SPECIFICATION FairSpec
CONSTANTS
    ann = ann
    bob = bob
    cat = cat
    Clients = {ann, bob, cat}
    Talk <- MCTalk
    Leavers = {bob}
    Fds = {4, 5}
    Listen = 3
    None = None
    IdleLimit = 2
    BuffSize = 2
    MaxEvents = 2
    Window = 1
INVARIANTS
    TableOK
    EventsAreFresh
PROPERTIES
    ImplementsRoom
    ConnectionsEnd
