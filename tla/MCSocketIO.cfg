\* A peer that sends up to six bytes and may end or abort the connection.
SPECIFICATION FairSpec
CONSTANTS
    MaxLen = 4
    Room = 2
    MaxBytes = 6
INVARIANTS
    StreamPreserved
    WritesInBounds
PROPERTIES
    ImplementsLineStream
    LinesAreRead
    EndIsNoticed
