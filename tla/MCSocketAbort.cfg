\* An aborted connection.
SPECIFICATION FairSpec
CONSTANTS
    MaxLen = 4
    Room = 2
    MaxBytes = 2
PROPERTIES
    AbortIsNoticed
