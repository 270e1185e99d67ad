\* Both programs; a codec that keeps one item back and four items per stream.
SPECIFICATION Spec
CONSTANTS
    MaxItems = 4
    Delay = 1
INVARIANTS
    CodecReady
    OutputComplete
PROPERTY
    ImplementsTranscoder
