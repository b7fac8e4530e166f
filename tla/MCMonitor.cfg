CONSTANTS
    MaxNotes = 3
    NULL = NULL
    Code = Code
SPECIFICATION Spec
INVARIANTS
    TypeOK
    Sound
    NoLeaks
    ValueUnlessMasked
PROPERTIES
    ImplementsFeed
    HeldByAnswersOnly
