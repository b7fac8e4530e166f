CONSTANTS
    MaxNotes = 3
    NULL = NULL
    Code = Code
SPECIFICATION Spec
PROPERTY Resubscribes
