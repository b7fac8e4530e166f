CONSTANT MaxSent = 4
SPECIFICATION Spec
INVARIANTS
    TypeOK
    Paired
PROPERTIES
    AcceptedMeansAuthed
    CallsReturn
    ImplementsExchange
