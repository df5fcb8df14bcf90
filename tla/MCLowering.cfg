SPECIFICATION Spec
CONSTANTS
    MaxTokens = 8
    CondYields <- ValuesOnly
INVARIANTS
    TypeOK
    ReservedOpen
    BlocksTerminated
PROPERTIES
    TerminatorsFinal
    SourceSemantics
