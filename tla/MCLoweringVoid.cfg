SPECIFICATION Spec
CONSTANTS
    MaxTokens = 4
    CondYields <- ValuesOrVoid
INVARIANTS
    BlocksTerminated
