SPECIFICATION Spec
CONSTANT Dialects <- MCDialects
INVARIANTS SameLanguage SameTree
PROPERTY Terminates
CHECK_DEADLOCK FALSE
