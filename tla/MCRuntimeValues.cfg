SPECIFICATION Spec
CONSTANTS
    Arrays = {"a", "b"}
    Objects = {"o"}
    Keys = {"k", "l"}
    Scalars <- MCScalars
    Literals <- MCLiterals
    Initial = 1
    MaxItems = 2
    MaxCells = 2
    RunsCommands = FALSE
INVARIANTS TypeOK Owned
PROPERTIES FreedByOwner ValueSemantics
VIEW InUse
