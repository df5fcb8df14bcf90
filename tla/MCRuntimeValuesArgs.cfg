SPECIFICATION Spec
CONSTANTS
    Arrays = {"a", "b"}
    Objects = {"o"}
    Keys = {"k"}
    Scalars <- MCScalars
    Literals <- MCLiterals
    Initial = 2
    MaxItems = 3
    MaxCells = 2
    RunsCommands = TRUE
INVARIANTS Owned
VIEW InUse
