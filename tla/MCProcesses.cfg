SPECIFICATION Spec
CONSTANTS
    Bytes <- TwoBytes
    Nul = "0"
    Background = {"bg"}
    Capacity = 1
    Chunk = 2
    MaxOut = 2
    Statuses <- TwoStatuses
    Errors <- AnyErrors
INVARIANTS
    TypeOK
    Complete
    Conserved
PROPERTIES
    ServiceSafety
    Returns
