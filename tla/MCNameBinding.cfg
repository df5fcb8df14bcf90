SPECIFICATION Spec
CONSTANTS
    Names = {x, y}
    Types = {i32, string}
    MaxTokens = 5
SYMMETRY Symmetry
INVARIANTS
    TypeOK
    LexicalBinding
    NeverUnknown
    UnhiddenBinding
