CONSTANTS
  Pieces <- MCModulePieces
  MaxPieces <- MCMaxPieces
  Texts <- MCTexts
  Paths <- MCPaths
  Calls <- MCCalls
SPECIFICATION Spec
CHECK_DEADLOCK FALSE
INVARIANT OwnFirst
