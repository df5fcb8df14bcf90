CONSTANTS
  Pieces <- MCPieces
  MaxPieces <- MCMaxPieces
  Texts <- MCTexts
  Paths <- MCPaths
  Calls <- MCCalls
SPECIFICATION Spec
CHECK_DEADLOCK FALSE
INVARIANTS MatchSound FlatComplete SplitJoin ReplaceSelf CallsAgree EscapeExact
  CharactersWhole SourceScanned CallsMean ModulesMerged
