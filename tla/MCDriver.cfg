CONSTANTS
  Builds = {"b1", "b2"}
  Pids = {1, 2}
  Carried <- MCCarried
  Commands <- MCCommands
  Library <- MCLibrary
  Analysis <- AnalysisOf
  Entry <- MCEntry
  MaxKills = 1
SPECIFICATION Spec
CHECK_DEADLOCK FALSE
INVARIANTS TypeOK Honest Tidy Blameless
PROPERTIES Isolated Ends
