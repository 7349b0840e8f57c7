SPECIFICATION InputSpec
CONSTANTS
  Paths <- MCPaths
  Dirs <- MCDirs
  Csv <- MCCsv
  Hidden = {}
  NameMatches <- MCNameMatches
  Pattern <- Everything
  DefaultSize = 1
  Sizes = {0, 2}
  Exports <- MCExports
  Outputs = {"none", "bucket"}
  Patterns <- MCPatterns
  KeysPerPage = 1
  MaxEvents = 3
INVARIANTS
  JobsCarrySource
  NoRowTwice
  NoRowForgotten
  ViewsAgree
CHECK_DEADLOCK FALSE
