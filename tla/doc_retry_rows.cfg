SPECIFICATION InputSpec
CONSTANTS
  Paths <- MCPaths
  Dirs <- OneDir
  Csv <- MCCsv
  Hidden = {}
  NameMatches <- MCNameMatches
  Pattern <- Everything
  DefaultSize = 2
  Sizes = {1}
  Exports <- OneExport
  Outputs = {"none"}
  Patterns <- MCPatterns
  KeysPerPage = 1
  MaxEvents = 3
INVARIANTS
  RetryStaysInAttempt
CHECK_DEADLOCK FALSE
