SPECIFICATION RefSpec
CONSTANTS
  Files = {"a", "b", "c", "d"}
  Workspaces <- MCWorkspaces
  NewNames = {"new"}
  MaxEdits = 1
  MaxOpen = 2
INVARIANTS
  ReferencesAreOccurrences ReferencesAreComplete UnitsAreFound TreesAreClosure RenameKeepsMeaning
CHECK_DEADLOCK FALSE
