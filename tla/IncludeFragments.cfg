SPECIFICATION Spec
CONSTANTS
  Files = {"a", "b", "f"}
  Closed = Closed
  Projects <- MCProjects
  ResolveFragments = TRUE
  MaxOwnersAnalyzed = 2
  MaxObjects = 2
  MaxEdits = 1
INVARIANTS OwnersEnd IncludersAreOwners
PROPERTIES ChangeRefreshesOwners SaveRefreshesViews
