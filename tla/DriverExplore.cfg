CONSTANTS
    m = m
    p = p
    Uris <- TwoFiles
    Deps <- PackageOnly
    BuildFiles <- TwoFiles
    InactiveRegions = TRUE
    Missing = Missing
    NoDoc = NoDoc
    Closed = Closed
    Garbled = Garbled
    MaxEdits = 2
    MaxSwitches = 0
SPECIFICATION Spec
CHECK_DEADLOCK FALSE
INVARIANTS
    OpenDocumentsShowTheirText
    OpenDocumentsShowSavedDependencies
