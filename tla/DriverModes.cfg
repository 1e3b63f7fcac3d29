CONSTANTS
    m = m
    p = p
    Uris <- TwoFiles
    Deps <- PackageOnly
    BuildFiles <- TwoFiles
    InactiveRegions = TRUE
    Missing = Missing
    NoDoc = NoDoc
    Closed = Closed
    Garbled = Garbled
    MaxEdits = 1
    MaxSwitches = 2
SPECIFICATION Spec
CHECK_DEADLOCK FALSE
INVARIANTS
    CleanMeansShown
    OpenTextIsEditors
PROPERTIES
    SaveRefreshesBuild
