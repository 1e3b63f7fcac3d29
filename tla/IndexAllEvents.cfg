CONSTANTS
    p1 = p1
    p2 = p2
    a = a
    b = b
    Paths = {p1, p2}
    Names = {a, b}
    ConfigFile = ConfigFile
    Missing = Missing
    Contents <- ThreeContents
    Configs <- BothConfigs
    EventTypes = {"Created", "Changed", "Deleted"}
    MaxWrites = 2
SPECIFICATION Spec
CHECK_DEADLOCK FALSE
INVARIANTS
    TablesMatchRecords
    QuietIndexIsComplete
    QuietIndexIsSound
