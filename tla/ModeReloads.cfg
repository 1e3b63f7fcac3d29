CONSTANTS
    a = a
    b = b
    BuildLists = {a, b}
    t = t
    Tops = {t}
    Unset = Unset
    Json = Json
    Source = Source
    MaxVersion = 1
SPECIFICATION Spec
INVARIANTS ReportedChangesAreUsed
PROPERTIES ReloadKeepsBuild
