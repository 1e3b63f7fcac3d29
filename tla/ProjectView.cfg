CONSTANTS
    f = f
    t = t
    c = c
    r1 = r1
    r1x = r1x
    r2 = r2
    Files = {f}
    Tops = {t}
    Commands = {c}
    Paths = {r1, r1x, r2}
    Root <- MCRoot
    Contents <- MCContents
    Queries = {q1, NoText}
    NoText = NoText
    None = None
    MaxTasks = 3
    MaxBusy = 3
    MaxTyped = 2
    MaxReloads = 1
SPECIFICATION Spec
INVARIANTS
    ServerFollowsSource
    QuietTreeShowsDesign
    SearchSettles
