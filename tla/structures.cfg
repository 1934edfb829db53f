\* Trees of seven elements, names of five characters behind the host.
CONSTANTS
    Keys = {1, 2, 3, 4}
    MaxElements = 7
    Characters = {"/", ".", "a", "?", ";"}
    Hosts <- HostForms
    MaxName = 5
    MaxBase = 3
SPECIFICATION Spec
INVARIANTS
    WalkIsSorted
    DepthsAreHeights
    RelativeYieldsName
\* Trees and names are as large as they get.
CHECK_DEADLOCK FALSE
