SPECIFICATION Spec
CONSTANTS
    i1 = i1
    i2 = i2
    i3 = i3
    Ids = {i1, i2, i3}
    Groups = {"", "home", "work"}
    Ungrouped = ""
    None = None
    MaxConfigs = 4
SYMMETRY Symmetry
INVARIANTS
    ListShowsFile
    SelectionIsRemembered
PROPERTIES
    SelectionStays
    OthersKept
