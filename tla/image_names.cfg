SPECIFICATION Spec
CONSTANTS
    Session = {s1, s2}
    Name <- Names
    Text <- Texts
    Absent = absent
    Sizes = {1, 2}
    Filters <- AskedFor
    DefaultLimit = 1
    DisplayLimit = 3
    CutAt = 2
    MaxSends = 3
    MaxClock = 1
SYMMETRY Symmetry
INVARIANT ContentNamesFile
