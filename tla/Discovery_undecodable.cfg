SPECIFICATION DiscoverySpec
CONSTANTS
    D1 = D1
    D2 = D2
    F1 = F1
    F2 = F2
    Absent = Absent
    Dirs <- MCDirs
    Files <- MCFiles
    Surroundings <- MCSurroundings
    MaxLinks = 2
INVARIANT StartsAnyway
