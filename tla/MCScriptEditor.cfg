SPECIFICATION Spec
CONSTANTS
    Paths <- MCPaths
    Candidates <- MCCandidates
    Versions <- MCVersions
    MaxFiles = 2
    Saves = {s1, s2}
    MaxRequests = 2
INVARIANTS NoCrossWrite ShownBelongs SavedUnlessDisturbed
SYMMETRY SaveSymmetry
