SPECIFICATION SeedSpec
CONSTANTS
    h1 = h1
    l1 = l1
    l2 = l2
    Nil = Nil
    Handlers <- OneHandler
    Leaves <- TwoLeaves
    MaxIndex = 3
    MaxCrashes = 1
    Heartbeat = TRUE
    Faults <- NoFaults
INVARIANTS SeedInv HeadsOfOneLog SeededServed HeadsDurable
SYMMETRY Symmetry
