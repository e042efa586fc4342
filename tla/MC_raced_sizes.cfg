SPECIFICATION Spec
CONSTANTS
    h1 = h1
    h2 = h2
    l1 = l1
    l2 = l2
    Nil = Nil
    Handlers <- TwoHandlers
    Leaves <- TwoLeaves
    MaxIndex = 2
    MaxCrashes = 0
    Heartbeat = FALSE
    Faults <- NoFaults
INVARIANT SthCommitsToTree
