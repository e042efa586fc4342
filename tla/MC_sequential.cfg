SPECIFICATION SerialReadSpec
CONSTANTS
    h1 = h1
    l1 = l1
    l2 = l2
    l3 = l3
    Nil = Nil
    Handlers <- OneHandler
    Leaves <- ThreeLeaves
    MaxIndex = 4
    MaxCrashes = 2
    Heartbeat = TRUE
    Faults <- ReportedFaults
INVARIANTS SthCommitsToTree HeadsConsistent ReceiptsVerify NoAlarm EntriesIncluded NoLostEntry SInv
PROPERTIES LatestNeverShrinks PromiseKept
SYMMETRY LeafSymmetry
