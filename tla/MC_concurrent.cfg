SPECIFICATION BenchSpec
CONSTANTS
    h1 = h1
    h2 = h2
    l1 = l1
    l2 = l2
    l3 = l3
    Nil = Nil
    Handlers <- TwoHandlers
    Leaves <- ThreeLeaves
    MaxIndex = 3
    MaxCrashes = 1
    Heartbeat = FALSE
    Faults <- EntryFaults
    Client = h1
    Payloads <- TwoPayloads
    Warmup <- BenchWarmsUp
INVARIANTS TreeOfEntries HeadsDurable RepliesHold EntryRetrieved HeadSizesBounded IInv SamplesAscend ProofsServed
