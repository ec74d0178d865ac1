CONSTANTS
    Identity = {alice, bob}
    NoOne = NoOne
    Node = {n1, n2}
    n1 = n1
    n2 = n2
    alice = alice
    bob = bob
    IdentityOf <- MCIdentityOf
    Edits <- ChangingHands
    Dials <- BothWays
    Legacy <- NoLegacy
    NoPolicy = NoPolicy
    ModEdits <- BothModerate
    MaxEvents = 3
    MaxModEvents = 1
    MaxInFlight = 1
    MaxCuts = 1
SPECIFICATION MFairSpec
INVARIANTS MTypeOK ModerationReplays
PROPERTIES SharedSpec ModerationKept ModerationConverges HistoriesConverge
