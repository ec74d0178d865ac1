CONSTANTS
    Identity = {alice, bob}
    NoOne = NoOne
    Node = {n1, n2}
    n1 = n1
    n2 = n2
    alice = alice
    bob = bob
    IdentityOf <- MCIdentityOf
    Edits <- TwoOwners
    Dials <- BothWays
    Legacy <- NoLegacy
    NoPolicy = NoPolicy
    ModEdits <- AliceModerates
    MaxEvents = 2
    MaxModEvents = 1
    MaxInFlight = 1
    MaxCuts = 1
SPECIFICATION MSpec
INVARIANTS ModerationReplays
