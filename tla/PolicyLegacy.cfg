CONSTANTS
    Identity = {alice, bob}
    NoOne = NoOne
    Node = {n1, n2}
    n1 = n1
    n2 = n2
    alice = alice
    bob = bob
    IdentityOf <- MCIdentityOf
    Edits <- ForkEdits
    Dials <- BothWays
    Legacy <- OneLegacy
    NoPolicy = NoPolicy
    MaxEvents = 3
    MaxInFlight = 1
SPECIFICATION Spec
PROPERTIES LegacyKept
