CONSTANTS
    Identity = {alice, bob}
    NoOne = NoOne
    Node = {n1, n2}
    n1 = n1
    n2 = n2
    alice = alice
    bob = bob
    IdentityOf <- MCIdentityOf
    Edits <- LateForkEdits
    Dials <- OneWay
    Legacy <- NoLegacy
    NoPolicy = NoPolicy
    MaxEvents = 3
    MaxInFlight = 1
SPECIFICATION CrashSpec
PROPERTIES OkIsReadable
CHECK_DEADLOCK FALSE
