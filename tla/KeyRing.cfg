SPECIFICATION Spec
CONSTANTS
    n1 = n1
    n2 = n2
    alice = alice
    bob = bob
    carol = carol
    NoOne = NoOne
    Node = {n1, n2}
    Identity = {alice, bob, carol}
    IdentityOf <- MCIdentityOf
    Edits <- MCEdits
    Founded <- MCFounded
    Dials <- MCDials
    MAX_KEY_OFFERS = 3
    MaxEvents = 5
    MaxKeys = 2
    MaxPosts = 1
    MaxCuts = 1
INVARIANTS TypeOK RingsExchanged
PROPERTIES KeysKept SharedSpec MessagesReadable
