CONSTANTS
    Process = {p1, p2}
    Envelope = {e1, e2}
    Identity = {alice, bob}
    Bucket = {0, 1}
    e1 = e1
    e2 = e2
    alice = alice
    bob = bob
    NoProcess = NoProcess
    From <- MCFrom
    Size <- MCSize
    BucketOf <- MCBucketOf
    Hidden <- MCHidden
    TailSizes = {1, 2}
SPECIFICATION Spec
INVARIANTS TypeOK NoDuplicateIds IndexTrusted KeptSurvives
PROPERTIES AppendAuthorized AbstractSpec
