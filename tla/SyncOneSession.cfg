SPECIFICATION Spec
CONSTANTS
    a = a
    b = b
    a1 = a1
    a2 = a2
    a3 = a3
    b1 = b1
    b2 = b2
    b3 = b3
    common = common
    s1 = s1
    s2 = s2
    Node <- MCNode
    Bucket = {0, 1}
    BucketOf <- MCBucketOf
    ClientOf <- MCClientOf
    ServerOf <- MCServerOf
    Known <- MCKnown
    Posts <- MCPosts
    Message = {a1, a3, b1, b3, common}
    Session = {s1}
    Revocable = {a1, b1}
    BufferCap = 1
    MaxFailures = 2
INVARIANTS TypeOK CompleteIsConverged StuckOnlyByBacklog FramesExpected
PROPERTIES SharedSpec
