SPECIFICATION FairSpec
CONSTANTS
    offline = offline
    friend = friend
    short = short
    key = key
    other = other
    Absent = Absent
    Unpinned = Unpinned
    Idle = Idle
    NoUrl = NoUrl
    NoNonce = NoNonce
    Url <- MCUrl
    Responder <- MCUrl
    Spelling = {offline, friend, short}
    normalize_peer_url <- MCNormal
    Key = {key, other}
    Process = {1, 2}
    Commands <- MCCommands
    Nonce = {1, 2, 3}
    Lifetime = 2
    MaxChallenges = 2
    Rank <- MCRank
    Identity <- MCIdentity
    Online <- MCOnline
    Channels <- MCChannels
    Skew = 1
INVARIANTS TypeOK StrictUnlessRemoved ChallengesHonoured
PROPERTIES BookSpec Reached
