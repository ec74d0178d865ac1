SPECIFICATION FairSpec
CONSTANTS
    None = None
    Channel = {1, 2}
    MaxWrites = 2
    MaxFaults = 1
INVARIANTS TypeOK InputStays UnchangedIsShown
PROPERTIES LocalChangesAppear
CHECK_DEADLOCK FALSE
