CONSTANTS
    L1 = L1
    L2 = L2
    M1 = M1
    M2 = M2
    M3 = M3
    None = None
    Lists <- MCLists
    Messages <- MCMessages
    ListOf <- MCListOf
    Day <- MCDay
    Ancestors <- MCAncestors
    Patches <- MCPatches
    Malformed = {}
    Referenced <- MCReferenced
    Late <- MCLate
    Asked <- MCAsked
    SaveEvery = 2
    MinMessages = 2
    SummaryCap = 1
    MaxRuns = 2
    MaxFaults = 1
SPECIFICATION Spec
INVARIANTS TypeOK  FetchedMeansKept ThreadsFollowReplies CountCoversReplies MarkerNeverServed
CHECK_DEADLOCK FALSE
PROPERTY BackfillSettles
