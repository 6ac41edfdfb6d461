SPECIFICATION FairSpec
CONSTANTS
    u1 = u1  u2 = u2  k1 = k1  k2 = k2  l1 = l1  l2 = l2
    c1 = c1  c2 = c2  r1 = r1  r2 = r2  none = none
    None = none
    Users <- TwoUsers
    Tokens <- TwoTokens
    Owner <- OwnerOfTwo
    Attempts <- TwoAttempts
    Cleanups <- TwoCleanups
    Requests <- OneRequest
    Kinds <- AllKinds
    Faults <- AnyFault
INVARIANTS
    TypeOK
    StoreHoldsSession
    ListedRowsAreOwn
    EpochMeansSession
PROPERTIES
    RevokedNeverStrands
    NewerSessionStands
