\* A mark that may expire under a running handler, as config.Validate allows.
SPECIFICATION LiveSpec
CONSTANTS
    r1 = r1
    r2 = r2
    k1 = k1
    alice = alice
    bob = bob
    Nobody = Nobody
    Key = {k1}
    Request <- MCRequest
    Call <- MCCall
    RequestTimeout = 3
    PersistTimeout = 1
    ProcessingTTL = 2
    ResultTTL = 3
    FailureTTL = 2
INVARIANTS
    TypeOK
    WorksUnderMark
    ReplayIsOwn
PROPERTIES
    StoredResultIsFinal
    KeyIsReleased
