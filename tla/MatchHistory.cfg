CONSTANT
    Attempts = 3
SPECIFICATION FairSpec
INVARIANTS
    ReportedStored
    ConflictStaysInside
PROPERTIES
    StoredForGood
    RequestsEnd
