CONSTANTS
    SuppliedIDs <- MCSuppliedIDs
    MaxJobs = 2
    MaxIDs = 4
    Horizon = 2
    MaxInt = 4
SPECIFICATION Spec
INVARIANTS
    TypeOK
    IndexConsistent
    PagesShowWholeHistory
    WalkMissesNothing
    JobPagesFill
    StatsAgree
PROPERTY HistoryKept
