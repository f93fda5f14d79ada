CONSTANTS
    MaxTime = 3
    Expressions = {"often"}
    Malformed = {}
    Fires <- MCFires
    Handlers = {h1}
    JobTypes = {"ATLEAST_ONCE"}
    Updates = {}
    MaxRequests = 1
    Workers = {w1, w2}
    MaxQueueSize = 1
    Modes = {TRUE, FALSE}
SYMMETRY WorkerSymmetry
SPECIFICATION Spec
INVARIANTS
    TypeOK
    SubmissionsConserved
    NoSendAfterClose
    LastExecutedIsRecorded
    ExitLeavesNoHalfRecord
    MetricsBoundRecords
PROPERTY ExecutorsKeepPromise
CHECK_DEADLOCK FALSE
