CONSTANTS
    MaxTime = 3
    Expressions = {"often"}
    Malformed = {}
    Fires <- MCFires
    Handlers = {h1}
    JobTypes = {"ATLEAST_ONCE"}
    Updates = {}
    MaxRequests = 1
    Workers = {w1}
    MaxQueueSize = 1
    Modes = {TRUE, FALSE}
SPECIFICATION FairSpec
INVARIANTS
    CountersMatchRecords
PROPERTIES
    SubmissionsRecorded
    SweepsEnd
    StopTerminates
CHECK_DEADLOCK FALSE
