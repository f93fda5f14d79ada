CONSTANTS
    MaxTime = 2
    Expressions = {"often"}
    Malformed = {}
    Fires <- MCFires
    Handlers = {h1}
    JobTypes = {"ATLEAST_ONCE"}
    Updates = {}
    MaxRequests = 1
    Workers = {w1}
    MaxQueueSize = 1
    Modes = {FALSE}
SPECIFICATION Spec
INVARIANT FailureIsRetried
CHECK_DEADLOCK FALSE
