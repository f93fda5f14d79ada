CONSTANTS
    MaxTime = 2
    Expressions = {"often"}
    Malformed = {}
    Fires <- MCFires
    Handlers = {h1}
    JobTypes = {"ATLEAST_ONCE"}
    Updates = {}
    MaxRequests = 2
    Workers = {w1}
    MaxQueueSize = 1
    Modes = {FALSE}
SPECIFICATION FairSpec
PROPERTY SignalTerminates
CHECK_DEADLOCK FALSE
