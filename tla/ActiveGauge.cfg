CONSTANTS
    MaxTime = 4
    Expressions = {"often"}
    Malformed = {}
    Fires <- MCFires
    Handlers = {h1}
    JobTypes = {"ATMOST_ONCE"}
    Updates <- MCStatusUpdates
    MaxRequests = 3
SPECIFICATION Spec
INVARIANT GaugeCountsActiveJobs
