CONSTANTS
    MaxTime = 4
    Expressions = {"often", "never"}
    Malformed = {}
    Fires <- MCFires
    Handlers = {h1}
    JobTypes = {"ATMOST_ONCE"}
    Updates <- MCReschedules
    MaxRequests = 1
SPECIFICATION Spec
INVARIANT DispatchedOnSchedule
