CONSTANTS
    MaxTime = 4
    Expressions = {"often", "rarely"}
    Malformed = {}
    Fires <- MCFires
    Handlers = {h1}
    JobTypes = {"ATMOST_ONCE"}
    Updates <- MCReschedules
    MaxRequests = 2
SPECIFICATION Spec
INVARIANT NextRunFollowsSchedule
