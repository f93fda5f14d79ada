CONSTANTS
    MaxTime = 4
    Expressions = {"often"}
    Malformed = {}
    Fires <- MCFires
    Handlers = {h1}
    JobTypes = {"ATMOST_ONCE"}
    Updates <- MCStatusUpdates
    MaxRequests = 2
SPECIFICATION Spec
PROPERTY StatusUpdateTakesEffect
