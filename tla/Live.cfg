CONSTANTS
    MaxTime = 4
    Expressions = {"often", "rarely", "never"}
    Malformed = {}
    Fires <- MCFires
    Handlers = {h1}
    JobTypes = {"ATMOST_ONCE"}
    Updates <- MCUpdates
    MaxRequests = 2
SPECIFICATION FairSpec
INVARIANTS
    RunsAreTheFirstSlots
    WindowSeesTheSlot
    ValidatorFollowsGrammar
PROPERTY EverySlotDispatched
