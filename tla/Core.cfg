CONSTANTS
    MaxTime = 4
    Expressions = {"often", "rarely"}
    Malformed = {"bad"}
    Fires <- MCFires
    Handlers = {h1, h2}
    JobTypes = {"ATMOST_ONCE"}
    Updates <- MCUpdates
    MaxRequests = 3
SYMMETRY HandlerSymmetry
SPECIFICATION Spec
INVARIANTS
    TypeOK
    NoSlotLost
    NeverEarly
    IInv
    GaugeNeverOverstates
PROPERTIES
    AtMostOncePerSlot
    AtMostOneLateDispatch
    DeletedForever
    SlotsAnsweredInOrder
