CONSTANTS
    Instruments = {"X"}
    Fills <- MCFills
    None = None
    Client = "c1"
    Side = "BUY"
    Quantity = 3
    Limit = 10
    OrderId <- MCOrderId
    Listings <- MCListings
    LocalIds = {None, "o1"}
    Lifecycles = {"RECONCILING", "PARTIALLY_FILLED", "FILLED", "APPROVED"}
    OpeningCash = 28
    MaxReconciles = 2
SPECIFICATION Spec
INVARIANTS
    PostsExactly
PROPERTIES
    ReviewLeavesMoney
CHECK_DEADLOCK FALSE
