SPECIFICATION Spec
CONSTANTS
    late = late
    early = early
    put = put
    call = call
    Unknown = Unknown
    Strats <- Straddles
    Contracts <- Put
    Configs <- Unchanged
    Reentrant <- Early
    Fired <- Late
    Sides <- Sold
    Qty = 1
    MaxOrders = 3
    MaxDeaths = 2
    MaxFails = 1
\* each is violated; remove the others to see one
INVARIANTS RowsCatchUp RestartProof
PROPERTIES NothingShadows RowsAreAuthoritative
CHECK_DEADLOCK FALSE
