SPECIFICATION Spec
CONSTANT Scopes <- MCScopes
INVARIANTS
    TypeOK
    ChargedOnlyAfterPayout
    SuccessMeansBothLegs
    InvoiceIsOnRecord
PROPERTIES
    OrderMovesForward
    OneCreation
    OrderResolves
    FailedOrderReleasesPayer
CHECK_DEADLOCK FALSE
