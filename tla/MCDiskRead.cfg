SPECIFICATION Spec
CONSTANTS
    WordSize = 32
    Sector = 4
    Machines <- MCMachines
    Requests <- MCRequests
INVARIANTS TypeOK HeapReturned FailsForReason
PROPERTIES IsDiskRange ReadEnds
