CONSTANTS
    Operators <- MCOperators
    Admins <- MCAdmins
    ShiftKeys <- MCShiftKeys
    MoveKeys <- MCMoveKeys
    Requests = {r1, r2}
    Calls <- MCCalls
    None = None
SPECIFICATION Spec
INVARIANT TypeOK
INVARIANT ClosesAreComplete
INVARIANT ReversedOnce
PROPERTY ClosedIsFrozen
PROPERTY EveryRequestAnswered
