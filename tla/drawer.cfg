CONSTANTS
    Operators <- MCOperators
    Admins <- MCAdmins
    ShiftKeys <- MCShiftKeys
    MoveKeys <- MCMoveKeys
    Requests = {r1, r2}
    Calls <- DrawerCalls
    None = None
SPECIFICATION Spec
PROPERTY DrawerCarriesOver
