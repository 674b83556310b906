CONSTANTS
    r1 = r1
    r2 = r2
    r3 = r3
    None = None
    Obligations <- MCObligations
    Amount <- MCAmount
    Requests <- MCRequests
    Keys <- MCKeys
    Workloads <- MCWorkloads
SPECIFICATION Spec
\* The system stops when no client has anything more to send.
CHECK_DEADLOCK FALSE
INVARIANT TypeOK
INVARIANT NetWithinAmount
INVARIANT OneEffectPerKey
INVARIANT SortedRequestsNeverDeadlock
PROPERTY AllocationsNeverOvercover
PROPERTY FullPaymentClears
PROPERTY EveryRequestAnswered
PROPERTY ImplementsAccount
