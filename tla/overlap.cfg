CONSTANTS
    Jobs <- MCJobs
    CronJobs <- MCCronJobs
    Runs = {1, 2}
    MaxAttempts = 2
    MaxBoots = 2
    MaxFaults = 1
SPECIFICATION Spec
\* After the last boot the process may be down for good.
CHECK_DEADLOCK FALSE
PROPERTY TickSkipsWhileRunning
