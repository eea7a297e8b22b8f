SPECIFICATION UnboundedSpec
CONSTANTS
    free = free
    starter = starter
    pro = pro
    w1 = w1
    w2 = w2
    Plans = {free, starter}
    Free = free
    Limit <- Assets
    Grace = 1
    TrialDays = 1
    Workers = {w1}
    MaxSubs = 1
    MaxEmitted = 10
    MaxRequests = 2
    MaxUsage = 0
    MaxClock = 2
INVARIANTS FollowsStripe
CHECK_DEADLOCK FALSE
