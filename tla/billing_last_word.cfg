SPECIFICATION MCSpec
CONSTANTS
    free = free
    starter = starter
    pro = pro
    w1 = w1
    w2 = w2
    Plans = {free, starter}
    Free = free
    Limit <- Assets
    Grace = 1
    TrialDays = 1
    Workers = {w1, w2}
    MaxSubs = 2
    MaxEmitted = 15
    MaxRequests = 3
    MaxUsage = 2
    MaxClock = 2
INVARIANTS FollowsLastWord NothingWithoutPaying
PROPERTIES GraceRunsOn
CHECK_DEADLOCK FALSE
