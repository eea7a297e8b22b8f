SPECIFICATION Spec
CONSTANTS
    m1 = m1
    m2 = m2
    i1 = i1
    i2 = i2
    w1 = w1
    w2 = w2
    Msgs = {m1}
    Ids = {i1}
    Body <- OneId
    WebhookIds = {i1}
    GraphIds = {i1}
    Thread <- OneThread
    Threads <- OneThreads
    Alike <- Themselves
    Workers = {w1, w2}
    Poller = Poller
    Stale = 3
    Slack = 4
    WebhookDelay = 5
    MaxTime = 5
    LastSend = 9
    MaxDeliveries = 2
    MaxCrashes = 0
    Prompt = FALSE
    ClaimOutage = FALSE
    Faults = FALSE
    PollFaults = FALSE
INVARIANTS AtMostOnce
SYMMETRY WorkerSymmetry
