\* Three deliveries of one request, failing calls, a crash and an expiring lock.
CONSTANTS
    r1 = r1
    r2 = r2
    r3 = r3
    Requests = {r1, r2, r3}
    MaxPolls = 2
    MaxFaults = 2
    MaxCrashes = 1
SPECIFICATION FairRequestSpec
INVARIANTS NoOverlap RetryIsReplayed
PROPERTIES IsWrittenOnce EveryRequestIsAnswered
CHECK_DEADLOCK FALSE
