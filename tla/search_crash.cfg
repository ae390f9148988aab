SPECIFICATION FairSpec
CONSTANTS
    Spaces = {s1}
    MaxItems = 3
    MaxCalls = 2
    Consumers = {w1}
    Reindexers = {}
    MaxMessages = 3
    MaxToggles = 0
    MaxCrashes = 2
    MaxRedeliveries = 0
    MaxFailures = 0
INVARIANTS ScheduledWillRun ChangeCovered
PROPERTY ChangeIndexed
CHECK_DEADLOCK FALSE
