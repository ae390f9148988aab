SPECIFICATION FairSpec
CONSTANTS
    Spaces = {s1}
    MaxItems = 2
    MaxCalls = 1
    Consumers = {w1}
    Reindexers = {x1}
    MaxMessages = 2
    MaxToggles = 1
    MaxCrashes = 0
    MaxRedeliveries = 1
    MaxFailures = 1
INVARIANT LaterChangeCovered
PROPERTY ChangeIndexed
CHECK_DEADLOCK FALSE
