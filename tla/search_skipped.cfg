SPECIFICATION Spec
CONSTANTS
    Spaces = {s1}
    MaxItems = 3
    MaxCalls = 2
    Consumers = {w1}
    Reindexers = {x1}
    MaxMessages = 1
    MaxToggles = 1
    MaxCrashes = 1
    MaxRedeliveries = 0
    MaxFailures = 0
INVARIANT SkippedRemembered
CHECK_DEADLOCK FALSE
