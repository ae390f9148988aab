SPECIFICATION Spec
CONSTANTS
    File = f
    Dir = d
    Root = r
    None = None
    Consumers = {w1}
    Buffered = {r}
    MaxActivities = 2
    MaxEvents = 3
    MaxFailures = 0
INVARIANT AtMostMaxActivities
CHECK_DEADLOCK FALSE
