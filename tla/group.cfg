SPECIFICATION MCSpec
CONSTANTS
    Runners = {r1, r2}
    Unknown = Unknown
    Others = {"group", r1}
INVARIANTS GroupTypeOK NobodyAbandoned OneResultEach EndedNotStopped
PROPERTIES GroupReturns AloneDelivers
CHECK_DEADLOCK FALSE
