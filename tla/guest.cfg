SPECIFICATION Spec
CONSTANTS
    Requests = {q1, q2}
    NoRecord = NoRecord
    guestLinkTokenTTL = 1
    PinTTL = 1
    MaxAttempts = 2
    BackoffBase = 1
    BackoffCap = 2
    DailyCap <- MCDailyCap
    Cooldown <- MCCooldown
    Window <- MCWindow
    MaxTime = 3
    MaxLinks = 3
    MaxRequests = 6
    MaxFaults = 1
SYMMETRY RequestSymmetry
INVARIANTS LinkRedeemedOnce GuessesLimited RenewalsSpaced NewestLinkWorks
CHECK_DEADLOCK FALSE
