SPECIFICATION FairSpec
CONSTANTS
    Uploads = {u1}
    Steps <- OneCheck
    MaxRetries = 1
    NoEvent = NoEvent
    NoPP = NoPP
    Workers = {w1, w2}
    Overwrites = {u1}
    StepOutcomes <- ReportedOutcomes
    PublishMaxRetries = 1
    MaxFaults = 1
    MaxAdmin = 0
INVARIANT NoUploadForgotten
PROPERTY EveryUploadDecided
CHECK_DEADLOCK FALSE
