SPECIFICATION Spec
CONSTANTS
    Uploads = {u1}
    Steps <- DelayTwoChecks
    MaxRetries = 1
    NoEvent = NoEvent
    NoPP = NoPP
    Workers = {w1}
    Overwrites = {u1}
    StepOutcomes <- FinalOutcomes
    PublishMaxRetries = 1
    MaxFaults = 2
    MaxAdmin = 1
INVARIANTS TypeOK AllStepsPassed NoUploadForgotten
PROPERTIES LifecycleSpec
CHECK_DEADLOCK FALSE
