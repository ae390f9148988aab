SPECIFICATION Spec
CONSTANTS
    Sessions = {c1}
    ReadOnly = {}
    Files = {f1}
    Document = f1
    Ids = {i1}
    None = None
    Ops = {"PutFile", "DeleteFile"}
    MaxRequests = 2
    MaxFailures = 0
    MaxRetries = 60
INVARIANT WaitsBetweenRetries
CHECK_DEADLOCK FALSE
