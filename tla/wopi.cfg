SPECIFICATION Spec
CONSTANTS
    Sessions = {c1, c2, v}
    ReadOnly = {v}
    Files = {f1, f2}
    Document = f1
    Ids = {i1, i2}
    None = None
    Ops = {"Lock", "Relock", "RefreshLock", "UnLock", "GetLock", "PutFile",
           "PutSuggested", "PutRelative", "DeleteFile", "RenameFile"}
    MaxRequests = 3
    MaxFailures = 1
    MaxRetries = 1
SYMMETRY Alike
INVARIANTS ToldMeansLocked SavesAreSerial UnlockedFillsEmpty
CHECK_DEADLOCK FALSE
