CONSTANTS
    Users = {u1, u2}
    Fds = {f1, f2}
    Payloads = {p1, p2}
    NoOwner = NoOwner
    Zero = Zero
    Nothing = Nothing
    SECRET_SIZE = 2
    Word = 16
    MaxRequest = 3
    MaxPos = 3
    MaxCount = 3
    MayGrant = TRUE
    MayFail = TRUE
    MayUpdate = TRUE
    MayRestart = TRUE
SPECIFICATION Spec
INVARIANT OnePayload
INVARIANT CountedHasOwner
PROPERTY ImplementsKeeper
