CONSTANTS
    Users = {u1, u2}
    Fds = {f1, f2}
    Payloads = {p1}
    NoOwner = NoOwner
    Zero = Zero
    Nothing = Nothing
    SECRET_SIZE = 2
    Word = 16
    MaxRequest = 2
    MaxPos = 2
    MaxCount = 3
    MayGrant = TRUE
    MayFail = FALSE
    MayUpdate = TRUE
    MayRestart = FALSE
SPECIFICATION Spec
PROPERTY ResetAtLastClose
