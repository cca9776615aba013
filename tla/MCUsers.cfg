SPECIFICATION UsersSpec
CONSTANTS
    NoFile = NoFile
    Requests = {r1, r2}
    Files = {f1, f2, f3}
    NoEmail = NoEmail
    Workers = {w1, w2}
    Emails = {e1, e2}
    MaxFreed = 1
    MaxUsers = 2
    MaxTokens = 2
INVARIANTS UploadsKept AvatarKept SerialClean OneAccount
PROPERTY Repaired
