SPECIFICATION Spec
CONSTANTS
    Admins = {a1, a2}
    Readers = {r1}
    Seeds = 2
    MaxId = 6
    MaxRequests = 2
INVARIANTS
    TypeOK
    WholeProblems
    ReadsFollowTheRow
    LoneResetRestoresSeed
