SPECIFICATION Spec
CONSTANTS
    b1 = b1
    b2 = b2
    r1 = r1
    r2 = r2
    r3 = r3
    Browsers = {b1, b2}
    Requests = {r1, r2, r3}
    BrowserOf <- MCBrowserOf
    Names = {root, ann}
    AdminNames = {root}
    Nobody = Nobody
    Ttl = 1
    MaxTime = 1
    MaxSessions = 2
SYMMETRY Alike
INVARIANTS
    TypeOK
    RecognisedAsOneself
    NothingAfterTheEnd
PROPERTIES
    OnlyOwnLogoutEnds
