SPECIFICATION Spec
CONSTANTS
    b1 = b1
    b2 = b2
    r1 = r1
    r2 = r2
    r3 = r3
    Browsers = {b1}
    Requests = {r1}
    BrowserOf <- MCBrowserOf
    Names = {ann}
    AdminNames = {}
    Nobody = Nobody
    Ttl = 1
    MaxTime = 0
    MaxSessions = 1
INVARIANT
    LogoutEndsSession
