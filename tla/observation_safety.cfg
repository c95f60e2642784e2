SPECIFICATION Spec
CONSTANTS
    None = None
    b1 = b1
    b2 = b2
    c1 = c1
    c2 = c2
    home = home
    other = other
    alien = alien
    given = given
    Methods = {"GET"}
    Calls = {c1, c2}
    Names = {given}
    BindingIds = {b1, b2}
    Urls = {home, other, alien}
    Origin <- MCOrigin
    Provider <- MCProvider
    ExpiresAt <- MCExpiresAt
    MaxRedirects = 1
    MaxTime = 1
    MaxRequests = 2
INVARIANTS
    OneIntentPerObservation
    GivenEvidenceIsFinal
    EvidenceIsOfItsTarget
CHECK_DEADLOCK FALSE
SYMMETRY MCSymmetry
