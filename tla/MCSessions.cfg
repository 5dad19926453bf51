SPECIFICATION MCSpec
CONSTANTS
    r1 = r1  r2 = r2  r3 = r3  r4 = r4
    None = None
    Old = Old
    Nobodys = Nobodys
    Reqs = {r1, r2, r3, r4}
    Requests = {r1, r2, r3}
    Settings <- MCSettings
    Passwords = {p1, p2}
    Ttl = 2
    MaxTime = 2
SYMMETRY Symmetry
INVARIANTS
    OneLiveRowPerLogin
    SignedOutStaysOut
    AnswersOfItsTime
    VerifiedIsSettled
CHECK_DEADLOCK FALSE
