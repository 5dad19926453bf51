SPECIFICATION MCSpec
CONSTANTS
    r1 = r1  r2 = r2  r3 = r3
    s1 = s1  s2 = s2
    o1 = o1  o2 = o2
    upload = upload
    None = None
    Gone = Gone
    Requests = {r1, r2, r3}
    Users = {o1, o2}
    Uploads = {upload}
    Streams = {s1, s2}
    Ids = {1, 2}
    Operations <- MCOperations
    Draws <- MCDraws
    Filters = {f1, f2}
    Areas = {a1, a2}
    Windows = {30}
SYMMETRY MCSymmetry
INVARIANTS
    Pictured
    Accounted
    StreamsHear
    KeptAsTold
PROPERTY OnlyOwnersTouch
CHECK_DEADLOCK FALSE
