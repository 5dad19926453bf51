SPECIFICATION Spec
CONSTANTS
    s1 = s1
    s2 = s2
    s3 = s3
    v1 = v1
    v2 = v2
    ip1 = ip1
    ip2 = ip2
    None = None
    SendReqs = {s1, s2, s3}
    VerifyReqs = {v1, v2}
    Ips = {ip1}
    MaxSends = 2
    MaxAttempts = 1
    Window = 1
    Cooldown = 1
    Ttl = 1
    MaxTime = 2
    MaxRestarts = 1
SYMMETRY Symmetry
INVARIANTS
    SendsPerWindow
    DoubleUseNeedsOverlap
    AttemptsBounded
    CooldownKept
CHECK_DEADLOCK FALSE
