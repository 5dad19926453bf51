\* Two properties offered one after the other.
SPECIFICATION Spec
CONSTANTS
    p1 = p1
    p2 = p2
    None = None
    Properties = {p1, p2}
    Reqs = {s1, s2}
    Messages <- SerialMessages
INVARIANTS
    EstimateOfOneProperty
CHECK_DEADLOCK FALSE
