SPECIFICATION Spec
CONSTANTS
    t1 = t1  t2 = t2  t3 = t3  s1 = s1
    None = None
    Turns = {t1, t2, t3}
    Sessions = {s1}
    Messages <- MCMessages
    Listings <- MCListings
    Prices = {200}
    Trends <- MCTrends
    SearchLimit = 3
    ShowLimit = 2
    MaxChanges = 1
SYMMETRY MCSymmetry
INVARIANTS
    FollowsTheTalk
    RememberedWasTold
    FitsTheAsk
CHECK_DEADLOCK FALSE
