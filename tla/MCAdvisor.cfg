SPECIFICATION Spec
CONSTANTS
    r1 = r1  r2 = r2  mazzeh = mazzeh  o1 = o1
    None = None
    Reqs = {r1, r2}
    Areas = {mazzeh}
    Sizes = {50, 55}
    Owners = {o1}
    RowValues <- MCRowValues
    Rates = {0, 7}
    Samples <- MCSamples
    Fewest = 3
    MaxLog = 1
    MaxOutcomes = 2
    MaxChanges = 1
SYMMETRY MCSymmetry
INVARIANTS
    QuoteFitsKey
    AdviceAgrees
    HistoryIsFresh
    OneQuotePerKey
CHECK_DEADLOCK FALSE
