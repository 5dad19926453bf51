SPECIFICATION MCSpec
CONSTANTS
    r1 = r1
    mazzeh = mazzeh  midan = midan  k1 = k1
    None = None
    Reqs = {r1}
    Rows = {1, 2, 3, 4, 5, 6}
    RowOf <- MCRowOf
    Subjects <- MCSubjects
    Listings = {k1}
    ListingOf <- MCListingOf
    Prices = {0, 5000, 20000}
    Needed <- MCNeeded
    Take = 6
    Shown = 2
    Fewest = 3
    TrendRows = 3
    Recent = {2, 3, 4, 5, 6}
    Plausible = {7, 9, 12}
    Million = 1000
    Areas = {}  Sizes = {}  Owners = {}  RowValues = {}  Samples = {}
    Rates = {0}
    MaxLog = 0  MaxOutcomes = 0  MaxChanges = 0
INVARIANTS
    NarrowestThatSuffices
    PresentMeansFound
    InsightsAgree
PROPERTIES
    FollowedAsAdvised
CHECK_DEADLOCK FALSE
