SPECIFICATION MCSpec
CONSTANTS
    r1 = r1  r2 = r2  r3 = r3
    bulk1 = bulk1  bulk2 = bulk2  dated = dated  undated = undated
    north = north  south = south
    None = None
    Reqs = {r1, r2, r3}
    BulkLines = {bulk1, bulk2}
    AdminLines = {dated, undated}
    Dated <- MCDated
    Areas = {north, south}
    AreaOf <- MCAreaOf
    Files = {{bulk1, bulk2}, {dated, undated}}
    Windows = {1}
    Marked = {{dated, bulk1}}
    DayLength = 2
    Chunk = 1
    Batch = 1
    MaxTime = 3
    Orders <- MCOrders
    MaxMonth = 13
SYMMETRY Symmetry
INVARIANTS
    InsertedOnce
    ImportIsComplete
    LoneRebuildIsComplete
    LoneSnapshotIsComplete
    BaselineTells
CHECK_DEADLOCK FALSE
