SPECIFICATION Spec
CONSTANTS
    Rows = {1, 2, 3, 4, 5, 6}
    Requested <- MCRequested
    PageLimit = 2
    MaxExport = 6
INVARIANTS
    TypeOK
    WholePagesAreTheQuery
    OldRowsCovered
