SPECIFICATION Spec
CONSTANTS
    Rows = {1, 2, 3}
    Requested = {3}
    PageLimit = 2
    MaxExport = 4
INVARIANT
    ExportIsTheQuery
