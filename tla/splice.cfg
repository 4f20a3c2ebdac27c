SPECIFICATION Spec
CONSTANTS
    Catalogs <- MCCatalogs
    MaxBatches = 2
INVARIANTS MaskIsOfThisRoot SplicedOnceWhereRowsDiffer LoaderMatchesIndex ReadsResident RowFillsContext
CHECK_DEADLOCK FALSE
