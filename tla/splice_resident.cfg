SPECIFICATION Spec
CONSTANTS
    Catalogs <- MCCatalogs
    MaxBatches = 2
INVARIANT ScatterResident
CHECK_DEADLOCK FALSE
