SPECIFICATION Spec
CONSTANTS
    p = p  q = q  r = r  b1 = b1  b2 = b2
    Identities = {p, q, r}
    Canonical <- MCCanonical
    Bodies = {b1, b2}
    NoBody = NoBody
    MaxFunctions = 4
    MaxCalls = 1
INVARIANTS RowsAddressable OccurrencesContiguous FoldedIsKept CallsDisambiguated
