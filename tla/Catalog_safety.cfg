\* Two tenants, two contents and three requests, each any operation on any document.
SPECIFICATION Spec
CONSTANTS
    Tenants = {t1, t2}
    Hashes = {h1, h2}
    Requests = {r1, r2, r3}
    NoRow = NoRow
    NoRequest = NoRequest
    NoAnswer = NoAnswer
SYMMETRY Symmetry
CHECK_DEADLOCK FALSE
INVARIANTS
    CatalogTypeOK
    OneDocumentPerContent
    SameDocumentForAll
PROPERTIES
    RowsChangeByTheirTenant
