SPECIFICATION Spec
CONSTANTS
    b1 = b1  r1 = r1  r2 = r2  s1 = s1  s2 = s2
    BundleIDs <- OneBundle
    RequestIDs <- TwoRequests
    SubIDs <- TwoSubmissions
    LinkFields <- TwoLinks
    Owned <- NoID
    Foreign <- ForeignID
SYMMETRY Symmetry
INVARIANTS BundlesHaveEnough BundlesReferToRecords
PROPERTIES LateBundlesAreFixed DeletedIsOutOfReach
CHECK_DEADLOCK FALSE
