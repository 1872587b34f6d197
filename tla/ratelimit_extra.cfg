SPECIFICATION Spec
CONSTANTS
    r1 = r1  r2 = r2  r3 = r3
    Requests <- ThreeRequests
    Submissions = {}
    GlobalPerMinute = 2
    SubmitPerMinute = 1
    CommandsMayFail = FALSE
    MaxLetIn = 8
SYMMETRY Symmetry
INVARIANTS ExtraRequestsBounded
CHECK_DEADLOCK FALSE
