SPECIFICATION Safety
CONSTANTS
    p1 = p1  p2 = p2  pov = pov  patch = patch  m1 = m1  m2 = m2  m3 = m3
    Servers <- TwoServers
    POVs <- None
    Patches <- OnePatch
    MessageIDs <- ThreeMessages
    MaxFaults = 2
SYMMETRY Symmetry
INVARIANTS VerdictNotLost AuditTellsTheVerdict TestsGoWithVerdict AckMeansStarted
PROPERTIES VerdictIsFinal KeepsPromise
CHECK_DEADLOCK FALSE
