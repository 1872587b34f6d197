SPECIFICATION Spec
CONSTANTS
    p1 = p1  p2 = p2  pov = pov  patch = patch  m1 = m1  m2 = m2  m3 = m3
    Servers <- TwoServers
    POVs <- None
    Patches <- OnePatch
    MessageIDs <- TwoMessages
    MaxFaults = 1
PROPERTIES AckedIsDecided JobsAreRemoved QueueDrains FulfilsPromise
CHECK_DEADLOCK FALSE
