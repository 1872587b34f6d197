SPECIFICATION ServerSpec
CONSTANTS
    r1 = r1  r2 = r2  s1 = s1  s2 = s2
    Requests = {r1, r2}
    Submissions = {r1}
    GlobalPerMinute = 3
    SubmitPerMinute = 2
    CommandsMayFail = TRUE
    MaxLetIn = 4
    Servers <- TwoServers
    NoServer = NoServer
    Nobody = Nobody
    Migrations = 3
    Repeatable <- TwoOfThree
    Unlimited = {r1}
    MaxFaults = 2
INVARIANTS NoLockout NoEarlyRefusal ExitLosesNothing ServesLatestSchema
PROPERTIES SignalEndsServer LeadershipReturns
