CONSTANTS
    Checks = {k1, k2}
    Timeout = 30
    ConnectTimeout = 20
    MaxOutages = 3
    MaxFailures = 1
SPECIFICATION FairSpec
INVARIANT TypeOK
PROPERTIES GivesUpLate HealthIsHonest EventuallyRuns
