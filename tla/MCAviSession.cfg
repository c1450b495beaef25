CONSTANTS
    Loop = loop
    Checks = {check}
    Sessions = {1, 2, 3, 4, 5, 6}
    NoSession = 0
    MaxExpiries = 2
    MaxResets = 1
    MaxFailures = 1
SPECIFICATION FairSpec
INVARIANTS TypeOK AtMostOnce
PROPERTIES OkIsExecuted ExpiryIsMasked CallsReturn
