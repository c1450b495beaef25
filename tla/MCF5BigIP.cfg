CONSTANTS
    pa = pa pb = pb px = px
    v1 = v1 v2 = v2 v3 = v3
    h1 = h1 h2 = h2
    NoConfig = NoConfig
    NoPool = NoPool
    NoCall = NoCall
    Pools <- MCPools
    OurPools = {pa, pb}
    Canon <- MCCanon
    Ports = {80, 81}
    Targets <- MCTargets
    Configs <- MCConfigs
    Endpoints = {v1, v2, v3}
    LBs = {v1, v2}
    ForeignTargets <- MCForeignTargets
    MaxEdits = 1
    MaxFailures = 1
SPECIFICATION Spec
INVARIANTS TypeOK NoNodeLeaks
PROPERTIES CallAchieves UpdateIsExact RetriesSucceed
