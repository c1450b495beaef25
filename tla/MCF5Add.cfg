CONSTANTS
    pa = pa pb = pb px = px
    v1 = v1 v2 = v2 v3 = v3
    h1 = h1 h2 = h2
    NoConfig = NoConfig
    NoPool = NoPool
    NoCall = NoCall
    Pools <- MCPools
    OurPools = {pa, pb}
    Canon <- MCCanon
    Ports = {80, 81}
    Targets <- MCTargets
    Configs <- MovingConfigs
    Endpoints = {v1}
    LBs = {v1}
    ForeignTargets <- MCForeignTargets
    MaxEdits = 0
    MaxFailures = 0
SPECIFICATION Spec
PROPERTY AddIsExact
