CONSTANTS
    e1 = e1 e2 = e2
    a1 = a1 a2 = a2
    p11 = p11 p12 = p12 p21 = p21 px = px
    NoConfig = NoConfig
    NoLabel = NoLabel
    NoName = ""
    Pools <- MCPools
    OurPools <- MCOurPools
    Canon <- MCCanon
    Ports = {80, 81}
    Targets <- MCTargets
    Configs = {}
    Endpoints = {e1, e2}
    PoolName <- MCPoolName
    ServiceLists <- MCServiceLists
SPECIFICATION Spec
INVARIANTS TypeOK FirstClaimWins PoolsDistinct TargetsExact
CHECK_DEADLOCK FALSE
