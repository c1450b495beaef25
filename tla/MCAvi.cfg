CONSTANTS
    pa = pa pb = pb px = px pz = pz
    v1 = v1 v2 = v2 v3 = v3
    t1 = t1 t2 = t2
    i1 = i1 i2 = i2 i3 = i3 i4 = i4 i5 = i5
    NoConfig = NoConfig
    NoPool = NoPool
    Deleted = Deleted
    NoCall = NoCall
    Pools <- MCPools
    OurPools = {pa, pb}
    RancherPools = {pa, pb, pz}
    Canon <- MCCanon
    Ports = {80}
    Targets = {t1, t2}
    Configs <- MCConfigs
    Endpoints = {v1, v2, v3}
    LBs = {v1, v2}
    CloudLBs = {v1}
    Ids = {i1, i2, i3, i4, i5}
    InitPools <- MCInitPools
    MaxEdits = 1
    MaxFailures = 1
SPECIFICATION Spec
INVARIANTS TypeOK TaggedHasPool
PROPERTIES CallAchieves OthersKept ListIsExact
