CONSTANTS
    pa = pa pb = pb
    l1 = l1 l2 = l2 l3 = l3 noLB = noLB
    i1 = i1 i2 = i2 i3 = i3
    a1 = a1 a2 = a2 a3 = a3
    NoConfig = NoConfig
    NoAddress = NoAddress
    NoTag = NoTag
    NoCall = NoCall
    Pools = {pa, pb}
    OurPools = {pa, pb}
    Canon <- MCCanon
    Ports = {80, 81}
    Targets <- MCTargets
    Configs <- MCConfigs
    Endpoints = {l1, l3, noLB}
    LBs = {l1, l2, l3}
    FirstPage <- MCFirstPage
    ListenerPorts <- MCListenerPorts
    Instances = {i1, i2, i3}
    Address <- MCAddress
    InVpc = {i1, i2}
    ChunkSize = 1
    MaxEdits = 1
    MaxFailures = 2
SPECIFICATION Spec
INVARIANTS TypeOK NoOrphans ListsFirstPage
PROPERTIES ImplementsProvider NeverEmptied
