CONSTANTS
    pa = pa pb = pb
    l1 = l1 l2 = l2 n1 = n1
    i1 = i1 i2 = i2 i3 = i3
    a1 = a1 a2 = a2 a3 = a3 a5 = a5
    NoConfig = NoConfig
    NoAddress = NoAddress
    NoTag = NoTag
    NoCall = NoCall
    Pools = {pa, pb}
    OurPools = {pa, pb}
    Canon <- MCCanon
    Ports = {80, 81, 82}
    Targets <- MCTargets
    Configs <- MCConfigs
    Endpoints = {l1, n1}
    LBs = {l1}
    NetworkLBs = {l1}
    LoadBalancerName <- NamedOtherwise
    ListenerPorts <- MCListenerPorts
    Instances = {i1, i2, i3}
    Address <- MCAddress
    ListedAddress <- MCListedAddress
    PageSize = 2
    MaxEdits = 0
    MaxFailures = 0
SPECIFICATION Spec
PROPERTY ListedCanBeRemoved
