CONSTANTS
    pa = pa PA = PA pb = pb px = px
    e1 = e1 e2 = e2
    t1 = t1 t2 = t2
    s1 = s1 s2 = s2
    NoConfig = NoConfig
    NoFqdn = NoFqdn
    Pools <- MCPools
    OurPools <- MCOurPools
    Canon <- MCCanon
    ServiceOf <- MCServiceOf
    Ports = {80}
    Targets = {t1, t2}
    Services = {s1, s2}
    Endpoints = {e1, e2}
    Versions = {1, 2, 3}
    InitVersion = 0
    LBs = {e1, e2}
    FqdnLBs = {e1}
    Configs <- MCConfigs
    InitialCarried <- MCInitialCarried
    ForceTicks = 1
    MaxChanges = 2
    MaxFailures = 1
SPECIFICATION Spec
INVARIANTS TypeOK NoLostChange PassConverges
PROPERTIES ForeignUntouched InSyncUndisturbed
