---------------------------- MODULE F5BigIPProofs ----------------------------
(***************************************************************************)
(* Proofs about F5BigIP, for any number of virtual servers, pools,         *)
(* configurations, edits and failures.  What a call has achieved when it   *)
(* returns rests on what is known between its requests: Control says which *)
(* call is where, Progress how far it has come while nobody else edits the *)
(* device, Rebuilt that an update starts from an empty pool, and NodesKept *)
(* which nodes may be without a member.                                    *)
(***************************************************************************)
EXTENDS F5BigIP, TLAPS

(* Where AddLBConfig and RemoveLBConfig are, by pc.                        *)
Adding   == {"nodes", "modify", "members", "addMembers"}
Removing == {"findVS", "unassign", "listMembers", "deletePool", "deleteNodes"}

(* What a call is about.                                                   *)
Control ==
    /\ pc = "idle" => disturbed = FALSE /\ swallowed = FALSE
    /\ pc \in {"virtuals", "read"} => op = "list"
    /\ pc \in {"getVS"} \cup Adding => op \in {"add", "update"}
    /\ pc \in Removing => op \in {"update", "remove"}
    /\ pc \in {"getVS"} \cup Adding \cup Removing =>
          /\ op \in {"add", "update"} =>
                config \in Configs /\ poolName = config.LBTargetPoolName
          /\ op \in {"update", "remove"} => lbName \in LBs
          /\ poolName \in Pools
    /\ pc \in Adding => lbName \in LBs
    /\ pc \in {"idle", "getVS"} \cup Removing => next = 1
    /\ pc \in Adding => next \in 1..(Len(config.LBTargets) + 1)

(* The members of the loop of AddLBConfig so far.                          *)
Added == {config.LBTargets[i] : i \in 1..(next - 1)}

(* How far the call has come, unless somebody else edits the device.       *)
Progress ==
    ~disturbed =>
        /\ pc \in {"listMembers", "deletePool", "deleteNodes"} => vsPool[lbName] = NoPool
        /\ pc \in {"modify", "members", "addMembers"} => Exists(poolName)
        /\ pc = "addMembers" => pools[poolName] = poolMembers \cup Added
        /\ pc = "read" => \A l \in todo : Exists(vServers[l])

(* An update deletes its pool first, unless that is in use.                *)
Rebuilt ==
    op = "update" /\ ~disturbed /\ ~swallowed =>
        \/ \E l \in LBs \ {lbName} : vsPool[l] = poolName
        \/ /\ pc \in {"deleteNodes", "getVS", "nodes"} => ~Exists(poolName)
           /\ pc \in {"modify", "members"} => pools[poolName] = {}
           /\ pc = "addMembers" => poolMembers = {}
        \/ pc \in {"idle", "findVS", "unassign", "listMembers", "deletePool"}

(* Which nodes may have no member, as long as nothing goes wrong.          *)
NodesTight ==
    /\ pc \in Adding => nodes \subseteq NodesInUse \cup Hosts(Range(config.LBTargets))
    /\ pc = "deleteNodes" => nodes \subseteq NodesInUse \cup Hosts(poolMembers)
    /\ pc = "deletePool" => PoolMembers(poolName) \subseteq poolMembers
    /\ pc \notin Adding \cup {"deleteNodes"} => nodes \subseteq NodesInUse

NodesKept ==
    /\ NodesInUse \subseteq nodes
    /\ edits = 0 => ~disturbed
    /\ failures = 0 /\ edits = 0 /\ RepeatsHideNoHost => NodesTight

IInv == TypeOK /\ Control /\ Progress /\ Rebuilt /\ NodesKept

-----------------------------------------------------------------------------
(* The constants.                                                          *)

LEMMA ConfigTypes ==
    ASSUME NEW c \in Configs
    PROVE  /\ c.LBTargetPoolName \in OurPools /\ c.LBTargetPoolName \in Pools
           /\ c.LBTargets \in Seq(Targets)
           /\ Len(c.LBTargets) \in Nat /\ DOMAIN c.LBTargets = 1..Len(c.LBTargets)
           /\ \A i \in DOMAIN c.LBTargets : c.LBTargets[i] \in Targets
<1>1. c \in LBConfigs
  BY ConfigsAssumption
<1>2. c.LBTargetPoolName \in OurPools /\ c.LBTargets \in Seq(Targets)
  BY <1>1 DEF LBConfigs
<1> QED
  BY <1>2, PoolsAssumption

LEMMA HostsOfTargets ==
    /\ \A t \in Targets : t[1] \in Hosts(Targets)
    /\ \A ts \in SUBSET Targets : Hosts(ts) \subseteq Hosts(Targets)
BY DEF Hosts

-----------------------------------------------------------------------------
(* Types.                                                                  *)

DeviceOK ==
    /\ nodes \subseteq Hosts(Targets)
    /\ pools \in [Pools -> (SUBSET Targets) \cup {NoPool}]
    /\ vsPool \in [LBs -> {p \in Pools : Exists(p)} \cup {NoPool}]

CallOK ==
    /\ pc \in {"idle", "getVS", "nodes", "pool", "modify", "members",
               "addMembers", "patch", "findVS", "unassign", "listMembers",
               "deletePool", "deleteNodes", "virtuals", "read"}
    /\ op \in {"none", "list", "add", "update", "remove"}
    /\ lbName \in Endpoints \cup {NoCall}
    /\ config \in Configs \cup {NoConfig}
    /\ poolName \in Pools \cup {NoPool}
    /\ next \in Nat
    /\ poolMembers \subseteq Targets
    /\ outcome \in {"none", "ok", "error"}
    /\ pass \subseteq Endpoints
    /\ disturbed \in BOOLEAN
    /\ swallowed \in BOOLEAN

ListOK ==
    /\ vServers \in [LBs -> Pools \cup {NoPool}]
    /\ todo \subseteq {l \in LBs : vServers[l] # NoPool}
    /\ lbConfigs \in [LBs -> Carried \cup {NoConfig}]

CountsOK == edits \in 0..MaxEdits /\ failures \in 0..MaxFailures

LEMMA TypeParts == TypeOK <=> DeviceOK /\ CallOK /\ ListOK /\ CountsOK
BY DEF TypeOK, DeviceOK, CallOK, ListOK, CountsOK

(* A call that returns keeps its variables in their types.                 *)
LEMMA FinishType ==
    ASSUME CallOK, NEW result \in {"ok", "error"}, Finish(result),
           pass' \subseteq Endpoints
    PROVE  CallOK'
BY DEF CallOK, Finish

(* So does one that goes on.                                               *)
LEMMA ContinueType ==
    ASSUME CallOK, NEW i \in Nat, NEW found \in SUBSET Targets,
           NEW at \in {"nodes", "modify", "members", "addMembers", "getVS", "unassign",
                       "listMembers", "deletePool", "deleteNodes", "read"},
           Continue(at, i, found), swallowed' \in BOOLEAN
    PROVE  CallOK'
BY DEF CallOK, Continue, request

(* The names and numbers the steps of a call bring in have their types.    *)
LEMMA CallStep ==
    ASSUME IInv, [Next]_vars
    PROVE  CallOK'
<1>1. DeviceOK /\ CallOK /\ ListOK /\ Control
  BY TypeParts DEF IInv
<1>2. LBs \subseteq Endpoints /\ OurPools \subseteq Pools
  BY F5Assumption, PoolsAssumption
<1>3. \A p \in Pools : PoolMembers(p) \in SUBSET Targets
  BY <1>1, F5Assumption DEF PoolMembers, Exists, DeviceOK
<1>4. CASE Begin
  <2>1. PICK e \in pass :
           /\ lbName' = e /\ pass' = pass \ {e}
           /\ \/ op' = "add" /\ config' \in Configs /\ pc' = "getVS"
                 /\ poolName' = config'.LBTargetPoolName
              \/ op' = "update" /\ config' \in Configs /\ pc' = "findVS"
                 /\ poolName' = config'.LBTargetPoolName
              \/ op' = "remove" /\ config' = NoConfig /\ pc' = "findVS"
                 /\ OnList(e) /\ poolName' = lbConfigs[e].LBTargetPoolName
    BY <1>4 DEF Begin
  <2>2. poolName' \in Pools
    BY <1>2, <2>1, ConfigTypes DEF OnList, Ours
  <2>3. /\ next' = next /\ poolMembers' = poolMembers /\ outcome' = "none"
        /\ disturbed' = disturbed /\ swallowed' = swallowed
    BY <1>4 DEF Begin, locals
  <2> QED
    BY <1>1, <2>1, <2>2, <2>3 DEF CallOK
<1>5. CASE GetVirtualServer
  BY <1>1, <1>2, <1>5, FinishType, ContinueType
  DEF GetVirtualServer, CallOK, Proceed, Answer, Swallows, RequestFails, ReturnError, ReturnOk
<1>6. CASE EnsureNode
  BY <1>1, <1>2, <1>6, FinishType, ContinueType
  DEF EnsureNode, CallOK, Proceed, Answer, Swallows, RequestFails, ReturnError, ReturnOk
<1>7. CASE EnsurePool
  BY <1>1, <1>2, <1>7, FinishType, ContinueType
  DEF EnsurePool, CallOK, Proceed, Answer, Swallows, RequestFails, ReturnError, ReturnOk
<1>8. CASE ModifyPool
  BY <1>1, <1>2, <1>8, FinishType, ContinueType
  DEF ModifyPool, CallOK, Proceed, Answer, Swallows, RequestFails, ReturnError, ReturnOk
<1>9. CASE FindMembers
  <2>1. PoolMembers(poolName) \in SUBSET Targets
    BY <1>1, <1>3, <1>9 DEF FindMembers, Control, Adding, Removing
  <2> QED
    BY <1>1, <1>9, <2>1, FinishType, ContinueType
    DEF FindMembers, CallOK, Proceed, Answer, Swallows, RequestFails, ReturnError, ReturnOk
<1>10. CASE AddPoolMember
  BY <1>1, <1>2, <1>10, FinishType, ContinueType
  DEF AddPoolMember, CallOK, Proceed, Answer, Swallows, RequestFails, ReturnError, ReturnOk
<1>11. CASE AssignPool
  BY <1>1, <1>2, <1>11, FinishType, ContinueType
  DEF AssignPool, CallOK, Proceed, Answer, Swallows, RequestFails, ReturnError, ReturnOk
<1>12. CASE FindVirtualServer
  BY <1>1, <1>2, <1>12, FinishType, ContinueType
  DEF FindVirtualServer, CallOK, Proceed, Answer, Swallows, RequestFails, ReturnError, ReturnOk
<1>13. CASE UnassignPool
  BY <1>1, <1>2, <1>13, FinishType, ContinueType
  DEF UnassignPool, CallOK, Proceed, Answer, Swallows, RequestFails, ReturnError, ReturnOk
<1>14. CASE ListMembers
  <2>1. PoolMembers(poolName) \in SUBSET Targets
    BY <1>1, <1>3, <1>14 DEF ListMembers, Control, Adding, Removing
  <2> QED
    BY <1>1, <1>14, <2>1, FinishType, ContinueType
    DEF ListMembers, CallOK, Proceed, Answer, Swallows, RequestFails, ReturnError, ReturnOk
<1>15. CASE DeletePool
  BY <1>1, <1>2, <1>15, FinishType, ContinueType
  DEF DeletePool, CallOK, Proceed, Answer, Swallows, RequestFails, ReturnError, ReturnOk
<1>16. CASE DeleteNode
  BY <1>1, <1>2, <1>16, FinishType, ContinueType
  DEF DeleteNode, CallOK, Proceed, Answer, Swallows, RequestFails, ReturnError, ReturnOk
<1>17. CASE Removed
  BY <1>1, <1>2, <1>17, FinishType, ContinueType
  DEF Removed, CallOK, Proceed, Answer, Swallows, RequestFails, ReturnError, ReturnOk
<1>18. CASE BeginList
  BY <1>1, <1>18 DEF BeginList, CallOK, locals
<1>19. CASE ListVirtualServers
  BY <1>1, <1>2, <1>19, FinishType, ContinueType
  DEF ListVirtualServers, CallOK, Proceed, Answer, Swallows, RequestFails, ReturnError, ReturnOk
<1>20. CASE ReadPool
  BY <1>1, <1>2, <1>20, FinishType, ContinueType
  DEF ReadPool, CallOK, Proceed, Answer, Swallows, RequestFails, ReturnError, ReturnOk
<1>21. CASE EndList
  BY <1>1, <1>2, <1>21, FinishType, ContinueType
  DEF EndList, CallOK, Proceed, Answer, Swallows, RequestFails, ReturnError, ReturnOk
<1>22. CASE Drift
  BY <1>1, <1>22 DEF Drift, CallOK, request, locals
<1>23. CASE Crash
  BY <1>1, <1>2, <1>23, FinishType, ContinueType
  DEF Crash, CallOK, Proceed, Answer, Swallows, RequestFails, ReturnError, ReturnOk
<1>24. CASE UNCHANGED vars
  BY <1>1, <1>24 DEF vars, CallOK, request, locals
<1> QED
  BY <1>4, <1>5, <1>6, <1>7, <1>8, <1>9, <1>10, <1>11, <1>12, <1>13, <1>14, <1>15, <1>16, <1>17, <1>18, <1>19, <1>20, <1>21, <1>22, <1>23, <1>24 DEF Next

(* Pools hold targets on nodes, and a pool that a virtual server has is    *)
(* there.                                                                  *)
LEMMA DeviceStep ==
    ASSUME IInv, [Next]_vars
    PROVE  DeviceOK'
<1>1. DeviceOK /\ CallOK /\ ListOK /\ Control
  BY TypeParts DEF IInv
<1>2. /\ \A p \in Pools : p # NoPool
      /\ \A ts \in SUBSET Targets : ts # NoPool
  BY F5Assumption
<1>3. \A t \in Targets : t[1] \in Hosts(Targets)
  BY HostsOfTargets
<1>4. pc \in Adding => /\ poolName \in Pools /\ lbName \in LBs
                       /\ \A i \in DOMAIN config.LBTargets : config.LBTargets[i] \in Targets
  BY <1>1, ConfigTypes DEF Control, Adding
<1>5. pc \in Removing => poolName \in Pools /\ lbName \in LBs
  BY <1>1 DEF Control, Removing
<1>6. CASE UNCHANGED device
  BY <1>1, <1>6 DEF DeviceOK, device, Exists
<1>7. CASE EnsureNode
  <2>1. config.LBTargets[next] \in Targets /\ pools' = pools /\ vsPool' = vsPool
    BY <1>4, <1>7 DEF EnsureNode, Adding
  <2>2. nodes' = nodes \/ nodes' = nodes \cup {config.LBTargets[next][1]}
    BY <1>7 DEF EnsureNode
  <2> QED
    BY <1>1, <1>3, <2>1, <2>2 DEF DeviceOK, Exists
<1>8. CASE EnsurePool
  <2>1. /\ poolName \in Pools /\ nodes' = nodes /\ vsPool' = vsPool
        /\ pools' = pools \/ pools' = [pools EXCEPT ![poolName] = {}]
    BY <1>4, <1>8 DEF EnsurePool, Adding
  <2>2. {} # NoPool
    BY <1>2
  <2> QED
    BY <1>1, <2>1, <2>2 DEF DeviceOK, Exists
<1>9. CASE AddPoolMember
  <2> DEFINE member == config.LBTargets[next]
  <2>1. member \in Targets /\ poolName \in Pools /\ vsPool' = vsPool
    BY <1>4, <1>9 DEF AddPoolMember, Adding
  <2>2. \/ pools' = pools /\ nodes' = nodes
        \/ /\ Exists(poolName)
           /\ pools' = [pools EXCEPT ![poolName] = @ \cup {member}]
           /\ nodes' = nodes \cup {member[1]}
    BY <1>9 DEF AddPoolMember
  <2> HIDE DEF member
  <2>3. CASE pools' = pools /\ nodes' = nodes
    BY <1>1, <2>1, <2>3 DEF DeviceOK, Exists
  <2>4. CASE Exists(poolName) /\ pools' = [pools EXCEPT ![poolName] = @ \cup {member}]
             /\ nodes' = nodes \cup {member[1]}
    <3>1. pools[poolName] \cup {member} \in SUBSET Targets
      BY <1>1, <2>1, <2>4 DEF DeviceOK, Exists
    <3>2. pools[poolName] \cup {member} # NoPool
      BY <1>2, <3>1
    <3> QED
      BY <1>1, <1>3, <2>1, <2>4, <3>1, <3>2 DEF DeviceOK, Exists
  <2> QED
    BY <2>2, <2>3, <2>4
<1>10. CASE AssignPool
  <2>1. /\ poolName \in Pools /\ lbName \in LBs /\ nodes' = nodes /\ pools' = pools
        /\ \/ vsPool' = vsPool
           \/ Exists(poolName) /\ vsPool' = [vsPool EXCEPT ![lbName] = poolName]
    BY <1>4, <1>10 DEF AssignPool, Adding
  <2> QED
    BY <1>1, <2>1 DEF DeviceOK, Exists
<1>11. CASE UnassignPool
  <2>1. /\ lbName \in LBs /\ nodes' = nodes /\ pools' = pools
        /\ vsPool' = vsPool \/ vsPool' = [vsPool EXCEPT ![lbName] = NoPool]
    BY <1>5, <1>11 DEF UnassignPool, Removing
  <2> QED
    BY <1>1, <2>1 DEF DeviceOK, Exists
<1>12. ASSUME NEW p \in Pools, Deletable(p), pools' = [pools EXCEPT ![p] = NoPool],
              nodes' = nodes, vsPool' = vsPool
       PROVE  DeviceOK'
  <2>1. \A l \in LBs : vsPool[l] # p
    BY <1>12 DEF Deletable
  <2> QED
    BY <1>1, <1>12, <2>1 DEF DeviceOK, Exists
<1>13. CASE DeletePool
  <2>1. poolName \in Pools /\ nodes' = nodes /\ vsPool' = vsPool
    BY <1>5, <1>13 DEF DeletePool, Removing
  <2>2. \/ pools' = pools
        \/ Deletable(poolName) /\ pools' = [pools EXCEPT ![poolName] = NoPool]
    BY <1>13 DEF DeletePool
  <2> QED
    BY <1>6, <1>12, <2>1, <2>2 DEF device
<1>14. CASE DeleteNode
  <2>1. pools' = pools /\ vsPool' = vsPool /\ nodes' \subseteq nodes
    BY <1>14 DEF DeleteNode
  <2> QED
    BY <1>1, <2>1 DEF DeviceOK, Exists
<1>15. CASE Drift
  <2>1. ASSUME NEW p \in Pools, NEW t \in Targets, Exists(p),
               pools' = [pools EXCEPT ![p] = IF t \in @ THEN @ \ {t} ELSE @ \cup {t}],
               nodes' = nodes \cup {t[1]}, vsPool' = vsPool
        PROVE  DeviceOK'
    <3> DEFINE ts == IF t \in pools[p] THEN pools[p] \ {t} ELSE pools[p] \cup {t}
    <3>1. ts \in SUBSET Targets
      BY <1>1, <2>1 DEF DeviceOK, Exists
    <3>2. pools' = [pools EXCEPT ![p] = ts]
      BY <2>1
    <3> HIDE DEF ts
    <3>3. ts # NoPool
      BY <1>2, <3>1
    <3> QED
      BY <1>1, <1>3, <2>1, <3>1, <3>2, <3>3 DEF DeviceOK, Exists
  <2>2. ASSUME NEW l \in LBs, NEW p \in {q \in Pools : Exists(q)} \cup {NoPool},
               vsPool' = [vsPool EXCEPT ![l] = p], nodes' = nodes, pools' = pools
        PROVE  DeviceOK'
    BY <1>1, <2>2 DEF DeviceOK, Exists
  <2> QED
    BY <1>12, <1>15, <2>1, <2>2 DEF Drift
<1> QED
  BY <1>6, <1>7, <1>8, <1>9, <1>10, <1>11, <1>13, <1>14, <1>15
  DEF Next, vars, device, Begin, GetVirtualServer, ModifyPool, FindMembers,
      FindVirtualServer, ListMembers, Removed, BeginList, ListVirtualServers,
      ReadPool, EndList, Crash

(* What a listing returns has pools and targets.                           *)
LEMMA ListStep ==
    ASSUME IInv, [Next]_vars
    PROVE  ListOK'
<1>1. DeviceOK /\ CallOK /\ ListOK
  BY TypeParts DEF IInv
<1>2. CASE UNCHANGED listing
  BY <1>1, <1>2 DEF ListOK, listing
<1>3. CASE BeginList
  BY <1>3 DEF BeginList, ListOK
<1>4. CASE ListVirtualServers
  BY <1>1, <1>2, <1>4 DEF ListVirtualServers, ListOK, DeviceOK, listing
<1>5. CASE ReadPool
  <2>1. PICK l \in todo :
           /\ todo' = todo \ {l} /\ vServers' = vServers
           /\ \/ lbConfigs' = lbConfigs
              \/ \E ts \in SUBSET Targets :
                    lbConfigs' = [lbConfigs EXCEPT ![l] =
                       [LBTargetPoolName |-> vServers[l], LBTargets |-> ts]]
    <3>1. PICK l \in todo :
             /\ todo' = todo \ {l} /\ vServers' = vServers
             /\ \/ lbConfigs' = lbConfigs
                \/ Exists(vServers[l]) /\ lbConfigs' = [lbConfigs EXCEPT ![l] =
                       [LBTargetPoolName |-> vServers[l], LBTargets |-> pools[vServers[l]]]]
                \/ lbConfigs' = [lbConfigs EXCEPT ![l] =
                       [LBTargetPoolName |-> vServers[l], LBTargets |-> {}]]
      BY <1>5 DEF ReadPool
    <3>2. vServers[l] \in Pools
      BY <1>1 DEF ListOK
    <3>3. Exists(vServers[l]) => pools[vServers[l]] \in SUBSET Targets
      BY <1>1, <3>2 DEF DeviceOK, Exists
    <3> QED
      BY <3>1, <3>3
  <2>2. l \in LBs /\ vServers[l] \in Pools
    BY <1>1 DEF ListOK
  <2>3. \A ts \in SUBSET Targets :
           [LBTargetPoolName |-> vServers[l], LBTargets |-> ts] \in Carried
    BY <2>2 DEF Carried
  <2> QED
    BY <1>1, <2>1, <2>2, <2>3 DEF ListOK
<1> QED
  BY <1>2, <1>3, <1>4, <1>5
  DEF Next, vars, Begin, GetVirtualServer, EnsureNode, EnsurePool, ModifyPool,
      FindMembers, AddPoolMember, AssignPool, FindVirtualServer, UnassignPool,
      ListMembers, DeletePool, DeleteNode, Removed, EndList, Drift, Crash

(* Every step counts at most one edit or one failure.                      *)
LEMMA CountStep ==
    ASSUME IInv, [Next]_vars
    PROVE  CountsOK'
<1>1. CountsOK /\ MaxEdits \in Nat /\ MaxFailures \in Nat
  BY TypeParts, F5Assumption DEF IInv
<1>2. CASE edits' = edits /\ failures' = failures
  BY <1>1, <1>2 DEF CountsOK
<1>3. CASE edits' = edits /\ Fails
  BY <1>1, <1>3 DEF CountsOK, Fails
<1>4. CASE Drift
  BY <1>1, <1>4 DEF CountsOK, Drift
<1> QED
  BY <1>2, <1>3, <1>4
  DEF Next, vars, Begin, GetVirtualServer, EnsureNode, EnsurePool, ModifyPool,
      FindMembers, AddPoolMember, AssignPool, FindVirtualServer, UnassignPool,
      ListMembers, DeletePool, DeleteNode, Removed, BeginList, ListVirtualServers,
      ReadPool, EndList, Crash, Succeeds, Answer, Swallows, RequestFails

LEMMA TypeStep ==
    ASSUME IInv, [Next]_vars
    PROVE  TypeOK'
<1>1. DeviceOK' /\ CallOK' /\ ListOK' /\ CountsOK'
  BY DeviceStep, CallStep, ListStep, CountStep
<1> QED
  BY <1>1 DEF TypeOK, DeviceOK, CallOK, ListOK, CountsOK

-----------------------------------------------------------------------------
(* Control.                                                                *)

LEMMA FinishControl ==
    ASSUME NEW result, Finish(result)
    PROVE  Control'
BY DEF Finish, Control, Adding, Removing

(* AddLBConfig goes on with a virtual server that is there.                *)
LEMMA AddingControl ==
    ASSUME CallOK, Control, pc \in {"getVS"} \cup Adding, lbName \in LBs,
           NEW at \in Adding, NEW i \in 1..(Len(config.LBTargets) + 1), NEW found,
           Continue(at, i, found)
    PROVE  Control'
<1>1. /\ pc' = at /\ next' = i /\ op' = op /\ lbName' = lbName /\ config' = config
      /\ poolName' = poolName
  BY DEF Continue, request
<1>2. /\ op \in {"add", "update"} /\ config \in Configs
      /\ poolName = config.LBTargetPoolName /\ poolName \in Pools
  BY DEF Control
<1> QED
  BY <1>1, <1>2 DEF Control, Adding, Removing

LEMMA InitInv == Init => IInv
<1> SUFFICES ASSUME Init PROVE IInv
  OBVIOUS
<1>1. \A ts \in SUBSET Targets : ts # NoPool
  BY F5Assumption
<1>2. OurPools \subseteq Pools /\ ForeignTargets \subseteq Targets
      /\ MaxEdits \in Nat /\ MaxFailures \in Nat
      /\ (Pools \subseteq OurPools => ForeignTargets = {})
  BY PoolsAssumption, F5Assumption
<1>3. \A p \in Pools : Exists(p) <=> p \notin OurPools
  BY <1>1, <1>2 DEF Init, Exists
<1>4. TypeOK
  <2>1. DeviceOK
    BY <1>2, <1>3, HostsOfTargets DEF Init, DeviceOK
  <2>2. CallOK
    BY DEF Init, CallOK
  <2>3. ListOK
    BY DEF Init, ListOK
  <2>4. CountsOK
    BY <1>2 DEF Init, CountsOK
  <2> QED
    BY <2>1, <2>2, <2>3, <2>4, TypeParts
<1>5. Control /\ Progress /\ Rebuilt
  BY DEF Init, Control, Progress, Rebuilt, Adding, Removing
<1>6. NodesInUse = Hosts(ForeignTargets)
  <2>1. \A p \in Pools : Exists(p) => pools[p] = ForeignTargets
    BY <1>3 DEF Init
  <2>2. CASE Pools \subseteq OurPools
    BY <1>2, <1>3, <2>2 DEF NodesInUse, Hosts
  <2>3. CASE ~(Pools \subseteq OurPools)
    <3>1. PICK p \in Pools : Exists(p)
      BY <1>3, <2>3
    <3> QED
      BY <2>1, <3>1 DEF NodesInUse
  <2> QED
    BY <2>2, <2>3
<1>7. NodesKept
  BY <1>6 DEF Init, NodesKept, NodesTight, Adding
<1> QED
  BY <1>4, <1>5, <1>7 DEF IInv

LEMMA ControlStep ==
    ASSUME IInv, [Next]_vars
    PROVE  Control'
<1>1. CallOK /\ ListOK /\ Control
  BY TypeParts DEF IInv
<1> USE DEF Adding, Removing
<1>2. \A c \in Configs : /\ c.LBTargetPoolName \in Pools
                        /\ Len(c.LBTargets) \in Nat /\ DOMAIN c.LBTargets = 1..Len(c.LBTargets)
  BY ConfigTypes
<1>3. CASE Begin
  <2>1. PICK e \in pass :
           /\ lbName' = e
           /\ \/ op' = "add" /\ config' \in Configs /\ pc' = "getVS"
                 /\ poolName' = config'.LBTargetPoolName
              \/ op' = "update" /\ config' \in Configs /\ pc' = "findVS" /\ OnList(e)
                 /\ poolName' = config'.LBTargetPoolName
              \/ op' = "remove" /\ pc' = "findVS" /\ OnList(e)
                 /\ poolName' = lbConfigs[e].LBTargetPoolName
    BY <1>3 DEF Begin
  <2>2. pc = "idle" /\ next' = next
    BY <1>3 DEF Begin, locals
  <2>3. OnList(e) => e \in LBs /\ lbConfigs[e].LBTargetPoolName \in Pools
    BY PoolsAssumption DEF OnList, Ours
  <2> QED
    BY <1>1, <1>2, <2>1, <2>2, <2>3 DEF Control
<1>4. CASE GetVirtualServer
  <2>1. 1 \in 1..(Len(config.LBTargets) + 1) /\ next = 1
    BY <1>1, <1>2, <1>4 DEF GetVirtualServer, Control
  <2> QED
    BY <1>1, <1>4, <2>1, FinishControl, AddingControl
    DEF GetVirtualServer, Proceed, Answer, RequestFails, ReturnError, ReturnOk
<1>5. CASE EnsureNode
  <2>1. next + 1 \in 1..(Len(config.LBTargets) + 1) /\ lbName \in LBs
    BY <1>1, <1>2, <1>5 DEF EnsureNode, Control
  <2> QED
    BY <1>1, <1>5, <2>1, FinishControl, AddingControl
    DEF EnsureNode, Proceed, Answer, RequestFails, ReturnError, ReturnOk
<1>6. CASE EnsurePool
  BY <1>1, <1>2, <1>6, FinishControl
  DEF EnsurePool, CallOK, Control, Continue, request, Proceed, Answer, Swallows, RequestFails, ReturnError, ReturnOk
<1>7. CASE ModifyPool
  BY <1>1, <1>2, <1>7, FinishControl
  DEF ModifyPool, CallOK, Control, Continue, request, Proceed, Answer, Swallows, RequestFails, ReturnError, ReturnOk
<1>8. CASE FindMembers
  <2>1. 1 \in 1..(Len(config.LBTargets) + 1) /\ lbName \in LBs
    BY <1>1, <1>2, <1>8 DEF FindMembers, Control
  <2> QED
    BY <1>1, <1>8, <2>1, FinishControl, AddingControl
    DEF FindMembers, Proceed, Answer, RequestFails, ReturnError, ReturnOk
<1>9. CASE AddPoolMember
  <2>1. next + 1 \in 1..(Len(config.LBTargets) + 1) /\ lbName \in LBs
    BY <1>1, <1>2, <1>9 DEF AddPoolMember, Control
  <2> QED
    BY <1>1, <1>9, <2>1, FinishControl, AddingControl
    DEF AddPoolMember, Proceed, Answer, RequestFails, ReturnError, ReturnOk
<1>10. CASE AssignPool
  BY <1>1, <1>2, <1>10, FinishControl
  DEF AssignPool, CallOK, Control, Continue, request, Proceed, Answer, Swallows, RequestFails, ReturnError, ReturnOk
<1>11. CASE FindVirtualServer
  BY <1>1, <1>2, <1>11, FinishControl
  DEF FindVirtualServer, CallOK, Control, Continue, request, Proceed, Answer, Swallows, RequestFails, ReturnError, ReturnOk
<1>12. CASE UnassignPool
  BY <1>1, <1>2, <1>12, FinishControl
  DEF UnassignPool, CallOK, Control, Continue, request, Proceed, Answer, Swallows, RequestFails, ReturnError, ReturnOk
<1>13. CASE ListMembers
  BY <1>1, <1>2, <1>13, FinishControl
  DEF ListMembers, CallOK, Control, Continue, request, Proceed, Answer, Swallows, RequestFails, ReturnError, ReturnOk
<1>14. CASE DeletePool
  BY <1>1, <1>2, <1>14, FinishControl
  DEF DeletePool, CallOK, Control, Continue, request, Proceed, Answer, Swallows, RequestFails, ReturnError, ReturnOk
<1>15. CASE DeleteNode
  BY <1>1, <1>2, <1>15, FinishControl
  DEF DeleteNode, CallOK, Control, Continue, request, Proceed, Answer, Swallows, RequestFails, ReturnError, ReturnOk
<1>16. CASE Removed
  BY <1>1, <1>2, <1>16, FinishControl
  DEF Removed, CallOK, Control, Continue, request, Proceed, Answer, Swallows, RequestFails, ReturnError, ReturnOk
<1>17. CASE BeginList
  BY <1>1, <1>2, <1>17, FinishControl
  DEF BeginList, CallOK, Control, Continue, request, Proceed, Answer, Swallows, RequestFails, ReturnError, ReturnOk, locals
<1>18. CASE ListVirtualServers
  BY <1>1, <1>2, <1>18, FinishControl
  DEF ListVirtualServers, CallOK, Control, Continue, request, Proceed, Answer, Swallows, RequestFails, ReturnError, ReturnOk
<1>19. CASE ReadPool
  BY <1>1, <1>2, <1>19, FinishControl
  DEF ReadPool, CallOK, Control, Continue, request, Proceed, Answer, Swallows, RequestFails, ReturnError, ReturnOk
<1>20. CASE EndList
  BY <1>1, <1>2, <1>20, FinishControl
  DEF EndList, CallOK, Control, Continue, request, Proceed, Answer, Swallows, RequestFails, ReturnError, ReturnOk
<1>21. CASE Drift
  BY <1>1, <1>2, <1>21, FinishControl
  DEF Drift, CallOK, Control, Continue, request, Proceed, Answer, Swallows, RequestFails, ReturnError, ReturnOk, locals
<1>22. CASE Crash
  BY <1>1, <1>2, <1>22, FinishControl
  DEF Crash, CallOK, Control, Continue, request, Proceed, Answer, Swallows, RequestFails, ReturnError, ReturnOk
<1>23. CASE UNCHANGED vars
  BY <1>1, <1>23 DEF vars, Control, request, locals
<1> QED
  BY <1>3, <1>4, <1>5, <1>6, <1>7, <1>8, <1>9, <1>10, <1>11, <1>12, <1>13, <1>14, <1>15, <1>16, <1>17, <1>18, <1>19, <1>20, <1>21, <1>22, <1>23 DEF Next

-----------------------------------------------------------------------------
(* Progress.                                                               *)

LEMMA FinishProgress ==
    ASSUME NEW result, Finish(result)
    PROVE  Progress' /\ Rebuilt'
BY DEF Finish, Progress, Rebuilt

(* A call that goes on and was disturbed need not get anywhere.            *)
LEMMA DisturbedProgress ==
    ASSUME disturbed, NEW at, NEW i, NEW found, Continue(at, i, found)
    PROVE  Progress' /\ Rebuilt'
BY DEF Continue, Progress, Rebuilt

(* Adding one member more.                                                 *)
LEMMA AddedGrows ==
    ASSUME CallOK, Control, pc = "addMembers", next \in DOMAIN config.LBTargets,
           next' = next + 1, config' = config
    PROVE  Added' = Added \cup {config.LBTargets[next]}
<1>1. next \in Nat /\ next >= 1
  BY ConfigTypes DEF Control, Adding
<1>2. 1..(next' - 1) = 1..(next - 1) \cup {next}
  BY <1>1
<1>3. Added' = {config.LBTargets[i] : i \in 1..(next' - 1)}
  BY DEF Added
<1>4. Added' = {config.LBTargets[i] : i \in 1..(next - 1) \cup {next}}
  BY <1>2, <1>3
<1> HIDE DEF CallOK, Control
<1> QED
  BY <1>4, Zenon DEF Added

LEMMA ProgressStep ==
    ASSUME IInv, [Next]_vars
    PROVE  Progress'
<1>1. DeviceOK /\ CallOK /\ ListOK /\ Control /\ Progress
  BY TypeParts DEF IInv
<1>2. \A ts \in SUBSET Targets : ts # NoPool
  BY F5Assumption
<1>3. CASE Begin
  BY <1>3 DEF Begin, Progress
<1>4. CASE GetVirtualServer \/ EnsureNode
  BY <1>4, FinishProgress
  DEF GetVirtualServer, EnsureNode, Progress, Continue, Proceed, Answer, Swallows, RequestFails, ReturnError, ReturnOk
<1>5. CASE EnsurePool
  <2>1. CASE \E result : Finish(result)
    BY <2>1, FinishProgress
  <2>2. CASE Continue("modify", next, poolMembers)
    <3>1. poolName \in Pools /\ {} # NoPool
      BY <1>1, <1>2, <1>5 DEF EnsurePool, Control, Adding
    <3>2. \/ Exists(poolName) /\ pools' = pools
          \/ pools' = [pools EXCEPT ![poolName] = {}]
      BY <1>5, <2>2 DEF EnsurePool, Continue, Finish, Proceed, Answer, Swallows, RequestFails, ReturnError, ReturnOk
    <3>3. pools'[poolName] # NoPool
      BY <1>1, <3>1, <3>2 DEF Exists, DeviceOK
    <3> QED
      BY <2>2, <3>3 DEF Continue, Progress, Exists, request
  <2> QED
    BY <1>5, <2>1, <2>2 DEF EnsurePool, Proceed, Answer, Swallows, RequestFails, ReturnError, ReturnOk
<1>6. CASE ModifyPool
  BY <1>1, <1>6, FinishProgress
  DEF ModifyPool, Progress, Continue, Exists, device, request, Proceed, Answer, Swallows, RequestFails, ReturnError, ReturnOk
<1>7. CASE FindMembers
  <2>1. CASE \E result : Finish(result)
    BY <2>1, FinishProgress
  <2>2. CASE Continue("addMembers", 1, PoolMembers(poolName)) /\ disturbed
    BY <2>2, DisturbedProgress
  <2>3. CASE Continue("addMembers", 1, PoolMembers(poolName)) /\ ~disturbed
    <3>1. Exists(poolName) /\ pools' = pools
      BY <1>1, <1>7, <2>3 DEF FindMembers, Progress, device
    <3>2. Added' = {}
      BY <2>3 DEF Added, Continue
    <3> QED
      BY <2>3, <3>1, <3>2 DEF Continue, Progress, PoolMembers, Exists, request
  <2> QED
    BY <1>7, <2>1, <2>2, <2>3 DEF FindMembers, Proceed, Answer, Swallows, RequestFails, ReturnError, ReturnOk
<1>8. CASE AddPoolMember
  <2> DEFINE member == config.LBTargets[next]
  <2>1. CASE \E result : Finish(result)
    BY <2>1, FinishProgress
  <2>2. CASE Continue("addMembers", next + 1, poolMembers) /\ disturbed
    BY <2>2, DisturbedProgress
  <2>3. CASE Continue("addMembers", next + 1, poolMembers) /\ ~disturbed
    <3>1. /\ pc = "addMembers" /\ next \in DOMAIN config.LBTargets
          /\ Exists(poolName) /\ pools[poolName] = poolMembers \cup Added
          /\ poolName \in Pools
      BY <1>1, <1>8, <2>3 DEF AddPoolMember, Progress, Control, Adding
    <3>2. Added' = Added \cup {member}
      BY <1>1, <2>3, <3>1, AddedGrows DEF Continue, request
    <3>3. /\ poolName' = poolName /\ poolMembers' = poolMembers
          /\ pc' = "addMembers" /\ disturbed' = disturbed
      BY <2>3 DEF Continue, request
    <3>4. \/ member \in poolMembers /\ pools' = pools
          \/ pools' = [pools EXCEPT ![poolName] = @ \cup {member}]
      BY <1>8, <2>3 DEF AddPoolMember, Continue, Finish, Proceed, Answer, Swallows, RequestFails, ReturnError, ReturnOk
    <3>5. member \in Targets
      BY <1>1, <3>1, ConfigTypes DEF Control, Adding
    <3> HIDE DEF member
    <3>6. pools'[poolName] = poolMembers \cup Added \cup {member}
      BY <1>1, <3>1, <3>4 DEF DeviceOK
    <3>7. pools'[poolName] # NoPool
      <4>1. pools[poolName] \in SUBSET Targets
        BY <1>1, <3>1 DEF DeviceOK, Exists
      <4> QED
        BY <1>2, <3>1, <3>5, <3>6, <4>1
    <3> QED
      BY <3>2, <3>3, <3>6, <3>7 DEF Progress, Exists
  <2> QED
    BY <1>8, <2>1, <2>2, <2>3 DEF AddPoolMember, Proceed, Answer, Swallows, RequestFails, ReturnError, ReturnOk
<1>9. CASE AssignPool
  BY <1>9, FinishProgress DEF AssignPool, Proceed, Answer, Swallows, RequestFails, ReturnError, ReturnOk
<1>10. CASE FindVirtualServer
  BY <1>10, FinishProgress DEF FindVirtualServer, Progress, Continue, Proceed, Answer, Swallows, RequestFails, ReturnError, ReturnOk
<1>11. CASE UnassignPool
  <2>1. CASE \E result : Finish(result)
    BY <2>1, FinishProgress
  <2>2. CASE Continue("listMembers", next, poolMembers)
    <3>1. lbName \in LBs /\ vsPool' = [vsPool EXCEPT ![lbName] = NoPool]
      BY <1>1, <1>11, <2>2 DEF UnassignPool, Control, Removing, Continue, Finish, Proceed, Answer, Swallows, RequestFails, ReturnError, ReturnOk
    <3>2. vsPool'[lbName] = NoPool
      BY <1>1, <3>1 DEF DeviceOK
    <3> QED
      BY <2>2, <3>2 DEF Continue, Progress, request
  <2> QED
    BY <1>11, <2>1, <2>2 DEF UnassignPool, Proceed, Answer, Swallows, RequestFails, ReturnError, ReturnOk
<1>12. CASE ListMembers \/ DeletePool \/ DeleteNode
  <2>1. /\ vsPool' = vsPool /\ lbName' = lbName /\ disturbed' = disturbed
        /\ pc \in {"listMembers", "deletePool", "deleteNodes"}
        /\ pc' \in {"listMembers", "deletePool", "deleteNodes"}
    BY <1>12 DEF ListMembers, DeletePool, DeleteNode, device, Continue, request, Proceed, Answer, Swallows, RequestFails, ReturnError, ReturnOk
  <2> QED
    BY <1>1, <2>1 DEF Progress
<1>13. CASE Removed
  BY <1>13, FinishProgress DEF Removed, Progress, Continue, Proceed, Answer, Swallows, RequestFails, ReturnError, ReturnOk
<1>14. CASE BeginList
  BY <1>14 DEF BeginList, Progress
<1>15. CASE ListVirtualServers
  <2>1. CASE \E result : Finish(result)
    BY <2>1, FinishProgress
  <2>2. CASE /\ Continue("read", next, poolMembers)
             /\ vServers' = vsPool /\ todo' = {l \in LBs : vsPool[l] # NoPool}
    <3>1. pools' = pools
      BY <1>15 DEF ListVirtualServers, device
    <3>2. \A l \in todo' : pools'[vServers'[l]] # NoPool
      BY <1>1, <2>2, <3>1 DEF DeviceOK, Exists
    <3> QED
      BY <2>2, <3>2 DEF Continue, Progress, Exists
  <2> QED
    BY <1>15, <2>1, <2>2 DEF ListVirtualServers, Proceed, Answer, Swallows, RequestFails, ReturnError, ReturnOk
<1>16. CASE ReadPool
  <2>1. CASE \E result : Finish(result)
    BY <2>1, FinishProgress
  <2>2. CASE Continue("read", next, poolMembers) \/ Continue("read", next, {})
    <3>1. pc = "read" /\ pools' = pools /\ vServers' = vServers /\ todo' \subseteq todo
      BY <1>16 DEF ReadPool, device
    <3> QED
      BY <1>1, <2>2, <3>1 DEF Continue, Progress, Exists
  <2> QED
    BY <1>16, <2>1, <2>2 DEF ReadPool, Proceed, Answer, Swallows, RequestFails, ReturnError, ReturnOk
<1>17. CASE EndList \/ Crash
  BY <1>17, FinishProgress DEF EndList, Crash
<1>18. CASE Drift
  <2>1. disturbed' = (pc # "idle") /\ pc' = pc
    BY <1>18 DEF Drift
  <2> QED
    BY <2>1 DEF Progress
<1>19. CASE UNCHANGED vars
  BY <1>1, <1>19
  DEF vars, device, request, locals, listing, Progress, Exists, Added
<1> QED
  BY <1>3, <1>4, <1>5, <1>6, <1>7, <1>8, <1>9, <1>10, <1>11, <1>12, <1>13,
     <1>14, <1>15, <1>16, <1>17, <1>18, <1>19 DEF Next

LEMMA RebuiltStep ==
    ASSUME IInv, [Next]_vars
    PROVE  Rebuilt'
<1>1. DeviceOK /\ CallOK /\ Control /\ Progress /\ Rebuilt
  BY TypeParts DEF IInv
<1>2. \A ts \in SUBSET Targets : ts # NoPool
  BY F5Assumption
<1>3. CASE Begin
  BY <1>3 DEF Begin, Rebuilt
<1>4. CASE GetVirtualServer \/ EnsureNode
  <2>1. CASE \E result : Finish(result)
    BY <2>1, FinishProgress
  <2>2. CASE \E i, found : Continue("nodes", i, found) /\ swallowed' = swallowed
    <3>1. pools' = pools /\ vsPool' = vsPool /\ pc \in {"getVS", "nodes"}
      BY <1>4 DEF GetVirtualServer, EnsureNode, device
    <3>2. /\ op' = op /\ lbName' = lbName /\ poolName' = poolName /\ pc' = "nodes"
          /\ disturbed' = disturbed /\ swallowed' = swallowed
      BY <2>2 DEF Continue, request
    <3> QED
      BY <1>1, <3>1, <3>2 DEF Rebuilt, Exists
  <2> QED
    BY <1>4, <2>1, <2>2 DEF GetVirtualServer, EnsureNode, Proceed, Answer, Swallows, RequestFails, ReturnError, ReturnOk
<1>5. CASE EnsurePool
  <2>1. CASE \E result : Finish(result)
    BY <2>1, FinishProgress
  <2>2. CASE Continue("modify", next, poolMembers) /\ swallowed' = swallowed
    <3>1. poolName \in Pools /\ vsPool' = vsPool /\ pc = "nodes"
      BY <1>1, <1>5 DEF EnsurePool, Control, Adding
    <3>2. \/ Exists(poolName) /\ pools' = pools
          \/ pools' = [pools EXCEPT ![poolName] = {}]
      BY <1>5, <2>2 DEF EnsurePool, Continue, Finish, Proceed, Answer, Swallows, RequestFails, ReturnError, ReturnOk
    <3>3. Exists(poolName) \/ pools'[poolName] = {}
      BY <1>1, <3>1, <3>2 DEF DeviceOK
    <3>4. /\ op' = op /\ lbName' = lbName /\ poolName' = poolName /\ pc' = "modify"
          /\ disturbed' = disturbed /\ swallowed' = swallowed
      BY <2>2 DEF Continue, request
    <3> QED
      BY <1>1, <3>1, <3>3, <3>4 DEF Rebuilt
  <2> QED
    BY <1>5, <2>1, <2>2 DEF EnsurePool, Proceed, Answer, Swallows, RequestFails, ReturnError, ReturnOk
<1>6. CASE ModifyPool
  <2>1. CASE \E result : Finish(result)
    BY <2>1, FinishProgress
  <2>2. CASE Continue("members", next, poolMembers) /\ swallowed' = swallowed
    BY <1>1, <1>6, <2>2 DEF ModifyPool, Continue, request, device, Rebuilt
  <2> QED
    BY <1>6, <2>1, <2>2 DEF ModifyPool, Proceed, Answer, Swallows, RequestFails, ReturnError, ReturnOk
<1>7. CASE FindMembers
  <2>1. CASE \E result : Finish(result)
    BY <2>1, FinishProgress
  <2>2. CASE Continue("addMembers", 1, PoolMembers(poolName)) /\ swallowed' = swallowed
    <3>1. pools[poolName] = {} => PoolMembers(poolName) = {}
      BY DEF PoolMembers
    <3> QED
      BY <1>1, <1>7, <2>2, <3>1 DEF FindMembers, Continue, request, device, Rebuilt
  <2> QED
    BY <1>7, <2>1, <2>2 DEF FindMembers, Proceed, Answer, Swallows, RequestFails, ReturnError, ReturnOk
<1>8. CASE AddPoolMember
  <2>1. CASE \E result : Finish(result)
    BY <2>1, FinishProgress
  <2>2. CASE Continue("addMembers", next + 1, poolMembers) /\ swallowed' = swallowed
    <3>1. pc = "addMembers" /\ vsPool' = vsPool
      BY <1>8 DEF AddPoolMember
    <3> QED
      BY <1>1, <2>2, <3>1 DEF Continue, request, Rebuilt
  <2> QED
    BY <1>8, <2>1, <2>2 DEF AddPoolMember, Proceed, Answer, Swallows, RequestFails, ReturnError, ReturnOk
<1>9. CASE AssignPool
  BY <1>9, FinishProgress DEF AssignPool, Proceed, Answer, Swallows, RequestFails, ReturnError, ReturnOk
<1>10. CASE FindVirtualServer \/ UnassignPool \/ ListMembers
  <2>1. (\E result : Finish(result)) \/ pc' \in {"unassign", "listMembers", "deletePool"}
    BY <1>10 DEF FindVirtualServer, UnassignPool, ListMembers, Continue, Proceed, Answer, Swallows, RequestFails, ReturnError, ReturnOk
  <2>2. pc' \in {"unassign", "listMembers", "deletePool"} => Rebuilt'
    BY DEF Rebuilt
  <2> QED
    BY <2>1, <2>2, FinishProgress
<1>11. CASE DeletePool
  <2>1. CASE swallowed'
    BY <2>1 DEF Rebuilt
  <2>2. CASE disturbed
    BY <1>11, <2>2, DisturbedProgress DEF DeletePool, Proceed, Answer, Swallows, RequestFails, ReturnError, ReturnOk
  <2>3. CASE ~swallowed' /\ ~disturbed
    <3>1. /\ Continue("deleteNodes", next, poolMembers) /\ vsPool' = vsPool
          /\ \/ pools' = [pools EXCEPT ![poolName] = NoPool]
             \/ ~Deletable(poolName) /\ pools' = pools
      BY <1>11, <2>3 DEF DeletePool, Proceed, Answer, Swallows, RequestFails, ReturnError, ReturnOk
    <3>2. poolName \in Pools /\ vsPool[lbName] = NoPool /\ poolName # NoPool
      BY <1>1, <1>11, <2>3, F5Assumption DEF DeletePool, Control, Progress, Removing
    <3>3. CASE pools' = [pools EXCEPT ![poolName] = NoPool]
      <4>1. pools'[poolName] = NoPool
        BY <1>1, <3>2, <3>3 DEF DeviceOK
      <4> QED
        BY <3>1, <4>1 DEF Continue, request, Rebuilt, Exists
    <3>4. CASE ~Deletable(poolName) /\ pools' = pools
      <4>1. ~Exists(poolName) \/ \E l \in LBs \ {lbName} : vsPool[l] = poolName
        BY <3>2, <3>4 DEF Deletable
      <4> QED
        BY <3>1, <3>4, <4>1 DEF Continue, request, Rebuilt, Exists
    <3> QED
      BY <3>1, <3>3, <3>4
  <2> QED
    BY <2>1, <2>2, <2>3
<1>12. CASE DeleteNode
  <2>1. /\ pools' = pools /\ vsPool' = vsPool /\ pc = "deleteNodes" /\ pc' = pc
        /\ op' = op /\ lbName' = lbName /\ poolName' = poolName
        /\ disturbed' = disturbed /\ (swallowed' = swallowed \/ swallowed')
    BY <1>12 DEF DeleteNode, Continue, request, Proceed, Answer, Swallows, RequestFails, ReturnError, ReturnOk
  <2> QED
    BY <1>1, <2>1 DEF Rebuilt, Exists
<1>13. CASE Removed
  <2>1. CASE \E result : Finish(result)
    BY <2>1, FinishProgress
  <2>2. CASE Continue("getVS", next, poolMembers) /\ swallowed' = swallowed
    BY <1>1, <1>13, <2>2 DEF Removed, Continue, request, device, Rebuilt, Exists
  <2> QED
    BY <1>13, <2>1, <2>2 DEF Removed, Proceed, Answer, Swallows, RequestFails, ReturnError, ReturnOk
<1>14. CASE BeginList
  BY <1>14 DEF BeginList, Rebuilt
<1>15. CASE ListVirtualServers \/ ReadPool
  <2>1. (\E result : Finish(result)) \/ op' = "list"
    BY <1>1, <1>15
    DEF ListVirtualServers, ReadPool, Control, Continue, request, Proceed, Answer, Swallows, RequestFails, ReturnError, ReturnOk
  <2>2. op' = "list" => Rebuilt'
    BY DEF Rebuilt
  <2> QED
    BY <2>1, <2>2, FinishProgress
<1>16. CASE EndList \/ Crash
  BY <1>16, FinishProgress DEF EndList, Crash
<1>17. CASE Drift
  <2>1. disturbed' = (pc # "idle") /\ pc' = pc
    BY <1>17 DEF Drift
  <2> QED
    BY <2>1 DEF Rebuilt
<1>18. CASE UNCHANGED vars
  BY <1>1, <1>18
  DEF vars, device, request, locals, Rebuilt, Exists
<1> QED
  BY <1>3, <1>4, <1>5, <1>6, <1>7, <1>8, <1>9, <1>10, <1>11, <1>12, <1>13,
     <1>14, <1>15, <1>16, <1>17, <1>18 DEF Next

-----------------------------------------------------------------------------
(* Nodes.                                                                  *)

(* NodesInUse, of the pools ps.                                            *)
InUse(ps) == UNION {Hosts(ps[p]) : p \in {q \in Pools : ps[q] # NoPool}}

LEMMA InUseIs ==
    ASSUME NEW ps
    PROVE  \A h : h \in InUse(ps) <=>
              \E p \in Pools : ps[p] # NoPool /\ \E t \in ps[p] : h = t[1]
BY DEF InUse, Hosts

LEMMA NodesInUseIs == NodesInUse = InUse(pools) /\ NodesInUse' = InUse(pools')
BY DEF NodesInUse, InUse, Exists

(* A new member puts its node to use.                                      *)
LEMMA InUseAdd ==
    ASSUME NEW ps \in [Pools -> (SUBSET Targets) \cup {NoPool}], NEW p \in Pools,
           ps[p] # NoPool, NEW t \in Targets
    PROVE  InUse([ps EXCEPT ![p] = @ \cup {t}]) = InUse(ps) \cup {t[1]}
<1> DEFINE qs == [ps EXCEPT ![p] = @ \cup {t}]
<1>1. \A q \in Pools : qs[q] = IF q = p THEN ps[p] \cup {t} ELSE ps[q]
  OBVIOUS
<1>2. ps[p] \cup {t} # NoPool
  BY F5Assumption
<1> HIDE DEF qs
<1>3. ASSUME NEW h PROVE h \in InUse(qs) <=> h \in InUse(ps) \/ h = t[1]
  BY <1>1, <1>2, InUseIs
<1> QED
  BY <1>3 DEF qs

(* A new pool uses none.                                                   *)
LEMMA InUseNew ==
    ASSUME NEW ps \in [Pools -> (SUBSET Targets) \cup {NoPool}], NEW p \in Pools,
           ps[p] = NoPool
    PROVE  InUse([ps EXCEPT ![p] = {}]) = InUse(ps)
<1> DEFINE qs == [ps EXCEPT ![p] = {}]
<1>1. \A q \in Pools : qs[q] = IF q = p THEN {} ELSE ps[q]
  OBVIOUS
<1> HIDE DEF qs
<1>2. ASSUME NEW h PROVE h \in InUse(qs) <=> h \in InUse(ps)
  BY <1>1, InUseIs
<1> QED
  BY <1>2 DEF qs

(* A pool that goes frees at most the nodes of its members.                *)
LEMMA InUseDelete ==
    ASSUME NEW ps \in [Pools -> (SUBSET Targets) \cup {NoPool}], NEW p \in Pools,
           ps[p] # NoPool
    PROVE  /\ InUse([ps EXCEPT ![p] = NoPool]) \subseteq InUse(ps)
           /\ InUse(ps) \subseteq InUse([ps EXCEPT ![p] = NoPool]) \cup Hosts(ps[p])
<1> DEFINE qs == [ps EXCEPT ![p] = NoPool]
<1>1. \A q \in Pools : qs[q] = IF q = p THEN NoPool ELSE ps[q]
  OBVIOUS
<1> HIDE DEF qs
<1>2. ASSUME NEW h \in InUse(qs) PROVE h \in InUse(ps)
  BY <1>1, InUseIs
<1>3. ASSUME NEW h \in InUse(ps) PROVE h \in InUse(qs) \cup Hosts(ps[p])
  BY <1>1, InUseIs DEF Hosts
<1> QED
  BY <1>2, <1>3 DEF qs

(* A member that goes frees at most its node.                              *)
LEMMA InUseRemove ==
    ASSUME NEW ps \in [Pools -> (SUBSET Targets) \cup {NoPool}], NEW p \in Pools,
           ps[p] # NoPool, NEW t \in Targets
    PROVE  InUse([ps EXCEPT ![p] = @ \ {t}]) \subseteq InUse(ps)
<1> DEFINE qs == [ps EXCEPT ![p] = @ \ {t}]
<1>1. \A q \in Pools : qs[q] = IF q = p THEN ps[p] \ {t} ELSE ps[q]
  OBVIOUS
<1> HIDE DEF qs
<1>2. ASSUME NEW h \in InUse(qs) PROVE h \in InUse(ps)
  BY <1>1, InUseIs
<1> QED
  BY <1>2 DEF qs

(* The nodes of a pool are in use.                                         *)
LEMMA InUsePool ==
    ASSUME NEW ps, NEW p \in Pools, ps[p] # NoPool
    PROVE  Hosts(ps[p]) \subseteq InUse(ps)
BY DEF InUse

(* The device keeps a node under every member.                             *)
LEMMA NodesCover ==
    ASSUME IInv, [Next]_vars
    PROVE  NodesInUse' \subseteq nodes'
<1>1. /\ DeviceOK /\ CallOK /\ Control /\ InUse(pools) \subseteq nodes
      /\ pools \in [Pools -> (SUBSET Targets) \cup {NoPool}]
  BY TypeParts, NodesInUseIs DEF IInv, NodesKept, DeviceOK
<1> SUFFICES InUse(pools') \subseteq nodes'
  BY NodesInUseIs
<1>2. CASE pools' = pools /\ nodes \subseteq nodes'
  BY <1>1, <1>2
<1>3. CASE EnsureNode
  BY <1>2, <1>3 DEF EnsureNode
<1>4. CASE EnsurePool
  <2>1. /\ poolName \in Pools /\ nodes' = nodes
        /\ \/ pools' = pools
           \/ ~Exists(poolName) /\ pools' = [pools EXCEPT ![poolName] = {}]
    BY <1>1, <1>4 DEF EnsurePool, Control, Adding
  <2> QED
    BY <1>1, <1>2, <2>1, InUseNew DEF Exists
<1>5. CASE AddPoolMember
  <2> DEFINE member == config.LBTargets[next]
  <2>1. poolName \in Pools /\ member \in Targets
    BY <1>1, <1>5, ConfigTypes DEF AddPoolMember, Control, Adding
  <2>2. \/ pools' = pools /\ nodes' = nodes
        \/ /\ Exists(poolName) /\ nodes' = nodes \cup {member[1]}
           /\ pools' = [pools EXCEPT ![poolName] = @ \cup {member}]
    BY <1>5 DEF AddPoolMember
  <2> HIDE DEF member
  <2> QED
    BY <1>1, <1>2, <2>1, <2>2, InUseAdd DEF Exists
<1>6. ASSUME NEW p \in Pools, Deletable(p), nodes' = nodes,
             pools' = [pools EXCEPT ![p] = NoPool]
      PROVE  InUse(pools') \subseteq nodes'
  BY <1>1, <1>6, InUseDelete DEF Deletable, Exists
<1>7. CASE DeletePool
  <2>1. /\ poolName \in Pools /\ nodes' = nodes
        /\ \/ pools' = pools
           \/ Deletable(poolName) /\ pools' = [pools EXCEPT ![poolName] = NoPool]
    BY <1>1, <1>7 DEF DeletePool, Control, Removing
  <2> QED
    BY <1>2, <1>6, <2>1
<1>8. CASE DeleteNode
  <2>1. PICK t \in poolMembers :
           nodes' = nodes \/ nodes' = IF t[1] \in NodesInUse THEN nodes ELSE nodes \ {t[1]}
    BY <1>8 DEF DeleteNode
  <2>2. pools' = pools
    BY <1>8 DEF DeleteNode
  <2> QED
    BY <1>1, <2>1, <2>2, NodesInUseIs
<1>9. CASE Drift
  <2>1. ASSUME NEW p \in Pools, NEW t \in Targets, Exists(p),
               pools' = [pools EXCEPT ![p] = IF t \in @ THEN @ \ {t} ELSE @ \cup {t}],
               nodes' = nodes \cup {t[1]}
        PROVE  InUse(pools') \subseteq nodes'
    <3>1. CASE t \in pools[p]
      <4>1. pools' = [pools EXCEPT ![p] = @ \ {t}]
        BY <2>1, <3>1
      <4> QED
        BY <1>1, <2>1, <4>1, InUseRemove DEF Exists
    <3>2. CASE t \notin pools[p]
      <4>1. pools' = [pools EXCEPT ![p] = @ \cup {t}] /\ pools[p] # NoPool
        BY <2>1, <3>2 DEF Exists
      <4>2. InUse(pools') = InUse(pools) \cup {t[1]}
        BY <1>1, <4>1, InUseAdd
      <4> QED
        BY <1>1, <2>1, <4>2
    <3> QED
      BY <3>1, <3>2
  <2> QED
    BY <1>2, <1>6, <1>9, <2>1 DEF Drift
<1> QED
  BY <1>2, <1>3, <1>4, <1>5, <1>7, <1>8, <1>9
  DEF Next, vars, device, Begin, GetVirtualServer, ModifyPool, FindMembers,
      AssignPool, FindVirtualServer, UnassignPool, ListMembers, Removed,
      BeginList, ListVirtualServers, ReadPool, EndList, Crash

(* The nodes of the wanted targets up to a repeat are in use by then.      *)
LEMMA WantedInUse ==
    ASSUME IInv, pc = "addMembers", ~disturbed, RepeatsHideNoHost,
           \/ next \notin DOMAIN config.LBTargets
           \/ config.LBTargets[next] \in Added
    PROVE  Hosts(Range(config.LBTargets)) \subseteq NodesInUse
<1>1. CallOK /\ Control /\ Progress
  BY TypeParts DEF IInv
<1>2. /\ config \in Configs /\ poolName \in Pools
      /\ next \in 1..(Len(config.LBTargets) + 1)
      /\ Exists(poolName) /\ Added \subseteq pools[poolName]
  BY <1>1 DEF Control, Adding, Progress
<1> DEFINE L == config.LBTargets
<1>3. Len(L) \in Nat /\ DOMAIN L = 1..Len(L)
  BY <1>2, ConfigTypes
<1>4. Hosts(pools[poolName]) \subseteq NodesInUse
  BY <1>2, InUsePool, NodesInUseIs DEF Exists
<1>5. \A i \in 1..(next - 1) : L[i] \in Added
  BY DEF Added
<1>6. \A i \in 1..(next - 1) : L[i][1] \in NodesInUse
  BY <1>2, <1>4, <1>5 DEF Hosts
<1>7. ASSUME NEW k \in DOMAIN L PROVE L[k][1] \in NodesInUse
  <2>1. CASE k \in 1..(next - 1)
    BY <1>6, <2>1
  <2>2. CASE k \notin 1..(next - 1)
    <3>1. k \in Nat /\ next \in Nat /\ k >= next
      BY <1>2, <1>3, <2>2
    <3>2. next \in DOMAIN L
      BY <1>2, <1>3, <3>1
    <3>3. PICK i \in 1..(next - 1) : L[i] = L[next]
      BY <3>2 DEF Added
    <3>4. CASE k = next
      BY <1>6, <3>3, <3>4
    <3>5. CASE k # next
      <4>1. i < next /\ next < k /\ i \in DOMAIN L
        BY <1>2, <1>3, <3>1, <3>2, <3>3, <3>5
      <4>2. PICK m \in 1..(next - 1) : L[m][1] = L[k][1]
        BY <1>2, <3>2, <3>3, <4>1 DEF RepeatsHideNoHost
      <4> QED
        BY <1>6, <4>2
    <3> QED
      BY <3>4, <3>5
  <2> QED
    BY <2>1, <2>2
<1> QED
  BY <1>7 DEF Hosts, Range

(* Nothing has gone wrong by the end of a step: it was no edit, and no     *)
(* request of it failed.                                                   *)
LEMMA Quiet ==
    ASSUME IInv, [Next]_vars, failures' = 0, edits' = 0
    PROVE  /\ failures = 0 /\ edits = 0 /\ ~disturbed
           /\ ~Fails /\ ~Drift /\ ~Crash
<1>1. CountsOK /\ NodesKept
  BY TypeParts DEF IInv
<1>2. ~Fails /\ ~Drift
  BY <1>1 DEF Fails, Drift, CountsOK
<1>3. failures = 0 /\ edits = 0
  BY <1>2
  DEF Next, vars, Begin, GetVirtualServer, EnsureNode, EnsurePool, ModifyPool,
      FindMembers, AddPoolMember, AssignPool, FindVirtualServer, UnassignPool,
      ListMembers, DeletePool, DeleteNode, Removed, BeginList, ListVirtualServers,
      ReadPool, EndList, Crash, Succeeds, Answer, Swallows, RequestFails
<1> QED
  BY <1>1, <1>2, <1>3 DEF NodesKept, Crash

LEMMA UndisturbedStep ==
    ASSUME IInv, [Next]_vars, edits' = 0
    PROVE  ~disturbed'
<1>1. /\ CountsOK /\ (edits = 0 => ~disturbed)
  BY TypeParts DEF IInv, NodesKept
<1>2. ~Drift
  BY <1>1 DEF Drift, CountsOK
<1> QED
  BY <1>1, <1>2
  DEF Next, vars, Begin, GetVirtualServer, EnsureNode, EnsurePool, ModifyPool,
      FindMembers, AddPoolMember, AssignPool, FindVirtualServer, UnassignPool,
      ListMembers, DeletePool, DeleteNode, Removed, BeginList, ListVirtualServers,
      ReadPool, EndList, Crash, Finish, Continue, Proceed, Answer, Swallows, RequestFails, ReturnError, ReturnOk

LEMMA TightStep ==
    ASSUME IInv, [Next]_vars, failures' = 0, edits' = 0, RepeatsHideNoHost
    PROVE  NodesTight'
<1>1. /\ DeviceOK /\ CallOK /\ Control /\ Progress /\ NodesTight /\ ~disturbed
      /\ ~Fails /\ ~Drift /\ ~Crash
      /\ pools \in [Pools -> (SUBSET Targets) \cup {NoPool}]
  BY Quiet, TypeParts DEF IInv, NodesKept, DeviceOK
<1> DEFINE Wanted == Hosts(Range(config.LBTargets))
<1>2. /\ NodesInUse = InUse(pools) /\ NodesInUse' = InUse(pools')
      /\ pools' = pools => NodesInUse' = NodesInUse
  BY NodesInUseIs
<1>3. ASSUME pc' \notin Adding \cup {"deleteNodes", "deletePool"},
             nodes' \subseteq NodesInUse'
      PROVE  NodesTight'
  BY <1>3 DEF NodesTight, Adding
<1>4. ASSUME NEW result, Finish(result), nodes' \subseteq NodesInUse'
      PROVE  NodesTight'
  BY <1>3, <1>4 DEF Finish, Adding
<1>5. ASSUME NEW at \in Adding, NEW i, NEW found, Continue(at, i, found),
             nodes' \subseteq NodesInUse' \cup Wanted
      PROVE  NodesTight'
  <2>1. pc' = at /\ config' = config
    BY <1>5 DEF Continue, request
  <2> QED
    BY <1>5, <2>1 DEF NodesTight, Adding
<1>6. CASE Begin \/ BeginList
  <2>1. /\ nodes' = nodes /\ pools' = pools /\ pc = "idle"
        /\ pc' \in {"getVS", "findVS", "virtuals"}
    BY <1>6 DEF Begin, BeginList, device
  <2> QED
    BY <1>1, <1>2, <1>3, <2>1 DEF NodesTight, Adding
<1>7. CASE GetVirtualServer
  <2>1. nodes' = nodes /\ pools' = pools /\ pc = "getVS" /\ nodes \subseteq NodesInUse
    BY <1>1, <1>7 DEF GetVirtualServer, device, NodesTight, Adding
  <2>2. Continue("nodes", next, poolMembers) \/ Finish("ok")
    BY <1>1, <1>7 DEF GetVirtualServer, Proceed, Answer, Swallows, RequestFails, ReturnError, ReturnOk
  <2> QED
    BY <1>2, <1>4, <1>5, <2>1, <2>2 DEF Adding
<1>8. CASE EnsureNode
  <2> DEFINE node == config.LBTargets[next][1]
  <2>1. /\ nodes \subseteq NodesInUse \cup Wanted /\ pools' = pools
        /\ nodes' \subseteq nodes \cup {node}
    BY <1>1, <1>8 DEF EnsureNode, NodesTight, Adding
  <2>2. node \in Wanted
    BY <1>8 DEF EnsureNode, Hosts, Range
  <2>3. \E i, found : Continue("nodes", i, found)
    BY <1>1, <1>8 DEF EnsureNode, Proceed, Answer, Swallows, RequestFails, ReturnError, ReturnOk
  <2> HIDE DEF node, Wanted
  <2> QED
    BY <1>2, <1>5, <2>1, <2>2, <2>3 DEF Adding
<1>9. CASE EnsurePool
  <2>1. /\ nodes \subseteq NodesInUse \cup Wanted /\ nodes' = nodes /\ poolName \in Pools
        /\ \/ pools' = pools
           \/ ~Exists(poolName) /\ pools' = [pools EXCEPT ![poolName] = {}]
    BY <1>1, <1>9 DEF EnsurePool, Control, NodesTight, Adding
  <2>2. Continue("modify", next, poolMembers)
    BY <1>1, <1>9 DEF EnsurePool, Proceed, Answer, Swallows, RequestFails, ReturnError, ReturnOk
  <2>3. NodesInUse' = NodesInUse
    BY <1>1, <1>2, <2>1, InUseNew DEF Exists
  <2> HIDE DEF Wanted
  <2> QED
    BY <1>5, <2>1, <2>2, <2>3 DEF Adding
<1>10. CASE ModifyPool \/ FindMembers
  <2>1. /\ nodes \subseteq NodesInUse \cup Wanted /\ nodes' = nodes /\ pools' = pools
    BY <1>1, <1>10 DEF ModifyPool, FindMembers, device, NodesTight, Adding
  <2>2. \E at \in Adding : \E i, found : Continue(at, i, found)
    BY <1>1, <1>10 DEF ModifyPool, FindMembers, Progress, Adding, Proceed, Answer, Swallows, RequestFails, ReturnError, ReturnOk
  <2> HIDE DEF Wanted
  <2> QED
    BY <1>2, <1>5, <2>1, <2>2
<1>11. CASE AddPoolMember
  <2> DEFINE member == config.LBTargets[next]
  <2>1. /\ nodes \subseteq NodesInUse \cup Wanted /\ poolName \in Pools
        /\ member \in Targets /\ pc = "addMembers" /\ Exists(poolName)
        /\ pools[poolName] = poolMembers \cup Added
    BY <1>1, <1>11, ConfigTypes DEF AddPoolMember, Control, Progress, NodesTight, Adding
  <2>2. CASE /\ pools' = [pools EXCEPT ![poolName] = @ \cup {member}]
             /\ nodes' = nodes \cup {member[1]}
             /\ Continue("addMembers", next + 1, poolMembers)
    <3> HIDE DEF member, Wanted
    <3>1. NodesInUse' = NodesInUse \cup {member[1]}
      BY <1>1, <1>2, <2>1, <2>2, InUseAdd DEF Exists
    <3> QED
      BY <1>5, <2>1, <2>2, <3>1 DEF Adding
  <2>3. CASE nodes' = nodes /\ pools' = pools /\ Continue("addMembers", next + 1, poolMembers)
    <3> HIDE DEF Wanted
    <3> QED
      BY <1>2, <1>5, <2>1, <2>3 DEF Adding
  <2>4. CASE /\ nodes' = nodes /\ pools' = pools /\ Finish("error")
             /\ member \notin poolMembers /\ member \in pools[poolName]
    <3>1. member \in Added
      BY <2>1, <2>4
    <3>2. Wanted \subseteq NodesInUse
      BY <1>1, <2>1, <3>1, WantedInUse
    <3> HIDE DEF Wanted
    <3> QED
      BY <1>2, <1>4, <2>1, <2>4, <3>2
  <2> QED
    BY <1>1, <1>11, <2>1, <2>2, <2>3, <2>4
    DEF AddPoolMember, Proceed, Answer, Swallows, RequestFails, ReturnError, ReturnOk
<1>12. CASE AssignPool
  <2>1. /\ nodes \subseteq NodesInUse \cup Wanted /\ nodes' = nodes /\ pools' = pools
        /\ pc = "addMembers" /\ next \notin DOMAIN config.LBTargets
    BY <1>1, <1>12 DEF AssignPool, NodesTight, Adding
  <2>2. Wanted \subseteq NodesInUse
    BY <1>1, <2>1, WantedInUse
  <2>3. \E result : Finish(result)
    BY <1>1, <1>12 DEF AssignPool, Proceed, Answer, Swallows, RequestFails, ReturnError, ReturnOk
  <2> HIDE DEF Wanted
  <2> QED
    BY <1>2, <1>4, <2>1, <2>2, <2>3
<1>13. CASE FindVirtualServer \/ UnassignPool \/ ListVirtualServers \/ ReadPool \/ EndList
  <2>1. /\ nodes' = nodes /\ pools' = pools
        /\ pc \in {"findVS", "unassign", "virtuals", "read"}
    BY <1>13 DEF FindVirtualServer, UnassignPool, ListVirtualServers, ReadPool, EndList, device
  <2>2. pc' \in {"idle", "unassign", "listMembers", "read"}
    BY <1>1, <1>13
    DEF FindVirtualServer, UnassignPool, ListVirtualServers, ReadPool, EndList,
        Finish, Continue, Proceed, Answer, Swallows, RequestFails, ReturnError, ReturnOk
  <2> QED
    BY <1>1, <1>2, <1>3, <2>1, <2>2 DEF NodesTight, Adding
<1>14. CASE ListMembers
  <2>1. /\ nodes' = nodes /\ pools' = pools /\ pc = "listMembers"
        /\ Continue("deletePool", next, PoolMembers(poolName))
    BY <1>1, <1>14 DEF ListMembers, device, Swallows
  <2>2. /\ pc' = "deletePool" /\ poolMembers' = PoolMembers(poolName)'
        /\ nodes \subseteq NodesInUse
    BY <1>1, <2>1 DEF Continue, request, PoolMembers, Exists, NodesTight, Adding
  <2> QED
    BY <1>2, <2>1, <2>2 DEF NodesTight, Adding
<1>15. CASE DeletePool
  <2>1. /\ nodes' = nodes /\ pc = "deletePool" /\ poolName \in Pools
        /\ nodes \subseteq NodesInUse /\ PoolMembers(poolName) \subseteq poolMembers
        /\ \/ pools' = pools
           \/ Exists(poolName) /\ pools' = [pools EXCEPT ![poolName] = NoPool]
    BY <1>1, <1>15 DEF DeletePool, Deletable, Control, Removing, NodesTight, Adding
  <2>2. pc' = "deleteNodes" /\ poolMembers' = poolMembers
    BY <1>1, <1>15 DEF DeletePool, Continue, Proceed, Answer, Swallows, RequestFails, ReturnError, ReturnOk
  <2>3. nodes' \subseteq NodesInUse' \cup Hosts(poolMembers)
    <3>1. CASE pools' = pools
      BY <1>2, <2>1, <3>1
    <3>2. CASE Exists(poolName) /\ pools' = [pools EXCEPT ![poolName] = NoPool]
      <4>1. Hosts(pools[poolName]) \subseteq Hosts(poolMembers)
        BY <2>1, <3>2 DEF PoolMembers, Hosts
      <4> QED
        BY <1>1, <1>2, <2>1, <3>2, <4>1, InUseDelete DEF Exists
    <3> QED
      BY <2>1, <3>1, <3>2
  <2> QED
    BY <2>2, <2>3 DEF NodesTight, Adding
<1>16. CASE DeleteNode
  <2>1. /\ nodes \subseteq NodesInUse \cup Hosts(poolMembers) /\ pools' = pools
        /\ pc = "deleteNodes"
    BY <1>1, <1>16 DEF DeleteNode, NodesTight
  <2>2. PICK t \in poolMembers :
           /\ nodes' = IF t[1] \in NodesInUse THEN nodes ELSE nodes \ {t[1]}
           /\ Continue("deleteNodes", next, poolMembers \ {t})
    BY <1>1, <1>16 DEF DeleteNode, Swallows
  <2>3. pc' = "deleteNodes" /\ poolMembers' = poolMembers \ {t}
    BY <2>2 DEF Continue
  <2>4. Hosts(poolMembers) \subseteq Hosts(poolMembers \ {t}) \cup {t[1]}
    BY DEF Hosts
  <2>5. nodes' \subseteq NodesInUse' \cup Hosts(poolMembers \ {t})
    BY <1>2, <2>1, <2>2, <2>4
  <2> QED
    BY <2>3, <2>5 DEF NodesTight, Adding
<1>17. CASE Removed
  <2>1. /\ nodes' = nodes /\ pools' = pools /\ poolMembers = {}
        /\ nodes \subseteq NodesInUse \cup Hosts(poolMembers)
    BY <1>1, <1>17 DEF Removed, device, NodesTight
  <2>2. Hosts({}) = {}
    BY DEF Hosts
  <2>3. pc' \in {"idle", "getVS"}
    BY <1>17 DEF Removed, Finish, Continue, Proceed, Answer, Swallows, RequestFails, ReturnError, ReturnOk
  <2> QED
    BY <1>2, <1>3, <2>1, <2>2, <2>3 DEF Adding
<1>18. CASE UNCHANGED vars
  <2>1. /\ nodes' = nodes /\ pools' = pools /\ pc' = pc /\ config' = config
        /\ poolName' = poolName /\ poolMembers' = poolMembers
    BY <1>18 DEF vars, device, request, locals
  <2> QED
    BY <1>1, <1>2, <2>1 DEF NodesTight, PoolMembers, Exists
<1> QED
  BY <1>1, <1>6, <1>7, <1>8, <1>9, <1>10, <1>11, <1>12, <1>13, <1>14, <1>15,
     <1>16, <1>17, <1>18 DEF Next

LEMMA NextInv ==
    ASSUME IInv, [Next]_vars
    PROVE  IInv'
<1>1. TypeOK' /\ Control' /\ Progress' /\ Rebuilt' /\ NodesInUse' \subseteq nodes'
  BY TypeStep, ControlStep, ProgressStep, RebuiltStep, NodesCover
<1>2. edits' = 0 => ~disturbed'
  BY UndisturbedStep
<1>3. failures' = 0 /\ edits' = 0 /\ RepeatsHideNoHost => NodesTight'
  BY TightStep
<1>4. RepeatsHideNoHost' <=> RepeatsHideNoHost
  BY DEF RepeatsHideNoHost
<1>5. NodesKept'
  BY <1>1, <1>2, <1>3, <1>4 DEF NodesKept
<1> QED
  BY <1>1, <1>5 DEF IInv

-----------------------------------------------------------------------------
(* What the steps that end a call know.                                    *)

LEMMA AchievesStep ==
    ASSUME IInv, [Next]_vars
    PROVE  /\ Returns({"remove"}) => vsPool'[lbName] = NoPool
           /\ Returns({"add", "update"}) /\ lbName \in LBs =>
                 /\ vsPool'[lbName] = poolName
                 /\ Range(config.LBTargets) \subseteq pools'[poolName]
<1>1. DeviceOK /\ CallOK /\ Control /\ Progress
  BY TypeParts DEF IInv
<1>2. ASSUME op \in {"add", "update", "remove"}, pc # "idle", pc' = "idle",
             outcome' = "ok", ~disturbed
      PROVE  \/ lbName \notin LBs /\ op = "add"
             \/ Removed /\ op = "remove"
             \/ /\ AssignPool /\ Exists(poolName)
                /\ vsPool' = [vsPool EXCEPT ![lbName] = poolName]
  BY <1>1, <1>2
  DEF Next, vars, Begin, GetVirtualServer, EnsureNode, EnsurePool, ModifyPool,
      FindMembers, AddPoolMember, AssignPool, FindVirtualServer, UnassignPool,
      ListMembers, DeletePool, DeleteNode, Removed, BeginList, ListVirtualServers,
      ReadPool, EndList, Drift, Crash, Finish, Continue, Proceed, Answer, Swallows, RequestFails, ReturnError, ReturnOk, Control, Adding, Removing
<1>3. CASE Removed /\ op = "remove" /\ ~disturbed
  BY <1>1, <1>3 DEF Removed, device, Control, Progress, Removing, Returns
<1>4. CASE /\ AssignPool /\ Exists(poolName) /\ ~disturbed
           /\ vsPool' = [vsPool EXCEPT ![lbName] = poolName]
  <2>1. /\ pc = "addMembers" /\ pools' = pools /\ next \notin DOMAIN config.LBTargets
        /\ lbName \in LBs /\ config \in Configs /\ op \in {"add", "update"}
        /\ next \in 1..(Len(config.LBTargets) + 1)
        /\ pools[poolName] = poolMembers \cup Added
    BY <1>1, <1>4 DEF AssignPool, Control, Progress, Adding
  <2>2. next = Len(config.LBTargets) + 1 /\ DOMAIN config.LBTargets = 1..(next - 1)
    BY <2>1, ConfigTypes
  <2>3. Range(config.LBTargets) = Added
    BY <2>2 DEF Range, Added
  <2>4. vsPool'[lbName] = poolName
    BY <1>1, <1>4, <2>1 DEF DeviceOK
  <2> QED
    BY <2>1, <2>3, <2>4 DEF Returns
<1> QED
  BY <1>2, <1>3, <1>4 DEF Returns

LEMMA ExactStep ==
    ASSUME IInv, [Next]_vars, Returns({"update"}), ~swallowed
    PROVE  \/ \E l \in LBs \ {lbName} : vsPool[l] = poolName
           \/ pools'[poolName] = Range(config.LBTargets)
<1>1. CallOK /\ Control /\ Progress /\ Rebuilt
  BY TypeParts DEF IInv
<1>2. pc = "addMembers" /\ pools' = pools /\ next \notin DOMAIN config.LBTargets
  BY <1>1
  DEF Returns, Next, vars, Begin, GetVirtualServer, EnsureNode, EnsurePool, ModifyPool,
      FindMembers, AddPoolMember, AssignPool, FindVirtualServer, UnassignPool,
      ListMembers, DeletePool, DeleteNode, Removed, BeginList, ListVirtualServers,
      ReadPool, EndList, Drift, Crash, Finish, Continue, Proceed, Answer, Swallows, RequestFails, ReturnError, ReturnOk, Control, Adding, Removing
<1>3. /\ config \in Configs /\ next \in 1..(Len(config.LBTargets) + 1)
      /\ pools[poolName] = poolMembers \cup Added
  BY <1>1, <1>2 DEF Returns, Control, Progress, Adding
<1>4. next = Len(config.LBTargets) + 1 /\ DOMAIN config.LBTargets = 1..(next - 1)
  BY <1>2, <1>3, ConfigTypes
<1>5. Range(config.LBTargets) = Added
  BY <1>4 DEF Range, Added
<1>6. (\E l \in LBs \ {lbName} : vsPool[l] = poolName) \/ poolMembers = {}
  BY <1>1, <1>2 DEF Returns, Rebuilt
<1> QED
  BY <1>2, <1>3, <1>5, <1>6

(* A target that cannot be added was added before by this call.            *)
LEMMA ErrorStep ==
    ASSUME IInv, [Next]_vars, pc # "idle", pc' = "idle", outcome' = "error",
           ~disturbed
    PROVE  \/ failures' # failures
           \/ /\ op \in {"add", "update"}
              /\ \E i, j \in DOMAIN config.LBTargets :
                    /\ i # j /\ config.LBTargets[i] = config.LBTargets[j]
                    /\ config.LBTargets[i] \notin poolMembers
<1>1. CallOK /\ Control /\ Progress /\ CountsOK
  BY TypeParts DEF IInv
<1> SUFFICES ASSUME failures' = failures
             PROVE  /\ op \in {"add", "update"}
                    /\ \E i, j \in DOMAIN config.LBTargets :
                          /\ i # j /\ config.LBTargets[i] = config.LBTargets[j]
                          /\ config.LBTargets[i] \notin poolMembers
  OBVIOUS
<1>2. ~Fails
  BY <1>1 DEF Fails, CountsOK
<1>3. /\ AddPoolMember /\ config.LBTargets[next] \notin poolMembers
      /\ ~(Exists(poolName) /\ config.LBTargets[next] \notin pools[poolName])
  BY <1>1, <1>2
  DEF Next, vars, Begin, GetVirtualServer, EnsureNode, EnsurePool, ModifyPool,
      FindMembers, AddPoolMember, AssignPool, FindVirtualServer, UnassignPool,
      ListMembers, DeletePool, DeleteNode, Removed, BeginList, ListVirtualServers,
      ReadPool, EndList, Drift, Crash, Finish, Continue, Proceed, Answer, Swallows, RequestFails, ReturnError, ReturnOk, Progress
<1>4. /\ pc = "addMembers" /\ next \in DOMAIN config.LBTargets
      /\ op \in {"add", "update"} /\ config \in Configs
      /\ Exists(poolName) /\ pools[poolName] = poolMembers \cup Added
      /\ next \in 1..(Len(config.LBTargets) + 1)
  BY <1>1, <1>3 DEF AddPoolMember, Control, Progress, Adding
<1>5. config.LBTargets[next] \in Added
  BY <1>3, <1>4
<1>6. PICK i \in 1..(next - 1) : config.LBTargets[i] = config.LBTargets[next]
  BY <1>5 DEF Added
<1>7. i \in DOMAIN config.LBTargets /\ i # next
  BY <1>4, ConfigTypes
<1> QED
  BY <1>3, <1>4, <1>6, <1>7

-----------------------------------------------------------------------------
(* Theorems.                                                               *)

(* The invariant that the results below rest on: where a call of           *)
(* AddLBConfig or RemoveLBConfig is (f5_bigip.go:66-255) decides what is   *)
(* on the device for it.                                                   *)
THEOREM InductiveInvariant == Spec => []IInv
<1>1. Init => IInv
  BY InitInv
<1>2. IInv /\ [Next]_vars => IInv'
  BY NextInv
<1> QED
  BY <1>1, <1>2, PTL DEF Spec

(* Pools hold targets, a virtual server has a pool that is there, and      *)
(* every variable of the calls (f5_bigip.go:66-255) keeps its type.        *)
THEOREM TypeCorrect == Spec => []TypeOK
<1>1. IInv => TypeOK
  BY DEF IInv
<1> QED
  BY <1>1, InductiveInvariant, PTL

(* Without failures and edits no node is without a member between calls    *)
(* (f5_bigip.go:74-97, 205-234), unless a configuration repeats a target   *)
(* before one on a host of its own.                                        *)
THEOREM NodesDoNotLeak == Spec => []NoNodeLeaks
<1>1. IInv => NoNodeLeaks
  <2> SUFFICES ASSUME IInv, pc = "idle", failures = 0, edits = 0, RepeatsHideNoHost
               PROVE  nodes = NodesInUse
    BY DEF NoNodeLeaks
  <2> QED
    BY DEF IInv, NodesKept, NodesTight, Adding
<1> QED
  BY <1>1, InductiveInvariant, PTL

(* A call that returns without an error has achieved what it is for        *)
(* (f5_bigip.go:66-145, 185-255), if no operator edits the device          *)
(* meanwhile.                                                              *)
THEOREM CallsAchieve == Spec => CallAchieves
<1>1. ASSUME IInv, [Next]_vars
      PROVE  [/\ Returns({"remove"}) => vsPool'[lbName] = NoPool
              /\ Returns({"add", "update"}) /\ lbName \in LBs =>
                    /\ vsPool'[lbName] = poolName
                    /\ Range(config.LBTargets) \subseteq pools'[poolName]]_vars
  BY <1>1, AchievesStep
<1> QED
  BY <1>1, InductiveInvariant, PTL DEF Spec, CallAchieves

(* An update leaves no other members in the pool (f5_bigip.go:240-255),    *)
(* unless it passed over an error or another virtual server has the pool.  *)
THEOREM UpdatesAreExact == Spec => UpdateIsExact
<1>1. ASSUME IInv, [Next]_vars
      PROVE  [Returns({"update"}) /\ ~swallowed =>
                 \/ \E l \in LBs \ {lbName} : vsPool[l] = poolName
                 \/ pools'[poolName] = Range(config.LBTargets)]_vars
  BY <1>1, ExactStep
<1> QED
  BY <1>1, InductiveInvariant, PTL DEF Spec, UpdateIsExact

(* What earlier calls left on the device never makes a call fail           *)
(* (f5_bigip.go:74-129).                                                   *)
THEOREM RetriesGoThrough == Spec => RetriesSucceed
<1>1. ASSUME IInv, [Next]_vars
      PROVE  [pc # "idle" /\ pc' = "idle" /\ outcome' = "error" /\ ~disturbed =>
                 \/ failures' # failures
                 \/ /\ op \in {"add", "update"}
                    /\ \E i, j \in DOMAIN config.LBTargets :
                          /\ i # j /\ config.LBTargets[i] = config.LBTargets[j]
                          /\ config.LBTargets[i] \notin poolMembers]_vars
  BY <1>1, ErrorStep
<1> QED
  BY <1>1, InductiveInvariant, PTL DEF Spec, RetriesSucceed

=============================================================================
