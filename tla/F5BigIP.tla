------------------------------ MODULE F5BigIP ------------------------------
(***************************************************************************)
(* The provider for F5 BIG-IP (providers/f5), request by request.  On the  *)
(* device a virtual server has at most one pool, pools have members, and a *)
(* member sits on a node.  A configuration is added by building its pool   *)
(* and then assigning it, removed by unassigning and then dismantling it,  *)
(* and updated by removing and adding.                                     *)
(*                                                                         *)
(* A call is one the reconciliation loop makes on the ground of the last   *)
(* listing (external-lb.go:54-136), at most one for each endpoint.  A look *)
(* for a node or pool and its creation are one step: what comes between    *)
(* the two makes the creation fail like a failed request does.             *)
(*                                                                         *)
(* Targets are <<HostIP, Port>> pairs here.                                *)
(***************************************************************************)
EXTENDS LBConfig

CONSTANTS
    Endpoints,      \* names of virtual servers that configurations mention
    LBs,            \* those that exist
    ForeignTargets, \* what pools of others have for members
    NoPool, NoCall,
    MaxEdits,       \* bound on edits by operators
    MaxFailures     \* bound on failed requests and crashes

VARIABLES
    nodes,          \* the addresses that are nodes
    pools,          \* the members of each pool, NoPool if there is none
    vsPool,         \* the pool of each virtual server, or NoPool
    pc, op, lbName, config,
    poolName,       \* the pool the call is about
    next,           \* the iteration over config.LBTargets
    poolMembers,    \* members the call found in the pool
    outcome,        \* how the last call returned
    vServers,       \* GetLBConfigs: virtual servers and their pools
    todo,           \* GetLBConfigs: those it has not looked at
    lbConfigs,      \* GetLBConfigs: what it returns
    pass,           \* endpoints not called on since the last listing
    disturbed,      \* history: an operator edited the device during the call
    swallowed,      \* history: the call logged an error and went on
    edits, failures

device  == <<nodes, pools, vsPool>>
request == <<op, lbName, config, poolName>>
locals  == <<next, poolMembers>>
listing == <<vServers, todo, lbConfigs>>
vars    == <<device, pc, request, locals, outcome, listing, pass, disturbed,
             swallowed, edits, failures>>

ASSUME F5Assumption ==
    /\ LBs \subseteq Endpoints
    /\ ForeignTargets \subseteq Targets
    /\ Pools \subseteq OurPools => ForeignTargets = {}
    /\ \A t \in Targets : t = <<t[1], t[2]>>
    /\ NoPool \notin Pools
    /\ \A ts \in SUBSET Targets : ts # NoPool
    /\ NoCall \notin Endpoints
    /\ MaxEdits \in Nat /\ MaxFailures \in Nat

Hosts(targets) == {t[1] : t \in targets}

-----------------------------------------------------------------------------
(* The device.                                                             *)

Exists(p) == pools[p] # NoPool

NodeExists(host) == host \in nodes

(* Nodes with a member in some pool; the device does not delete them.      *)
NodesInUse == UNION {Hosts(pools[p]) : p \in {q \in Pools : Exists(q)}}

(* The device does not delete a pool a virtual server uses.                *)
Deletable(p) == Exists(p) /\ \A l \in LBs : vsPool[l] # p

TypeOK ==
    /\ nodes \subseteq Hosts(Targets)
    /\ pools \in [Pools -> (SUBSET Targets) \cup {NoPool}]
    /\ vsPool \in [LBs -> {p \in Pools : Exists(p)} \cup {NoPool}]
    /\ pc \in {"idle", "getVS", "nodes", "pool", "modify", "members",
               "addMembers", "patch", "findVS", "unassign", "listMembers",
               "deletePool", "deleteNodes", "virtuals", "read"}
    /\ op \in {"none", "list", "add", "update", "remove"}
    /\ lbName \in Endpoints \cup {NoCall}
    /\ config \in Configs \cup {NoConfig}
    /\ poolName \in Pools \cup {NoPool}
    /\ next \in Nat
    /\ poolMembers \subseteq Targets
    /\ outcome \in {"none", "ok", "error"}
    /\ vServers \in [LBs -> Pools \cup {NoPool}]
    /\ todo \subseteq {l \in LBs : vServers[l] # NoPool}
    /\ lbConfigs \in [LBs -> Carried \cup {NoConfig}]
    /\ pass \subseteq Endpoints
    /\ disturbed \in BOOLEAN
    /\ swallowed \in BOOLEAN
    /\ edits \in 0..MaxEdits
    /\ failures \in 0..MaxFailures

(* Virtual servers are created by operators, without a pool or with one    *)
(* that is not Rancher's.                                                  *)
Init ==
    /\ nodes = Hosts(ForeignTargets)
    /\ pools = [p \in Pools |-> IF p \in OurPools THEN NoPool ELSE ForeignTargets]
    /\ vsPool \in [LBs -> (Pools \ OurPools) \cup {NoPool}]
    /\ pc = "idle" /\ op = "none"
    /\ lbName = NoCall /\ config = NoConfig /\ poolName = NoPool
    /\ next = 1 /\ poolMembers = {}
    /\ outcome = "none"
    /\ vServers = [l \in LBs |-> NoPool] /\ todo = {}
    /\ lbConfigs = [l \in LBs |-> NoConfig]
    /\ pass = {}
    /\ disturbed = FALSE /\ swallowed = FALSE
    /\ edits = 0 /\ failures = 0

-----------------------------------------------------------------------------
(* How requests and calls end.                                             *)

Succeeds == failures' = failures
Fails == failures < MaxFailures /\ failures' = failures + 1

Continue(at, i, found) ==
    /\ pc' = at /\ next' = i /\ poolMembers' = found
    /\ UNCHANGED <<request, outcome, pass, disturbed>>

Proceed(at) == Continue(at, next, poolMembers) /\ UNCHANGED swallowed

(* The call returns; its local variables go.                               *)
Finish(result) ==
    /\ pc' = "idle"
    /\ outcome' = result
    /\ lbName' = NoCall /\ config' = NoConfig /\ poolName' = NoPool
    /\ next' = 1 /\ poolMembers' = {}
    /\ disturbed' = FALSE /\ swallowed' = FALSE
    /\ UNCHANGED op

ReturnOk    == Finish("ok") /\ UNCHANGED pass
ReturnError == Finish("error") /\ UNCHANGED pass

(* A request that fails ends the call.                                     *)
RequestFails == Fails /\ ReturnError

(* A request with an effect is answered, or its answer is lost.            *)
Answer(at, i) ==
    \/ Succeeds /\ Continue(at, i, poolMembers) /\ UNCHANGED swallowed
    \/ RequestFails

(* A request whose error is logged and passed over.                        *)
Swallows(at, found) == Fails /\ Continue(at, next, found) /\ swallowed' = TRUE

-----------------------------------------------------------------------------
(* The calls of the loop.                                                  *)

OnList(e) == e \in LBs /\ Ours(lbConfigs[e])

Begin ==
    /\ pc = "idle"
    /\ outcome' = "none"
    /\ \E e \in pass :
          /\ lbName' = e
          /\ pass' = pass \ {e}
          /\ \/ /\ ~OnList(e)
                /\ op' = "add" /\ config' \in Configs
                /\ poolName' = config'.LBTargetPoolName
                /\ pc' = "getVS"
             \/ /\ OnList(e)
                /\ op' = "update"
                /\ config' \in {c \in Configs : NeedsUpdate(c, lbConfigs[e])}
                /\ poolName' = config'.LBTargetPoolName
                /\ pc' = "findVS"
             \/ /\ OnList(e)
                /\ op' = "remove" /\ config' = NoConfig
                /\ poolName' = lbConfigs[e].LBTargetPoolName
                /\ pc' = "findVS"
    /\ UNCHANGED <<device, locals, listing, disturbed, swallowed, edits, failures>>

-----------------------------------------------------------------------------
(* AddLBConfig.                                                            *)

(* A virtual server that is not there is no error.                         *)
GetVirtualServer ==
    /\ pc = "getVS"
    /\ \/ lbName \in LBs /\ Succeeds /\ Proceed("nodes")
       \/ lbName \notin LBs /\ Succeeds /\ ReturnOk
       \/ RequestFails
    /\ UNCHANGED <<device, listing, edits>>

EnsureNode ==
    /\ pc = "nodes"
    /\ next \in DOMAIN config.LBTargets
    /\ LET node == config.LBTargets[next][1]
       IN \/ /\ NodeExists(node)
             /\ UNCHANGED nodes
             /\ Succeeds /\ Continue("nodes", next + 1, {}) /\ UNCHANGED swallowed
          \/ /\ ~NodeExists(node)
             /\ nodes' = nodes \cup {node}
             /\ Answer("nodes", next + 1)
          \/ UNCHANGED nodes /\ RequestFails
    /\ UNCHANGED <<pools, vsPool, listing, edits>>

EnsurePool ==
    /\ pc = "nodes"
    /\ next \notin DOMAIN config.LBTargets
    /\ \/ /\ Exists(poolName)
          /\ UNCHANGED pools
          /\ Succeeds /\ Proceed("modify")
       \/ /\ ~Exists(poolName)
          /\ pools' = [pools EXCEPT ![poolName] = {}]
          /\ Answer("modify", next)
       \/ UNCHANGED pools /\ RequestFails
    /\ UNCHANGED <<nodes, vsPool, listing, edits>>

(* The pool is read and written back with NAT allowed.  One that is gone   *)
(* is read as nil and ends the process.                                    *)
ModifyPool ==
    /\ pc = "modify"
    /\ \/ Exists(poolName) /\ Succeeds /\ Proceed("members")
       \/ ~Exists(poolName) /\ Succeeds /\ Finish("error") /\ pass' = {}
       \/ RequestFails
    /\ UNCHANGED <<device, listing, edits>>

(* A pool that is gone has no members.                                     *)
PoolMembers(p) == IF Exists(p) THEN pools[p] ELSE {}

FindMembers ==
    /\ pc = "members"
    /\ \/ /\ Succeeds
          /\ Continue("addMembers", 1, PoolMembers(poolName))
          /\ UNCHANGED swallowed
       \/ RequestFails
    /\ UNCHANGED <<device, listing, edits>>

(* Planted bug: a member that cannot be added is passed over.              *)
AddPoolMember_Swallowed ==
    /\ pc = "addMembers"
    /\ next \in DOMAIN config.LBTargets
    /\ \/ /\ Exists(poolName)
          /\ pools' = [pools EXCEPT ![poolName] = @ \cup {config.LBTargets[next]}]
          /\ nodes' = nodes \cup {config.LBTargets[next][1]}
          /\ Succeeds
       \/ UNCHANGED <<pools, nodes>> /\ Fails
    /\ Continue("addMembers", next + 1, poolMembers) /\ UNCHANGED swallowed
    /\ UNCHANGED <<vsPool, listing, edits>>

(* Planted bug: members are added without a look at what is there.         *)
AddPoolMember_Unchecked ==
    /\ pc = "addMembers"
    /\ next \in DOMAIN config.LBTargets
    /\ LET member == config.LBTargets[next]
           possible == Exists(poolName) /\ member \notin pools[poolName]
       IN \/ /\ possible
             /\ pools' = [pools EXCEPT ![poolName] = @ \cup {member}]
             /\ nodes' = nodes \cup {member[1]}
             /\ Answer("addMembers", next + 1)
          \/ /\ ~possible
             /\ UNCHANGED <<pools, nodes>>
             /\ Succeeds /\ ReturnError
    /\ UNCHANGED <<vsPool, listing, edits>>

(* The members that were not found are added one by one.  A member that is *)
(* in the pool all the same, added by an operator or wanted twice, and a   *)
(* pool that is gone, make the request fail.                               *)
AddPoolMember ==
    /\ pc = "addMembers"
    /\ next \in DOMAIN config.LBTargets
    /\ LET member == config.LBTargets[next]
           possible == Exists(poolName) /\ member \notin pools[poolName]
       IN \/ /\ member \in poolMembers
             /\ UNCHANGED <<pools, nodes>>
             /\ Succeeds
             /\ Continue("addMembers", next + 1, poolMembers)
             /\ UNCHANGED swallowed
          \/ /\ member \notin poolMembers
             /\ possible
             /\ pools' = [pools EXCEPT ![poolName] = @ \cup {member}]
             /\ nodes' = nodes \cup {member[1]}
             /\ Answer("addMembers", next + 1)
          \/ /\ member \notin poolMembers
             /\ UNCHANGED <<pools, nodes>>
             /\ (~possible /\ Succeeds /\ ReturnError) \/ RequestFails
    /\ UNCHANGED <<vsPool, listing, edits>>

(* PatchVirtualServer with the pool, the last request.                     *)
AssignPool ==
    /\ pc = "addMembers"
    /\ next \notin DOMAIN config.LBTargets
    /\ \/ /\ Exists(poolName)
          /\ vsPool' = [vsPool EXCEPT ![lbName] = poolName]
          /\ (Succeeds /\ ReturnOk) \/ RequestFails
       \/ ~Exists(poolName) /\ UNCHANGED vsPool /\ Succeeds /\ ReturnError
       \/ UNCHANGED vsPool /\ RequestFails
    /\ UNCHANGED <<nodes, pools, listing, edits>>

-----------------------------------------------------------------------------
(* RemoveLBConfig, which is also the first half of UpdateLBConfig.         *)

(* A virtual server that was listed is there.                              *)
FindVirtualServer ==
    /\ pc = "findVS"
    /\ (Succeeds /\ Proceed("unassign")) \/ RequestFails
    /\ UNCHANGED <<device, listing, edits>>

(* PatchVirtualServer with the pool "None".                                *)
UnassignPool ==
    /\ pc = "unassign"
    /\ \/ /\ vsPool' = [vsPool EXCEPT ![lbName] = NoPool]
          /\ Answer("listMembers", next)
       \/ UNCHANGED vsPool /\ RequestFails
    /\ UNCHANGED <<nodes, pools, listing, edits>>

(* Planted bug: the members are listed when the pool is gone already.      *)
ListMembers_TooLate ==
    /\ pc = "listMembers"
    /\ Succeeds /\ Continue("deletePool", next, {}) /\ UNCHANGED swallowed
    /\ UNCHANGED <<device, listing, edits>>

ListMembers ==
    /\ pc = "listMembers"
    /\ \/ /\ Succeeds
          /\ Continue("deletePool", next, PoolMembers(poolName))
          /\ UNCHANGED swallowed
       \/ Swallows("deletePool", {})
    /\ UNCHANGED <<device, listing, edits>>

(* Planted bug: an update leaves the pool in place.                        *)
DeletePool_Keeps ==
    /\ pc = "deletePool"
    /\ Succeeds /\ Proceed("deleteNodes")
    /\ UNCHANGED <<device, listing, edits>>

DeletePool ==
    /\ pc = "deletePool"
    /\ \/ /\ Deletable(poolName)
          /\ pools' = [pools EXCEPT ![poolName] = NoPool]
          /\ \/ Succeeds /\ Proceed("deleteNodes")
             \/ Swallows("deleteNodes", poolMembers)
       \/ /\ ~Deletable(poolName)
          /\ UNCHANGED pools
          /\ Succeeds /\ Proceed("deleteNodes")
       \/ UNCHANGED pools /\ Swallows("deleteNodes", poolMembers)
    /\ UNCHANGED <<nodes, vsPool, listing, edits>>

(* nodeExists and DeleteNode for one of the members; a node in use stays.  *)
DeleteNode ==
    /\ pc = "deleteNodes"
    /\ \E t \in poolMembers :
          \/ /\ nodes' = IF t[1] \in NodesInUse THEN nodes ELSE nodes \ {t[1]}
             /\ Succeeds
             /\ Continue("deleteNodes", next, poolMembers \ {t})
             /\ UNCHANGED swallowed
          \/ /\ nodes' = nodes
             /\ Swallows("deleteNodes", poolMembers \ {t})
    /\ UNCHANGED <<pools, vsPool, listing, edits>>

(* RemoveLBConfig returns, and UpdateLBConfig goes on with AddLBConfig.    *)
Removed ==
    /\ pc = "deleteNodes"
    /\ poolMembers = {}
    /\ Succeeds
    /\ IF op = "remove" THEN ReturnOk ELSE Proceed("getVS")
    /\ UNCHANGED <<device, listing, edits>>

-----------------------------------------------------------------------------
(* GetLBConfigs.                                                           *)

BeginList ==
    /\ pc = "idle"
    /\ op' = "list"
    /\ pc' = "virtuals"
    /\ outcome' = "none"
    /\ vServers' = [l \in LBs |-> NoPool] /\ todo' = {}
    /\ lbConfigs' = [l \in LBs |-> NoConfig]
    /\ pass' = {}
    /\ UNCHANGED <<device, lbName, config, poolName, locals, disturbed,
                   swallowed, edits, failures>>

(* Planted bug: virtual servers without a pool are not skipped.            *)
ListVirtualServers_All ==
    /\ pc = "virtuals"
    /\ vServers' = vsPool
    /\ todo' = LBs
    /\ Succeeds /\ Proceed("read")
    /\ UNCHANGED <<device, lbConfigs, edits>>

ListVirtualServers ==
    /\ pc = "virtuals"
    /\ \/ /\ vServers' = vsPool
          /\ todo' = {l \in LBs : vsPool[l] # NoPool}
          /\ Succeeds /\ Proceed("read")
       \/ RequestFails /\ UNCHANGED <<vServers, todo>>
    /\ UNCHANGED <<device, lbConfigs, edits>>

(* GetPool and PoolMembers of one virtual server.  If the first fails, the *)
(* virtual server is left out; if the second does, it has no members.  A   *)
(* pool that is gone ends the process.                                     *)
ReadPool ==
    /\ pc = "read"
    /\ \E l \in todo :
          LET Found(ts) ==
                 lbConfigs' = [lbConfigs EXCEPT ![l] =
                    [LBTargetPoolName |-> vServers[l], LBTargets |-> ts]]
          IN /\ todo' = todo \ {l}
             /\ \/ /\ Exists(vServers[l])
                   /\ \/ /\ Found(pools[vServers[l]])
                         /\ Succeeds /\ Proceed("read")
                      \/ Found({}) /\ Swallows("read", {})
                \/ UNCHANGED lbConfigs /\ Swallows("read", {})
                \/ /\ ~Exists(vServers[l])
                   /\ UNCHANGED lbConfigs
                   /\ Succeeds /\ Finish("error") /\ pass' = {}
    /\ UNCHANGED <<device, vServers, edits>>

(* The loop goes on with calls on the ground of what was returned.         *)
EndList ==
    /\ pc = "read"
    /\ todo = {}
    /\ Succeeds
    /\ Finish("ok")
    /\ pass' = Endpoints
    /\ UNCHANGED <<device, listing, edits>>

-----------------------------------------------------------------------------
(* The world around the provider.                                          *)

(* An operator adds or removes a member, gives a virtual server another    *)
(* pool or none, or deletes a pool that is not used.                       *)
Drift ==
    /\ edits < MaxEdits /\ edits' = edits + 1
    /\ \/ \E p \in Pools, t \in Targets :
             /\ Exists(p)
             /\ pools' = [pools EXCEPT ![p] = IF t \in @ THEN @ \ {t} ELSE @ \cup {t}]
             /\ nodes' = nodes \cup {t[1]}
             /\ UNCHANGED vsPool
       \/ \E l \in LBs, p \in {q \in Pools : Exists(q)} \cup {NoPool} :
             /\ p # vsPool[l]
             /\ vsPool' = [vsPool EXCEPT ![l] = p]
             /\ UNCHANGED <<nodes, pools>>
       \/ \E p \in Pools :
             /\ Deletable(p)
             /\ pools' = [pools EXCEPT ![p] = NoPool]
             /\ UNCHANGED <<nodes, vsPool>>
    /\ disturbed' = (pc # "idle")
    /\ UNCHANGED <<pc, request, locals, outcome, listing, pass, swallowed, failures>>

(* The process dies; the next one begins with a listing.                   *)
Crash ==
    /\ pc # "idle"
    /\ Fails
    /\ Finish("error")
    /\ pass' = {}
    /\ UNCHANGED <<device, listing, edits>>

Next ==
    \/ Begin
    \/ GetVirtualServer \/ EnsureNode \/ EnsurePool \/ ModifyPool
    \/ FindMembers \/ AddPoolMember \/ AssignPool
    \/ FindVirtualServer \/ UnassignPool \/ ListMembers \/ DeletePool
    \/ DeleteNode \/ Removed
    \/ BeginList \/ ListVirtualServers \/ ReadPool \/ EndList
    \/ Drift \/ Crash

Spec == Init /\ [][Next]_vars

-----------------------------------------------------------------------------
(* Properties.                                                             *)

(* The call in flight returns without an error in this step, and nobody    *)
(* else has edited the device since it began.                              *)
Returns(ops) ==
    /\ op \in ops
    /\ pc # "idle" /\ pc' = "idle"
    /\ outcome' = "ok"
    /\ ~disturbed

(* A call that returns without an error has left the virtual server        *)
(* without a pool, or with the wanted pool and all wanted members in it    *)
(* (f5_bigip.go:66-145, 185-255), whichever errors it has passed over and  *)
(* whatever earlier calls have left on the device.                         *)
CallAchieves ==
    [][/\ Returns({"remove"}) => vsPool'[lbName] = NoPool
       /\ Returns({"add", "update"}) /\ lbName \in LBs =>
             /\ vsPool'[lbName] = poolName
             /\ Range(config.LBTargets) \subseteq pools'[poolName]]_vars

(* An update that passed over no error has left no other members, since it *)
(* rebuilds the pool (f5_bigip.go:240-255), unless another virtual server  *)
(* kept the pool alive.                                                    *)
UpdateIsExact ==
    [][Returns({"update"}) /\ ~swallowed =>
          \/ \E l \in LBs \ {lbName} : vsPool[l] = poolName
          \/ pools'[poolName] = Range(config.LBTargets)]_vars

(* What earlier calls have left on the device, broken off anywhere, never  *)
(* makes a call fail (f5_bigip.go:74-129): it fails if one of its requests *)
(* fails on its own, or an operator edits the device meanwhile, or, since  *)
(* the members are listed before the loop of line 121, if the wanted list  *)
(* repeats a target that the pool did not have.                            *)
RetriesSucceed ==
    [][pc # "idle" /\ pc' = "idle" /\ outcome' = "error" /\ ~disturbed =>
          \/ failures' # failures
          \/ /\ op \in {"add", "update"}
             /\ \E i, j \in DOMAIN config.LBTargets :
                   /\ i # j /\ config.LBTargets[i] = config.LBTargets[j]
                   /\ config.LBTargets[i] \notin poolMembers]_vars

(* No target that follows a repeated one is on a host of its own.          *)
RepeatsHideNoHost ==
    \A c \in Configs : \A i, j, k \in DOMAIN c.LBTargets :
        i < j /\ j < k /\ c.LBTargets[i] = c.LBTargets[j] =>
            \E m \in 1..(j - 1) : c.LBTargets[m][1] = c.LBTargets[k][1]

(* Between calls every node has a member in some pool, as long as no       *)
(* request has failed and no operator edited the device: nodes go after    *)
(* the pool that uses them, and come before it (f5_bigip.go:74-97,         *)
(* 205-234).  A repeated target ends a call at its second occurrence, and  *)
(* the nodes made for later hosts would stay.                              *)
NoNodeLeaks ==
    pc = "idle" /\ failures = 0 /\ edits = 0 /\ RepeatsHideNoHost =>
        nodes = NodesInUse

-----------------------------------------------------------------------------
(* What the interface promises and this provider does not do.              *)

(* external_lb_provider.go:16: "AddLBConfig adds a new endpoint            *)
(* configuration."                                                         *)
AddIsExact ==
    [][Returns({"add"}) /\ lbName \in LBs =>
          pools'[poolName] = Range(config.LBTargets)]_vars

=============================================================================
