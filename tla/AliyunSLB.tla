----------------------------- MODULE AliyunSLB -----------------------------
(***************************************************************************)
(* The provider for Aliyun's load balancers (providers/aliyunslb/slb.go),  *)
(* request by request.  An endpoint is the id of a load balancer to the    *)
(* calls and its name to GetLBConfigs, and the calls find balancers of any *)
(* network where GetLBConfigs asks for those of one.  The service's        *)
(* bookkeeping is three tags of each balancer, written in one request; its *)
(* targets are the ECS instances among its backend servers.  A request for *)
(* instances is answered by the first page of them, and the code asks for  *)
(* no other.                                                               *)
(*                                                                         *)
(* Targets are <<HostIP, Port>> pairs here.                                *)
(***************************************************************************)
EXTENDS LBConfig, SequencesExt

CONSTANTS
    Endpoints,      \* what configurations may name: ids, names, neither
    LBs,            \* ids of the load balancers that exist
    NetworkLBs,     \* those of the network that a listing asks for: the
                    \* service's VPC, or the classic network
    LoadBalancerName,
    ListenerPorts,  \* ListenerPorts[l]: the ports l listens on
    Instances,      \* ECS instances, of the network the service looks into
    Address,        \* the address an instance is looked up by
    ListedAddress,  \* the first address of it that a listing reads
    NoAddress, NoTag, NoCall,
    PageSize,       \* instances in a page
    MaxEdits,       \* bound on edits by operators
    MaxFailures     \* bound on failed requests and crashes

VARIABLES
    servers,        \* backend servers of each balancer
    tags,           \* its three tags
    pc, op, lbId, config,
    ecsInstanceIds,         \* instances the call is to leave registered
    registeredInstanceIds,  \* instances it found registered
    outcome,        \* how the last call returned
    todo,           \* GetLBConfigs: balancers it has not read
    reading,        \* GetLBConfigs: the one whose instances it looks up
    lbConfigs,      \* what the last GetLBConfigs returned, by name
    disturbed,      \* history: an operator edited lbId during the call, or
                    \* any balancer during a listing
    edits, failures

aliyun  == <<servers, tags>>
request == <<op, lbId, config>>
listing == <<todo, reading, lbConfigs>>
vars    == <<aliyun, pc, request, ecsInstanceIds, registeredInstanceIds,
             outcome, listing, disturbed, edits, failures>>

(* The service looks for one kind of instance address; NoCall and NoTag    *)
(* are none of the values they stand beside.                               *)
ASSUME SlbAssumption ==
    /\ LBs \subseteq Endpoints /\ NetworkLBs \subseteq LBs
    /\ LoadBalancerName \in [LBs -> Endpoints]
    /\ ListenerPorts \in [LBs -> SUBSET Ports]
    /\ IsFiniteSet(Instances)
    /\ \A t \in Targets : t = <<t[1], t[2]>>
    /\ \A i \in Instances, p \in Ports :
          <<Address[i], p>> \in Targets /\ <<ListedAddress[i], p>> \in Targets
    /\ \A c \in Configs : \A t \in Range(c.LBTargets) :
          t[1] # NoAddress /\ t[2] = c.LBTargetPort
    /\ NoTag \notin Pools \cup Ports
    /\ NoCall \notin Endpoints
    /\ NoCall \notin [endpoint : Endpoints, new : Carried \cup {NoConfig},
                      disturbed : BOOLEAN]
    /\ PageSize \in Nat \ {0} /\ MaxEdits \in Nat /\ MaxFailures \in Nat

-----------------------------------------------------------------------------

(* DescribeInstances: some page of the instances, always the same.         *)
FirstPage(ids) ==
    IF Cardinality(ids) <= PageSize THEN ids
    ELSE CHOOSE page \in SUBSET ids : Cardinality(page) = PageSize

(* Planted bug: the list is cut to a page, and then repeats are removed.    *)
getECSInstances_CutFirst(c) ==
    {i \in Instances : \E n \in DOMAIN c.LBTargets :
        n <= PageSize /\ Address[i] = c.LBTargets[n][1]}

(* getECSInstances: an address without an instance is dropped, and so is   *)
(* one whose instance is on a later page.                                  *)
getECSInstances(c) ==
    FirstPage({i \in Instances : \E t \in Range(c.LBTargets) : Address[i] = t[1]})

NoTags == [pool |-> NoTag, port |-> NoTag, flag |-> FALSE]

getLBTags(c) == [pool |-> c.LBTargetPoolName, port |-> c.LBTargetPort, flag |-> TRUE]

(* What tags and backend servers say, the servers by the addresses that    *)
(* targets name them by.                                                   *)
Serves(t, ids) ==
    [LBTargetPoolName |-> t.pool,
     LBTargets        |-> {<<Address[i], t.port>> : i \in ids}]

(* The configuration l carries, in whichever network it is.                *)
Carries(l) == IF tags[l].flag THEN Serves(tags[l], servers[l]) ELSE NoConfig

(* lbConfig as GetLBConfigs builds it from tags and instances.             *)
Report(t, ids) ==
    [LBTargetPoolName |-> t.pool,
     LBTargets        |-> {<<ListedAddress[i], t.port>> : i \in FirstPage(ids)}]

(* The balancers GetLBConfigs would report under the name e now, and what  *)
(* it would report of one of them.                                         *)
Listed(e) == {l \in NetworkLBs : tags[l].flag /\ LoadBalancerName[l] = e}

Reported(l) == Report(tags[l], servers[l])

(* The part of each configuration that the lookup of its addresses leaves; *)
(* the order of its targets does not matter any more.                      *)
Served == [c \in Configs |->
    LET found == {Address[i] : i \in getECSInstances(c)}
    IN [c EXCEPT !.LBTargets = SetToSeq({t \in Range(@) : t[1] \in found})]]

(* What the call in flight is to leave.                                    *)
Goal == IF op = "remove" THEN NoConfig ELSE Carry(Served[config])

(* Only what carries a pool name is listed; the port outlives it.          *)
TypeOK ==
    /\ servers \in [LBs -> SUBSET Instances]
    /\ tags \in [LBs -> [pool : Pools \cup {NoTag}, port : Ports \cup {NoTag},
                         flag : BOOLEAN]]
    /\ \A l \in LBs : tags[l].flag => tags[l].pool # NoTag /\ tags[l].port # NoTag
    /\ pc \in {"idle", "describe", "listeners", "lookup", "health", "register",
               "deregister", "tag", "untag", "balancers", "read", "status",
               "instances"}
    /\ op \in {"none", "list", "put", "remove"}
    /\ lbId \in Endpoints \cup {NoCall}
    /\ config \in Configs \cup Carried \cup {NoConfig}
    /\ ecsInstanceIds \subseteq Instances
    /\ registeredInstanceIds \subseteq Instances
    /\ outcome \in {"none", "ok", "error"}
    /\ todo \subseteq NetworkLBs
    /\ reading \in todo \cup {NoCall}
    /\ lbConfigs \in [Endpoints -> Carried \cup {NoConfig}]
    /\ disturbed \in BOOLEAN
    /\ edits \in 0..MaxEdits
    /\ failures \in 0..MaxFailures

(* Load balancers are created by operators, without tags.                  *)
Init ==
    /\ servers = [l \in LBs |-> {}]
    /\ tags = [l \in LBs |-> NoTags]
    /\ pc = "idle" /\ op = "none"
    /\ lbId = NoCall /\ config = NoConfig
    /\ ecsInstanceIds = {} /\ registeredInstanceIds = {}
    /\ outcome = "none"
    /\ todo = {} /\ reading = NoCall
    /\ lbConfigs = [e \in Endpoints |-> NoConfig]
    /\ disturbed = FALSE
    /\ edits = 0 /\ failures = 0

-----------------------------------------------------------------------------
(* How requests and calls end.                                             *)

Succeeds == failures' = failures
Fails == failures < MaxFailures /\ failures' = failures + 1

Proceed(next) ==
    /\ pc' = next
    /\ UNCHANGED <<request, outcome, disturbed>>

(* The call returns; its local variables go.                               *)
Finish(result) ==
    /\ pc' = "idle"
    /\ outcome' = result
    /\ lbId' = NoCall /\ config' = NoConfig /\ disturbed' = FALSE
    /\ UNCHANGED op

ReturnOk == Finish("ok")

ReturnError == Finish("error")

RequestFails == Fails /\ ReturnError

(* A request that changes something has its effect and is answered, or it  *)
(* fails, with its effect or without.                                      *)
Answer(next) == (Succeeds /\ Proceed(next)) \/ RequestFails

-----------------------------------------------------------------------------
(* AddLBConfig and UpdateLBConfig, which make the same requests and are    *)
(* both op = "put", and RemoveLBConfig.                                    *)

(* The configuration to be removed is one that was listed, under its name. *)
Begin ==
    /\ pc = "idle"
    /\ \E e \in Endpoints :
          /\ lbId' = e
          /\ \/ op' = "put" /\ config' \in Configs
             \/ /\ op' = "remove"
                /\ lbConfigs[e] # NoConfig
                /\ config' = lbConfigs[e]
    /\ pc' = "describe"
    /\ ecsInstanceIds' = {} /\ registeredInstanceIds' = {}
    /\ outcome' = "none"
    /\ UNCHANGED <<aliyun, listing, disturbed, edits, failures>>

(* getLoadBalancerById                                                     *)
Describe ==
    /\ pc = "describe"
    /\ \/ /\ lbId \in LBs
          /\ Answer(IF op = "remove" THEN "health" ELSE "listeners")
       \/ lbId \notin LBs /\ Succeeds /\ ReturnError
       \/ lbId \notin LBs /\ RequestFails
    /\ UNCHANGED <<aliyun, ecsInstanceIds, registeredInstanceIds, listing, edits>>

(* An error in looking at the listeners counts as no listener.             *)
checkListenersInstancePort ==
    /\ pc = "listeners"
    /\ \/ config.LBTargetPort \in ListenerPorts[lbId] /\ Answer("lookup")
       \/ config.LBTargetPort \notin ListenerPorts[lbId] /\ Succeeds /\ ReturnError
    /\ UNCHANGED <<aliyun, ecsInstanceIds, registeredInstanceIds, listing, edits>>

Lookup ==
    /\ pc = "lookup"
    /\ \/ /\ ecsInstanceIds' = getECSInstances(config)
          /\ Succeeds
          /\ Proceed("health")
       \/ config.LBTargets # <<>> /\ RequestFails /\ UNCHANGED ecsInstanceIds
    /\ UNCHANGED <<aliyun, registeredInstanceIds, listing, edits>>

Health ==
    /\ pc = "health"
    /\ \/ /\ registeredInstanceIds' = servers[lbId]
          /\ Succeeds
          /\ Proceed("register")
       \/ RequestFails /\ UNCHANGED registeredInstanceIds
    /\ UNCHANGED <<aliyun, ecsInstanceIds, listing, edits>>

ChangeServers(new, next) ==
    /\ servers' = [servers EXCEPT ![lbId] = new]
    /\ IF new = servers[lbId] THEN Succeeds /\ Proceed(next) ELSE Answer(next)

(* Planted bug: the instances are swapped in the wrong order.              *)
Register_RemoveFirst ==
    /\ pc = "register"
    /\ ChangeServers(servers[lbId] \ (registeredInstanceIds \ ecsInstanceIds),
                     "deregister")
    /\ UNCHANGED <<tags, ecsInstanceIds, registeredInstanceIds, listing, edits>>

(* ensureBackendInstances: what is missing is registered ...               *)
Register ==
    /\ pc = "register"
    /\ LET toRegister == ecsInstanceIds \ registeredInstanceIds
       IN \/ ChangeServers(servers[lbId] \cup toRegister, "deregister")
          \/ toRegister # {} /\ RequestFails /\ UNCHANGED servers
    /\ UNCHANGED <<tags, ecsInstanceIds, registeredInstanceIds, listing, edits>>

(* Planted bug: the arguments of differenceStringSlice are swapped.        *)
Deregister_Swapped ==
    /\ pc = "deregister"
    /\ ChangeServers(servers[lbId] \ (ecsInstanceIds \ registeredInstanceIds),
                     IF op = "remove" THEN "untag" ELSE "tag")
    /\ UNCHANGED <<tags, ecsInstanceIds, registeredInstanceIds, listing, edits>>

(* ... before what is superfluous is deregistered.                         *)
Deregister ==
    /\ pc = "deregister"
    /\ LET toDeregister == registeredInstanceIds \ ecsInstanceIds
       IN \/ ChangeServers(servers[lbId] \ toDeregister,
                           IF op = "remove" THEN "untag" ELSE "tag")
          \/ toDeregister # {} /\ RequestFails /\ UNCHANGED servers
    /\ UNCHANGED <<tags, ecsInstanceIds, registeredInstanceIds, listing, edits>>

(* The last request of a call writes its tags.                             *)
WriteTags(new) ==
    /\ \/ /\ tags' = [tags EXCEPT ![lbId] = new]
          /\ (Succeeds /\ ReturnOk) \/ RequestFails
       \/ UNCHANGED tags /\ RequestFails
    /\ UNCHANGED <<servers, ecsInstanceIds, registeredInstanceIds, listing, edits>>

AddTags == pc = "tag" /\ WriteTags(getLBTags(config))

(* Planted bug: the flag is not removed with the other tags.               *)
RemoveTags_FlagKept ==
    pc = "untag" /\ WriteTags([NoTags EXCEPT !.flag = TRUE])

(* RemoveTags removes tags by key and value, and the configuration of a    *)
(* listing has no port: its tag stays behind.                              *)
RemoveTags ==
    /\ pc = "untag"
    /\ WriteTags([pool |-> IF tags[lbId].pool = config.LBTargetPoolName
                           THEN NoTag ELSE tags[lbId].pool,
                  port |-> tags[lbId].port,
                  flag |-> FALSE])

-----------------------------------------------------------------------------
(* GetLBConfigs.                                                           *)

(* GetLBConfigs has read nothing yet.                                      *)
ListingReset ==
    /\ todo' = {} /\ reading' = NoCall
    /\ lbConfigs' = [e \in Endpoints |-> NoConfig]

(* What it has read is lost with an error.                                 *)
ListFails == RequestFails /\ ListingReset

BeginList ==
    /\ pc = "idle"
    /\ op' = "list" /\ pc' = "balancers"
    /\ outcome' = "none"
    /\ ecsInstanceIds' = {} /\ registeredInstanceIds' = {}
    /\ ListingReset
    /\ UNCHANGED <<aliyun, lbId, config, disturbed, edits, failures>>

(* Planted bug: the network is not asked for.                              *)
DescribeLoadBalancers_AnyNetwork ==
    /\ pc = "balancers"
    /\ todo' = LBs
    /\ Succeeds /\ Proceed("read")
    /\ UNCHANGED <<aliyun, reading, lbConfigs, ecsInstanceIds,
                   registeredInstanceIds, edits>>

(* The balancers with the NetworkType and VpcId of the service.            *)
DescribeLoadBalancers ==
    /\ pc = "balancers"
    /\ \/ /\ todo' = NetworkLBs
          /\ Succeeds
          /\ IF NetworkLBs = {} THEN ReturnOk ELSE Proceed("read")
          /\ UNCHANGED <<reading, lbConfigs>>
       \/ ListFails
    /\ UNCHANGED <<aliyun, ecsInstanceIds, registeredInstanceIds, edits>>

(* The tags of the next balancer, which is skipped without the flag.       *)
(* Nobody but the service writes them.                                     *)
DescribeTags ==
    /\ pc = "read"
    /\ \E l \in todo :
          \/ /\ ~tags[l].flag
             /\ todo' = todo \ {l}
             /\ Succeeds /\ Proceed("read")
             /\ UNCHANGED <<reading, lbConfigs>>
          \/ /\ tags[l].flag
             /\ reading' = l
             /\ Succeeds /\ Proceed("status")
             /\ UNCHANGED <<todo, lbConfigs>>
          \/ ListFails
    /\ UNCHANGED <<aliyun, ecsInstanceIds, registeredInstanceIds, edits>>

(* The balancer is added to the answer, under its name.  Of two of one     *)
(* name the loop's map keeps the later (external-lb.go:43-49).             *)
AppendConfig(ids) ==
    /\ lbConfigs' = [lbConfigs EXCEPT ![LoadBalancerName[reading]] =
                        Report(tags[reading], ids)]
    /\ todo' = todo \ {reading}
    /\ reading' = NoCall

(* Its backend servers: none ...                                           *)
DescribeHealthStatus ==
    /\ pc = "status"
    /\ \/ /\ registeredInstanceIds' = servers[reading]
          /\ Succeeds
          /\ IF registeredInstanceIds' = {}
             THEN AppendConfig({}) /\ Proceed("read")
             ELSE UNCHANGED listing /\ Proceed("instances")
       \/ ListFails /\ UNCHANGED registeredInstanceIds
    /\ UNCHANGED <<aliyun, ecsInstanceIds, edits>>

(* ... or some, whose addresses are asked for.  An instance without an     *)
(* address of the kind panics the process.                                 *)
DescribeInstances ==
    /\ pc = "instances"
    /\ LET addressed == \A i \in FirstPage(registeredInstanceIds) :
                            ListedAddress[i] # NoAddress
       IN \/ addressed /\ AppendConfig(registeredInstanceIds)
             /\ Succeeds /\ Proceed("read")
          \/ ~addressed /\ Succeeds /\ ReturnError /\ ListingReset
          \/ ListFails
    /\ UNCHANGED <<aliyun, ecsInstanceIds, registeredInstanceIds, edits>>

EndList ==
    /\ pc = "read"
    /\ todo = {}
    /\ ReturnOk
    /\ UNCHANGED <<aliyun, ecsInstanceIds, registeredInstanceIds, listing, edits,
                   failures>>

-----------------------------------------------------------------------------
(* The world around the provider.                                          *)

(* An operator adds or removes a backend server.                           *)
Drift ==
    /\ edits < MaxEdits /\ edits' = edits + 1
    /\ \E l \in LBs, i \in Instances :
          /\ servers' = [servers EXCEPT ![l] =
                            IF i \in @ THEN @ \ {i} ELSE @ \cup {i}]
          /\ disturbed' = (disturbed \/ lbId = l \/ (op = "list" /\ pc # "idle"))
    /\ UNCHANGED <<tags, pc, request, ecsInstanceIds, registeredInstanceIds,
                   outcome, listing, failures>>

(* The process dies; the next one has no listing and makes its own calls.  *)
Crash ==
    /\ pc # "idle"
    /\ ListFails
    /\ UNCHANGED <<aliyun, ecsInstanceIds, registeredInstanceIds, edits>>

Next ==
    \/ Begin \/ Describe \/ checkListenersInstancePort \/ Lookup \/ Health
    \/ Register \/ Deregister \/ AddTags \/ RemoveTags
    \/ BeginList \/ DescribeLoadBalancers \/ DescribeTags
    \/ DescribeHealthStatus \/ DescribeInstances \/ EndList
    \/ Drift \/ Crash

Spec == Init /\ [][Next]_vars

-----------------------------------------------------------------------------
(* Properties.                                                             *)

Returns(ops, result) == pc # "idle" /\ pc' = "idle" /\ outcome' = result /\ op \in ops

(* The calls keep what the loop relies on, for the part of a configuration *)
(* whose addresses are found: a balancer of whichever network carries it   *)
(* after success, and one of the two pool names or none after failure      *)
(* (slb.go:102-202).  What a listing makes of it is said by ListsNetwork.   *)
P == INSTANCE LBProvider WITH
       Configs <- Range(Served),
       lb      <- [l \in LBs |-> Carries(l)],
       call    <- IF pc = "idle" \/ op = "list" THEN NoCall
                  ELSE [endpoint |-> lbId, new |-> Goal, disturbed |-> disturbed]

ImplementsProvider == P!Spec

(* A configuration whose addresses fit a page is served whole, also when   *)
(* it repeats addresses (slb.go:374-404).                                  *)
FitsOnPage(c) ==
    /\ Cardinality({t[1] : t \in Range(c.LBTargets)}) <= PageSize
    /\ \A t \in Range(c.LBTargets) : \E i \in Instances : Address[i] = t[1]

ServedWhole ==
    [][Returns({"put"}, "ok") /\ ~disturbed /\ FitsOnPage(config)
          => tags'[lbId].flag /\ Serves(tags'[lbId], servers'[lbId]) = Carry(config)]_vars

(* A listing that is returned reports the flagged balancers of the network *)
(* under their names, all of them and as they are, and no other, although  *)
(* the calls fill and flag balancers of any network (slb.go:209-217, 235-  *)
(* 303, 309-323).  One that is left out is taken for one to be added, in   *)
(* every pass, and none to be removed.                                     *)
ListsNetwork ==
    [][Returns({"list"}, "ok") => \A e \in Endpoints :
          /\ lbConfigs'[e] # NoConfig <=> Listed(e) # {}
          /\ Listed(e) # {} /\ ~disturbed =>
                \E l \in Listed(e) : lbConfigs'[e] = Reported(l)]_vars

(* A balancer that serves keeps serving while its instances are replaced   *)
(* (slb.go:340-362: add, then remove).                                     *)
NeverEmptied ==
    [][\A l \in LBs : servers[l] # {} /\ servers'[l] = {}
          => \/ edits' # edits
             \/ disturbed
             \/ op = "remove"
             \/ ecsInstanceIds = {}]_vars

-----------------------------------------------------------------------------
(* What the interface promises and this provider does not do.              *)

(* external_lb_provider.go:22: "RemoveLBConfig removes the specified       *)
(* endpoint configuration.", for those that GetLBConfigs has specified.    *)
ListedCanBeRemoved == [][Returns({"remove"}, "error") => failures' # failures]_vars

=============================================================================
