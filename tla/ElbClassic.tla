----------------------------- MODULE ElbClassic -----------------------------
(***************************************************************************)
(* The provider for AWS Classic Load Balancers (providers/elbv1), request  *)
(* by request.  The service's bookkeeping lives in two tags of each load   *)
(* balancer and its targets are the EC2 instances registered with it, so   *)
(* no call is atomic: it stops half-way when a request fails, when the     *)
(* answer to a request that took effect is lost, or when the process dies. *)
(*                                                                         *)
(* Targets are <<HostIP, Port>> pairs here.                                *)
(***************************************************************************)
EXTENDS LBConfig, SequencesExt

CONSTANTS
    Endpoints,      \* names of load balancers that configurations mention
    LBs,            \* load balancers that exist
    FirstPage,      \* those DescribeLoadBalancers answers, in its order, when
                    \* it is asked for no names: its first page
    ListenerPorts,  \* ListenerPorts[l]: the instance ports of l's listeners
    Instances,      \* EC2 instances
    Address,        \* Address[i]: the address of i, NoAddress if it has none
    InVpc,          \* the instances in the VPC the service looks into
    NoAddress, NoTag, NoCall,
    ChunkSize,      \* load balancers in a request for tags
    MaxEdits,       \* bound on edits by operators
    MaxFailures     \* bound on failed requests and crashes

VARIABLES
    registered,     \* instances registered with each load balancer
    draining,       \* instances whose deregistration is in progress
    poolTag,        \* tag external-lb/targetPoolName
    portTag,        \* tag external-lb/servicePort
    pc, op, lbName, config,
    instanceIds,            \* instances the call is to leave registered
    registeredInstanceIds,  \* instances it found registered
    outcome,                \* how the last call returned
    asked,          \* GetLBConfigs: the requests for tags it has made
    lbTags,         \* GetLBConfigs: the tagged balancers it found
    todo,           \* GetLBConfigs: those whose instances it has not read
    reading,        \* GetLBConfigs: the one whose instances it looks up
    lbConfigs,      \* GetLBConfigs: what it returns
    disturbed,      \* history: an operator edited lbName during the call
    mishaps,        \* history: balancers edited, or left by a failed call,
                    \* with no undisturbed successful call since
    edits, failures

aws     == <<registered, draining, poolTag, portTag>>
request == <<op, lbName, config>>
listing == <<asked, lbTags, todo, reading, lbConfigs>>
vars    == <<aws, pc, request, instanceIds, registeredInstanceIds, outcome,
             listing, disturbed, mishaps, edits, failures>>

(* NoCall and NoTag are values of their own.                               *)
ASSUME ElbAssumption ==
    /\ FirstPage \in Seq(LBs)
    /\ ListenerPorts \in [LBs -> SUBSET Ports]
    /\ InVpc \subseteq Instances
    /\ \A t \in Targets : t = <<t[1], t[2]>>
    /\ \A i \in Instances, p \in Ports : <<Address[i], p>> \in Targets
    /\ \A c \in Configs : \A t \in Range(c.LBTargets) :
          t[1] # NoAddress /\ t[2] = c.LBTargetPort
    /\ NoTag \notin Pools \cup Ports
    /\ NoCall \notin Endpoints \cup LBs
    /\ NoCall \notin [endpoint : Endpoints, new : Carried \cup {NoConfig},
                      disturbed : BOOLEAN]
    /\ ChunkSize \in Nat \ {0}
    /\ MaxEdits \in Nat /\ MaxFailures \in Nat

-----------------------------------------------------------------------------

(* lbConfig as GetLBConfigs builds it from tags and instances.             *)
Report(pool, port, instances) ==
    [LBTargetPoolName |-> pool,
     LBTargets        |-> {<<Address[i], port>> : i \in instances}]

Tagged(l) == poolTag[l] # NoTag /\ portTag[l] # NoTag

(* The configuration l carries: what its tags and instances say.           *)
Carries(l) ==
    IF Tagged(l) THEN Report(poolTag[l], portTag[l], registered[l]) ELSE NoConfig

(* What GetLBConfigs would report of l now: nothing beyond the first page. *)
Reported(l) == IF l \in Range(FirstPage) THEN Carries(l) ELSE NoConfig

(* getEC2Instances: an address without an instance in the VPC is dropped.  *)
LookupInstancesByIPAddress(c) ==
    {i \in InVpc : \E t \in Range(c.LBTargets) : Address[i] = t[1]}

(* The part of each configuration that the lookup of its addresses leaves; *)
(* the order of its targets does not matter any more.                      *)
Served == [c \in Configs |->
    LET found == {Address[i] : i \in LookupInstancesByIPAddress(c)}
    IN [c EXCEPT !.LBTargets = SetToSeq({t \in Range(@) : t[1] \in found})]]

(* What the call in flight is to leave.                                    *)
Goal == IF op = "remove" THEN NoConfig ELSE Carry(Served[config])

(* Planted bug: the end of a chunk is taken for included.                  *)
dividedNames_ShortChunks(names, chunkSize) ==
    [k \in 1..((Len(names) + chunkSize - 1) \div chunkSize) |->
        SubSeq(names, (k - 1) * chunkSize + 1,
               IF k * chunkSize > Len(names) THEN Len(names)
               ELSE k * chunkSize - 1)]

(* findLBTags: names[i:end] for i = 0, chunkSize, 2 * chunkSize, ...       *)
dividedNames(names, chunkSize) ==
    [k \in 1..((Len(names) + chunkSize - 1) \div chunkSize) |->
        SubSeq(names, (k - 1) * chunkSize + 1,
               IF k * chunkSize > Len(names) THEN Len(names)
               ELSE k * chunkSize)]

(* The requests for tags of a listing.                                     *)
TagRequests == dividedNames(FirstPage, ChunkSize)

TypeOK ==
    /\ registered \in [LBs -> SUBSET Instances]
    /\ draining \in [LBs -> SUBSET Instances]
    /\ poolTag \in [LBs -> Pools \cup {NoTag}]
    /\ portTag \in [LBs -> Ports \cup {NoTag}]
    /\ pc \in {"idle", "describe", "lookup", "health", "register",
               "deregister", "tag", "untagPool", "untagPort",
               "balancers", "tags", "read", "instances"}
    /\ op \in {"none", "list", "put", "remove"}
    /\ lbName \in Endpoints \cup {NoCall}
    /\ config \in Configs \cup {NoConfig}
    /\ instanceIds \subseteq Instances
    /\ registeredInstanceIds \subseteq Instances
    /\ outcome \in {"none", "ok", "error"}
    /\ asked \in 0..Len(TagRequests)
    /\ lbTags \subseteq LBs
    /\ todo \subseteq lbTags
    /\ reading \in todo \cup {NoCall}
    /\ lbConfigs \in [LBs -> Carried \cup {NoConfig}]
    /\ disturbed \in BOOLEAN
    /\ mishaps \subseteq LBs
    /\ edits \in 0..MaxEdits
    /\ failures \in 0..MaxFailures

(* Load balancers are created by operators, without tags.                  *)
Init ==
    /\ registered = [l \in LBs |-> {}]
    /\ draining = [l \in LBs |-> {}]
    /\ poolTag = [l \in LBs |-> NoTag]
    /\ portTag = [l \in LBs |-> NoTag]
    /\ pc = "idle" /\ op = "none"
    /\ lbName = NoCall /\ config = NoConfig
    /\ instanceIds = {} /\ registeredInstanceIds = {}
    /\ outcome = "none"
    /\ asked = 0 /\ lbTags = {} /\ todo = {} /\ reading = NoCall
    /\ lbConfigs = [l \in LBs |-> NoConfig]
    /\ disturbed = FALSE
    /\ mishaps = {}
    /\ edits = 0 /\ failures = 0

-----------------------------------------------------------------------------
(* How requests and calls end.                                             *)

Succeeds == failures' = failures
Fails == failures < MaxFailures /\ failures' = failures + 1

Proceed(next) ==
    /\ pc' = next
    /\ UNCHANGED <<request, outcome, disturbed, mishaps>>

(* GetLBConfigs has asked for nothing yet.                                 *)
ListingReset ==
    /\ asked' = 0 /\ lbTags' = {} /\ todo' = {} /\ reading' = NoCall
    /\ lbConfigs' = [l \in LBs |-> NoConfig]

(* The call returns; its local variables go.                               *)
Finish(result) ==
    /\ pc' = "idle"
    /\ outcome' = result
    /\ lbName' = NoCall /\ config' = NoConfig /\ disturbed' = FALSE
    /\ UNCHANGED op

ReturnOk ==
    /\ Finish("ok")
    /\ mishaps' = IF disturbed THEN mishaps ELSE mishaps \ {lbName}

ReturnError ==
    /\ Finish("error")
    /\ mishaps' = mishaps \cup ({lbName} \cap LBs)

(* A request that changes nothing fails.                                   *)
RequestFails == Fails /\ ReturnError

-----------------------------------------------------------------------------
(* AddLBConfig and UpdateLBConfig, which make the same requests and are    *)
(* both op = "put", and RemoveLBConfig.                                    *)

Begin ==
    /\ pc = "idle"
    /\ \E e \in Endpoints :
          /\ lbName' = e
          /\ \/ op' = "put" /\ config' \in Configs
             \/ op' = "remove" /\ config' = NoConfig
    /\ pc' = "describe"
    /\ instanceIds' = {} /\ registeredInstanceIds' = {}
    /\ outcome' = "none"
    /\ ListingReset
    /\ UNCHANGED <<aws, disturbed, mishaps, edits, failures>>

(* GetLoadBalancerByName, checkListenersInstancePort.                      *)
Acceptable ==
    /\ lbName \in LBs
    /\ op # "remove" => config.LBTargetPort \in ListenerPorts[lbName]

Describe ==
    /\ pc = "describe"
    /\ \/ /\ Acceptable
          /\ Succeeds
          /\ Proceed(IF op = "remove" THEN "health" ELSE "lookup")
       \/ ~Acceptable /\ Succeeds /\ ReturnError
       \/ RequestFails
    /\ UNCHANGED <<aws, instanceIds, registeredInstanceIds, listing, edits>>

Lookup ==
    /\ pc = "lookup"
    /\ \/ /\ instanceIds' = LookupInstancesByIPAddress(config)
          /\ Succeeds
          /\ Proceed("health")
       \/ config.LBTargets # <<>> /\ RequestFails /\ UNCHANGED instanceIds
    /\ UNCHANGED <<aws, registeredInstanceIds, listing, edits>>

(* Planted bug: deregistrations in progress count as registered.           *)
GetRegisteredInstances_Draining(l) == registered[l] \cup draining[l]

GetRegisteredInstances(l) == registered[l]

Health ==
    /\ pc = "health"
    /\ \/ /\ registeredInstanceIds' = GetRegisteredInstances(lbName)
          /\ Succeeds
          /\ Proceed("register")
       \/ RequestFails /\ UNCHANGED registeredInstanceIds
    /\ UNCHANGED <<aws, instanceIds, listing, edits>>

(* A request that changes something has its effect and is answered, or it  *)
(* fails, with its effect or without.                                      *)
Answer(next) ==
    \/ Succeeds /\ Proceed(next)
    \/ RequestFails

RegisterInstances(ids) ==
    /\ registered' = [registered EXCEPT ![lbName] = @ \cup ids]
    /\ draining' = [draining EXCEPT ![lbName] = @ \ ids]

DeregisterInstances(ids) ==
    /\ registered' = [registered EXCEPT ![lbName] = @ \ ids]
    /\ draining' = [draining EXCEPT ![lbName] =
                       @ \cup (ids \cap registered[lbName])]

(* Planted bug: the instances are swapped in the wrong order.              *)
Register_DeregisterFirst ==
    /\ pc = "register"
    /\ DeregisterInstances(registeredInstanceIds \ instanceIds)
    /\ Answer("deregister")
    /\ UNCHANGED <<poolTag, portTag, instanceIds, registeredInstanceIds,
                   listing, edits>>

(* ensureBackendInstances: what is missing is registered ...               *)
Register ==
    /\ pc = "register"
    /\ LET toRegister == instanceIds \ registeredInstanceIds
       IN \/ /\ toRegister = {}
             /\ UNCHANGED <<registered, draining>>
             /\ Succeeds /\ Proceed("deregister")
          \/ /\ toRegister # {}
             /\ RegisterInstances(toRegister)
             /\ Answer("deregister")
          \/ /\ toRegister # {}
             /\ UNCHANGED <<registered, draining>>
             /\ RequestFails
    /\ UNCHANGED <<poolTag, portTag, instanceIds, registeredInstanceIds,
                   listing, edits>>

(* Planted bug: the arguments of differenceStringSlice are swapped.        *)
Deregister_Swapped ==
    /\ pc = "deregister"
    /\ DeregisterInstances(instanceIds \ registeredInstanceIds)
    /\ Answer(IF op = "remove" THEN "untagPool" ELSE "tag")
    /\ UNCHANGED <<poolTag, portTag, instanceIds, registeredInstanceIds,
                   listing, edits>>

(* ... before what is superfluous is deregistered.                         *)
Deregister ==
    /\ pc = "deregister"
    /\ LET toDeregister == registeredInstanceIds \ instanceIds
           next == IF op = "remove" THEN "untagPool" ELSE "tag"
       IN \/ /\ toDeregister = {}
             /\ UNCHANGED <<registered, draining>>
             /\ Succeeds /\ Proceed(next)
          \/ /\ toDeregister # {}
             /\ DeregisterInstances(toDeregister)
             /\ Answer(next)
          \/ /\ toDeregister # {}
             /\ UNCHANGED <<registered, draining>>
             /\ RequestFails
    /\ UNCHANGED <<poolTag, portTag, instanceIds, registeredInstanceIds,
                   listing, edits>>

(* AddLBTags sets both tags in one request, the last of the call.          *)
Tag ==
    /\ pc = "tag"
    /\ \/ /\ poolTag' = [poolTag EXCEPT ![lbName] = config.LBTargetPoolName]
          /\ portTag' = [portTag EXCEPT ![lbName] = config.LBTargetPort]
          /\ (Succeeds /\ ReturnOk) \/ RequestFails
       \/ UNCHANGED <<poolTag, portTag>> /\ RequestFails
    /\ UNCHANGED <<registered, draining, instanceIds, registeredInstanceIds,
                   listing, edits>>

(* RemoveLBTag, twice.  Without the first tag the balancer is not listed.  *)
UntagPool ==
    /\ pc = "untagPool"
    /\ \/ /\ poolTag' = [poolTag EXCEPT ![lbName] = NoTag]
          /\ Answer("untagPort")
       \/ UNCHANGED poolTag /\ RequestFails
    /\ UNCHANGED <<registered, draining, portTag, instanceIds,
                   registeredInstanceIds, listing, edits>>

UntagPort ==
    /\ pc = "untagPort"
    /\ \/ /\ portTag' = [portTag EXCEPT ![lbName] = NoTag]
          /\ (Succeeds /\ ReturnOk) \/ RequestFails
       \/ UNCHANGED portTag /\ RequestFails
    /\ UNCHANGED <<registered, draining, poolTag, instanceIds,
                   registeredInstanceIds, listing, edits>>

-----------------------------------------------------------------------------
(* GetLBConfigs.                                                           *)

BeginList ==
    /\ pc = "idle"
    /\ op' = "list"
    /\ pc' = "balancers"
    /\ instanceIds' = {} /\ registeredInstanceIds' = {}
    /\ outcome' = "none"
    /\ ListingReset
    /\ UNCHANGED <<aws, lbName, config, disturbed, mishaps, edits, failures>>

(* GetLoadBalancers without names: one request, whose NextMarker nobody    *)
(* follows.                                                                *)
DescribeLoadBalancers ==
    /\ pc = "balancers"
    /\ \/ /\ Succeeds
          /\ IF FirstPage = << >> THEN ReturnOk ELSE Proceed("tags")
       \/ RequestFails
    /\ UNCHANGED <<aws, instanceIds, registeredInstanceIds, listing, edits>>

(* Planted bug: balancers without tags are not skipped.                    *)
DescribeTags_Untagged ==
    /\ pc = "tags"
    /\ lbTags' = {l \in Range(FirstPage) : Tagged(l)}
    /\ todo' = Range(FirstPage)
    /\ Succeeds
    /\ Proceed("read")
    /\ UNCHANGED <<aws, instanceIds, registeredInstanceIds, asked, reading,
                   lbConfigs, edits>>

(* The tags of the next chunk of names; when all are known, the balancers  *)
(* with both tags are read further.                                        *)
DescribeTags ==
    /\ pc = "tags"
    /\ \/ /\ asked' = asked + 1
          /\ lbTags' = lbTags \cup {l \in Range(TagRequests[asked']) : Tagged(l)}
          /\ Succeeds
          /\ IF asked' = Len(TagRequests)
             THEN todo' = lbTags' /\ Proceed("read")
             ELSE UNCHANGED todo /\ Proceed("tags")
       \/ RequestFails /\ UNCHANGED <<asked, lbTags, todo>>
    /\ UNCHANGED <<aws, instanceIds, registeredInstanceIds, reading, lbConfigs,
                   edits>>

(* The instances are known; the loop goes on to the next balancer.  Nobody *)
(* but the service writes tags: they are still those read before.          *)
AppendConfig(l, instances) ==
    /\ lbConfigs' = [lbConfigs EXCEPT ![l] =
                        Report(poolTag[l], portTag[l], instances)]
    /\ todo' = todo \ {l}
    /\ reading' = NoCall

(* Planted bug: a balancer whose instances cannot be read is left out.     *)
ReadRegistered_Skips ==
    /\ pc = "read"
    /\ \E l \in todo :
          \/ AppendConfig(l, registered[l]) /\ Succeeds
          \/ todo' = todo \ {l} /\ Fails /\ UNCHANGED <<reading, lbConfigs>>
    /\ Proceed("read")
    /\ UNCHANGED <<aws, instanceIds, registeredInstanceIds, asked, lbTags, edits>>

(* GetRegisteredInstances of the next balancer, which has none ...         *)
ReadRegistered ==
    /\ pc = "read"
    /\ \E l \in todo :
          \/ /\ instanceIds' = GetRegisteredInstances(l)
             /\ Succeeds
             /\ IF instanceIds' = {}
                THEN AppendConfig(l, {}) /\ Proceed("read")
                ELSE /\ reading' = l
                     /\ UNCHANGED <<todo, lbConfigs>>
                     /\ Proceed("instances")
          \/ RequestFails /\ UNCHANGED <<instanceIds, todo, reading, lbConfigs>>
    /\ UNCHANGED <<aws, registeredInstanceIds, asked, lbTags, edits>>

(* ... or some, whose addresses EC2 knows: GetInstancesByID.               *)
GetInstancesByID ==
    /\ pc = "instances"
    /\ \/ /\ AppendConfig(reading, instanceIds)
          /\ Succeeds
          /\ Proceed("read")
       \/ RequestFails /\ UNCHANGED <<todo, reading, lbConfigs>>
    /\ UNCHANGED <<aws, instanceIds, registeredInstanceIds, asked, lbTags, edits>>

EndList ==
    /\ pc = "read"
    /\ todo = {}
    /\ ReturnOk
    /\ UNCHANGED <<aws, instanceIds, registeredInstanceIds, listing, edits,
                   failures>>

-----------------------------------------------------------------------------
(* The world around the provider.                                          *)

(* Connection draining ends.                                               *)
Drained ==
    /\ \E l \in LBs : \E i \in draining[l] :
          draining' = [draining EXCEPT ![l] = @ \ {i}]
    /\ UNCHANGED <<registered, poolTag, portTag, pc, request, instanceIds,
                   registeredInstanceIds, outcome, listing, disturbed,
                   mishaps, edits, failures>>

(* An operator registers or deregisters an instance.                       *)
Drift ==
    /\ edits < MaxEdits /\ edits' = edits + 1
    /\ \E l \in LBs, i \in Instances :
          /\ registered' = [registered EXCEPT ![l] =
                               IF i \in @ THEN @ \ {i} ELSE @ \cup {i}]
          /\ draining' = [draining EXCEPT ![l] =
                             IF i \in registered[l] THEN @ \cup {i} ELSE @ \ {i}]
          /\ disturbed' = (disturbed \/ lbName = l)
          /\ mishaps' = mishaps \cup {l}
    /\ UNCHANGED <<poolTag, portTag, pc, request, instanceIds,
                   registeredInstanceIds, outcome, listing, failures>>

(* The process dies during a call; the next process makes its own calls.   *)
Crash ==
    /\ pc # "idle"
    /\ RequestFails
    /\ UNCHANGED <<aws, instanceIds, registeredInstanceIds, listing, edits>>

Next ==
    \/ Begin \/ Describe \/ Lookup \/ Health \/ Register \/ Deregister
    \/ Tag \/ UntagPool \/ UntagPort
    \/ BeginList \/ DescribeLoadBalancers \/ DescribeTags \/ ReadRegistered
    \/ GetInstancesByID \/ EndList
    \/ Drained \/ Drift \/ Crash

Spec == Init /\ [][Next]_vars

-----------------------------------------------------------------------------
(* Properties.                                                             *)

(* The calls keep what the reconciliation loop relies on: one that returns *)
(* without an error has left the goal, which is what is found of the       *)
(* configuration's addresses (aws_elbv1.go:180-290, 324-351), and on the   *)
(* way there, failures included, the balancer never carries a pool other   *)
(* than the one it had and the one it is to get.  Balancers beyond the     *)
(* first page of a listing are no exception.                               *)
P == INSTANCE LBProvider WITH
       Configs <- Range(Served),
       lb      <- [l \in LBs |-> Carries(l)],
       call    <- IF pc = "idle" \/ op = "list" THEN NoCall
                  ELSE [endpoint |-> lbName, new |-> Goal, disturbed |-> disturbed]

ImplementsProvider == P!Spec

(* A balancer that serves keeps serving while its instances are replaced   *)
(* (aws_elbv1.go:304-319: register, then deregister).                      *)
NeverEmptied ==
    [][\A l \in LBs : registered[l] # {} /\ registered'[l] = {}
          => \/ edits' # edits
             \/ disturbed
             \/ op = "remove"
             \/ instanceIds = {}]_vars

(* Instances stay behind on a balancer that the service no longer lists    *)
(* only through a failed call or by an operator's hand: registering        *)
(* precedes tagging and deregistering precedes untagging, so between calls *)
(* an untagged balancer is empty (aws_elbv1.go:202-215, 274-286).          *)
NoOrphans ==
    \A l \in LBs \ mishaps :
        ~Tagged(l) /\ registered[l] # {} => pc # "idle" /\ lbName = l

(* A listing that is returned reports the tagged balancers of the first    *)
(* page, all of them and as they are, however their names are divided into *)
(* requests, or it is an error (aws_elbv1.go:98-178): one it left out      *)
(* would be taken for one to be added, one with fewer instances for one to *)
(* be updated.  What lies beyond the page is never reported, although the  *)
(* calls find it by its name (elb_classic.go:41-57).                       *)
ListsFirstPage ==
    op = "list" /\ pc = "idle" /\ outcome = "ok" =>
        \A l \in LBs :
            /\ lbConfigs[l] # NoConfig <=> Reported(l) # NoConfig
            /\ l \notin mishaps => lbConfigs[l] = Reported(l)

=============================================================================
