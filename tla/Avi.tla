-------------------------------- MODULE Avi --------------------------------
(***************************************************************************)
(* The provider for Avi Vantage (providers/avi), request by request.  On   *)
(* the controller a virtual service refers to at most one pool.  The       *)
(* provider marks a virtual service as its own by service_metadata, and    *)
(* takes over the pool it finds there unless the pool's name says that it  *)
(* is Rancher's already.  Objects are read, changed and written back       *)
(* whole, over what others have written since.                             *)
(*                                                                         *)
(* A call is one the reconciliation loop makes on the ground of the last   *)
(* listing (external-lb.go:54-136), at most one for each endpoint.  The    *)
(* look for a pool and its creation are one step: what comes between the   *)
(* two makes the creation fail like a failed request does.                 *)
(***************************************************************************)
EXTENDS LBConfig

CONSTANTS
    Endpoints,      \* names of virtual services that configurations mention
    LBs,            \* those that exist
    CloudLBs,       \* those of the provider's cloud
    Ids,            \* uuids of pools
    RancherPools,   \* pool names with LB_TARGET_RANCHER_SUFFIX
    InitPools,      \* the pools of others
    NoPool,         \* no reference, no copy, or an uuid not given out yet
    Deleted,        \* an uuid whose pool is gone
    NoCall,
    MaxEdits,       \* bound on edits by operators
    MaxFailures     \* bound on failed requests and crashes

VARIABLES
    vs,             \* the virtual services: pool_ref and whether tagged
    pools,          \* the pools: name and servers
    pc, op, lbName,
    poolName, tasks,    \* the configuration: its pool name and dockerTasks
    vsCopy,         \* the call's copy of the virtual service
    poolCopy,       \* the call's copy of the pool
    outcome,        \* how the last call returned
    allVses, todo,  \* GetLBConfigs: virtual services, those not looked at
    lbConfigs,      \* GetLBConfigs: what it returns
    pass,           \* endpoints not called on since the last listing
    disturbed,      \* history: an operator edited during this call
    edits, failures

controller == <<vs, pools>>
request    == <<op, lbName, poolName, tasks>>
copies     == <<vsCopy, poolCopy>>
listing    == <<allVses, todo, lbConfigs>>
vars       == <<controller, pc, request, copies, outcome, listing, pass,
                disturbed, edits, failures>>

VirtualServices == [pool_ref : Ids \cup {NoPool}, tagged : BOOLEAN]
PoolObjects == [name : Pools, servers : SUBSET Targets]

(* Uuids last for every name and every pool an operator deletes; pools     *)
(* have names of their own from the start.                                 *)
ASSUME AviAssumption ==
    /\ CloudLBs \subseteq LBs /\ LBs \subseteq Endpoints
    /\ OurPools \subseteq RancherPools /\ RancherPools \subseteq Pools
    /\ IsFiniteSet(Ids) /\ IsFiniteSet(Pools)
    /\ Cardinality(Ids) >= Cardinality(Pools) + MaxEdits
    /\ InitPools \in [Ids -> PoolObjects \cup {NoPool}]
    /\ \A i \in Ids : InitPools[i] # NoPool => InitPools[i].name \notin OurPools
    /\ \A i, j \in Ids :
          /\ InitPools[i] # NoPool /\ InitPools[j] # NoPool
          /\ InitPools[i].name = InitPools[j].name
          => i = j
    /\ NoPool \notin Ids \cup PoolObjects \cup VirtualServices
    /\ Deleted \notin PoolObjects \cup {NoPool}
    /\ NoCall \notin Endpoints \cup Pools
    /\ MaxEdits \in Nat /\ MaxFailures \in Nat

-----------------------------------------------------------------------------
(* The controller.                                                         *)

Exists(id) == id \in Ids /\ pools[id] \notin {NoPool, Deleted}

Named(name) == {id \in Ids : Exists(id) /\ pools[id].name = name}

Referenced(id) == \E l \in LBs : vs[l].pool_ref = id

(* A PUT of a virtual service needs the pool it refers to.                 *)
AcceptsVS(v) == v.pool_ref = NoPool \/ Exists(v.pool_ref)

(* A PUT of a pool needs the pool, and names are unique.                   *)
AcceptsPool(id, name) == Exists(id) /\ Named(name) \subseteq {id}

(* What formLBConfig makes of a virtual service that refers to a pool.     *)
Reported(v) == [LBTargetPoolName |-> pools[v.pool_ref].name,
                LBTargets        |-> pools[v.pool_ref].servers]

TypeOK ==
    /\ vs \in [LBs -> VirtualServices]
    /\ pools \in [Ids -> PoolObjects \cup {NoPool, Deleted}]
    /\ \A l \in LBs : AcceptsVS(vs[l])
    /\ \A i, j \in Ids : Exists(i) /\ j \in Named(pools[i].name) => i = j
    /\ pc \in {"idle", "getVS", "ensurePool", "attach", "readPool",
               "putPool", "tag", "virtuals", "read"}
    /\ op \in {"none", "list", "add", "update", "remove"}
    /\ lbName \in Endpoints \cup {NoCall}
    /\ poolName \in Pools \cup {NoCall} /\ tasks \subseteq Targets
    /\ vsCopy \in VirtualServices \cup {NoPool}
    /\ poolCopy \in [uuid : Ids, name : Pools, servers : SUBSET Targets] \cup {NoPool}
    /\ outcome \in {"none", "ok", "error"}
    /\ allVses \in [LBs -> VirtualServices \cup {NoPool}]
    /\ todo \subseteq CloudLBs
    /\ lbConfigs \in [LBs -> Carried \cup {NoConfig}]
    /\ pass \subseteq Endpoints
    /\ disturbed \in BOOLEAN
    /\ edits \in 0..MaxEdits /\ failures \in 0..MaxFailures

(* Operators create the virtual services, without a pool or with one that  *)
(* is not ours; another environment may have tagged it with its pool.      *)
Init ==
    /\ pools = InitPools
    /\ vs \in {f \in [LBs -> VirtualServices] :
                 \A l \in LBs :
                    /\ AcceptsVS(f[l])
                    /\ f[l].tagged <=>
                          f[l].pool_ref # NoPool
                          /\ pools[f[l].pool_ref].name \in RancherPools}
    /\ pc = "idle" /\ op = "none"
    /\ lbName = NoCall /\ poolName = NoCall /\ tasks = {}
    /\ vsCopy = NoPool /\ poolCopy = NoPool
    /\ outcome = "none"
    /\ allVses = [l \in LBs |-> NoPool] /\ todo = {}
    /\ lbConfigs = [l \in LBs |-> NoConfig]
    /\ pass = {}
    /\ disturbed = FALSE
    /\ edits = 0 /\ failures = 0

-----------------------------------------------------------------------------
(* How requests and calls end.                                             *)

Succeeds == failures' = failures
Fails == failures < MaxFailures /\ failures' = failures + 1

Proceed(at) == pc' = at /\ UNCHANGED <<request, outcome, pass, disturbed>>

(* The call returns; its local variables go.                               *)
Finish(result) ==
    /\ pc' = "idle"
    /\ outcome' = result
    /\ lbName' = NoCall /\ poolName' = NoCall /\ tasks' = {}
    /\ vsCopy' = NoPool /\ poolCopy' = NoPool
    /\ disturbed' = FALSE
    /\ UNCHANGED op

Return(result) == Finish(result) /\ UNCHANGED pass

(* A request that fails ends the call.                                     *)
RequestFails == Fails /\ Return("error")

(* The process ends, and the next one begins with a listing.               *)
Panic == Finish("error") /\ pass' = {}

-----------------------------------------------------------------------------
(* The calls of the loop.                                                  *)

OnList(e) == e \in LBs /\ Ours(lbConfigs[e])

Begin ==
    /\ pc = "idle"
    /\ pc' = "getVS" /\ outcome' = "none"
    /\ \E e \in pass :
          /\ lbName' = e
          /\ pass' = pass \ {e}
          /\ \/ \E c \in Configs :
                   /\ IF OnList(e)
                      THEN NeedsUpdate(c, lbConfigs[e]) /\ op' = "update"
                      ELSE op' = "add"
                   /\ poolName' = c.LBTargetPoolName
                   /\ tasks' = Range(c.LBTargets)
             \/ /\ OnList(e)
                /\ op' = "remove"
                /\ poolName' = lbConfigs[e].LBTargetPoolName
                /\ tasks' = lbConfigs[e].LBTargets
    /\ UNCHANGED <<controller, copies, listing, disturbed, edits, failures>>

-----------------------------------------------------------------------------
(* AddLBConfig, UpdateLBConfig and RemoveLBConfig.                         *)

GetVS ==
    /\ pc = "getVS"
    /\ \/ /\ lbName \in LBs
          /\ Succeeds
          /\ \/ /\ vs[lbName].pool_ref # NoPool
                /\ Proceed("readPool")
                /\ vsCopy' = vs[lbName] /\ UNCHANGED poolCopy
             \/ /\ vs[lbName].pool_ref = NoPool /\ op # "remove"
                /\ Proceed("ensurePool")
                /\ vsCopy' = vs[lbName] /\ UNCHANGED poolCopy
             \/ /\ vs[lbName].pool_ref = NoPool /\ op = "remove"
                /\ Return("ok")
       \/ lbName \notin LBs /\ Succeeds /\ Return("error")
       \/ RequestFails
    /\ UNCHANGED <<controller, listing, edits>>

Copy(id, pool) == [uuid |-> id, name |-> pool.name, servers |-> pool.servers]

(* EnsurePoolExists.  A new pool gets an uuid that was never given out.    *)
EnsurePool ==
    /\ pc = "ensurePool"
    /\ LET Use(id) == /\ Succeeds /\ Proceed("attach")
                      /\ poolCopy' = Copy(id, pools'[id]) /\ UNCHANGED vsCopy
           fresh == CHOOSE id \in Ids : pools[id] = NoPool
       IN \/ UNCHANGED pools /\ \E id \in Named(poolName) : Use(id)
          \/ /\ Named(poolName) = {}
             /\ pools' = [pools EXCEPT ![fresh] =
                             [name |-> poolName, servers |-> {}]]
             /\ Use(fresh) \/ RequestFails
          \/ UNCHANGED pools /\ RequestFails
    /\ UNCHANGED <<vs, listing, edits>>

(* Planted bug: the reference goes to the controller but not to the copy.  *)
AttachPool_StaleCopy ==
    /\ pc = "attach"
    /\ Exists(poolCopy.uuid)
    /\ vs' = [vs EXCEPT ![lbName] = [vsCopy EXCEPT !.pool_ref = poolCopy.uuid]]
    /\ Succeeds /\ Proceed("putPool")
    /\ UNCHANGED <<pools, copies, listing, edits>>

(* The end of ensureVsHasPool: the copy of the virtual service is written. *)
AttachPool ==
    /\ pc = "attach"
    /\ LET copy == [vsCopy EXCEPT !.pool_ref = poolCopy.uuid]
       IN \/ /\ AcceptsVS(copy)
             /\ vs' = [vs EXCEPT ![lbName] = copy]
             /\ \/ /\ Succeeds /\ Proceed("putPool")
                   /\ vsCopy' = copy /\ UNCHANGED poolCopy
                \/ RequestFails
          \/ ~AcceptsVS(copy) /\ UNCHANGED vs /\ Succeeds /\ Return("error")
          \/ UNCHANGED vs /\ RequestFails
    /\ UNCHANGED <<pools, listing, edits>>

(* Planted bug: any pool that is found is taken over.                      *)
CheckExistingPool_TakesAny ==
    /\ pc = "readPool"
    /\ Exists(vsCopy.pool_ref)
    /\ poolCopy' = [Copy(vsCopy.pool_ref, pools[vsCopy.pool_ref]) EXCEPT
                       !.name = poolName]
    /\ Succeeds /\ Proceed("putPool")
    /\ UNCHANGED <<controller, vsCopy, listing, edits>>

(* checkExisitngPool: a pool with another of Rancher's names is an error,  *)
(* one with a foreign name is renamed in the copy.                         *)
CheckExistingPool ==
    /\ pc = "readPool"
    /\ LET id == vsCopy.pool_ref
           taken == Exists(id) /\ pools[id].name \in RancherPools \ {poolName}
       IN \/ /\ Exists(id) /\ ~taken
             /\ poolCopy' = [Copy(id, pools[id]) EXCEPT !.name = poolName]
             /\ UNCHANGED vsCopy
             /\ Succeeds /\ Proceed("putPool")
          \/ (taken \/ ~Exists(id)) /\ Succeeds /\ Return("error")
          \/ RequestFails
    /\ UNCHANGED <<controller, listing, edits>>

(* Planted bug: additions replace the servers as updates do.               *)
Converged_Replaces(servers) ==
    IF op = "remove" THEN servers \ tasks ELSE tasks

(* The servers convergePoolMembers makes of those in the copy.             *)
Converged(servers) ==
    CASE op = "add"    -> servers \cup tasks
      [] op = "remove" -> servers \ tasks
      [] op = "update" -> tasks

(* Planted bug: an update that keeps the servers does not write the name.  *)
NeedsPut_IfServersChange(servers) == Converged(servers) # servers

(* AddPoolMembers and RemovePoolMembers write only when servers change.    *)
NeedsPut(servers) == op = "update" \/ Converged(servers) # servers

(* After its members AddLBConfig sees to the tag; its error when they      *)
(* could not be written is lost.                                           *)
MembersDone ==
    IF op = "add" THEN Proceed("tag") /\ UNCHANGED copies ELSE Return("ok")
MembersFailed == Return(IF op = "add" THEN "ok" ELSE "error")

(* AddPoolMembers, RemovePoolMembers, UpdatePoolMembers.                   *)
ConvergePoolMembers ==
    /\ pc = "putPool"
    /\ LET new == [name |-> poolCopy.name,
                   servers |-> Converged(poolCopy.servers)]
           accepted == AcceptsPool(poolCopy.uuid, poolCopy.name)
       IN \/ /\ ~NeedsPut(poolCopy.servers)
             /\ UNCHANGED pools
             /\ Succeeds /\ MembersDone
          \/ /\ NeedsPut(poolCopy.servers) /\ accepted
             /\ pools' = [pools EXCEPT ![poolCopy.uuid] = new]
             /\ (Succeeds /\ MembersDone) \/ (Fails /\ MembersFailed)
          \/ /\ NeedsPut(poolCopy.servers)
             /\ UNCHANGED pools
             /\ ((~accepted /\ Succeeds) \/ Fails) /\ MembersFailed
    /\ UNCHANGED <<vs, listing, edits>>

(* updateVsMetadata: the copy of the virtual service is written, tagged.   *)
UpdateVsMetadata ==
    /\ pc = "tag"
    /\ LET copy == [vsCopy EXCEPT !.tagged = TRUE]
       IN \/ vsCopy.tagged /\ UNCHANGED vs /\ Succeeds /\ Return("ok")
          \/ /\ ~vsCopy.tagged /\ AcceptsVS(copy)
             /\ vs' = [vs EXCEPT ![lbName] = copy]
             /\ (Succeeds /\ Return("ok")) \/ RequestFails
          \/ /\ ~vsCopy.tagged
             /\ UNCHANGED vs
             /\ (~AcceptsVS(copy) /\ Succeeds /\ Return("error")) \/ RequestFails
    /\ UNCHANGED <<pools, listing, edits>>

-----------------------------------------------------------------------------
(* GetLBConfigs.                                                           *)

BeginList ==
    /\ pc = "idle"
    /\ op' = "list"
    /\ pc' = "virtuals"
    /\ outcome' = "none"
    /\ allVses' = [l \in LBs |-> NoPool] /\ todo' = {}
    /\ lbConfigs' = [l \in LBs |-> NoConfig]
    /\ pass' = {}
    /\ UNCHANGED <<controller, lbName, poolName, tasks, copies, disturbed,
                   edits, failures>>

(* Planted bug: virtual services of other clouds are associated too.       *)
GetAllVses_AllClouds ==
    /\ pc = "virtuals"
    /\ allVses' = vs
    /\ todo' = {l \in LBs : vs[l].tagged}
    /\ Succeeds /\ Proceed("read") /\ UNCHANGED copies
    /\ UNCHANGED <<controller, lbConfigs, edits>>

(* GetAllVses, and IsAssociatedVs for each of them.                        *)
GetAllVses ==
    /\ pc = "virtuals"
    /\ \/ /\ allVses' = vs
          /\ todo' = {l \in CloudLBs : vs[l].tagged}
          /\ Succeeds /\ Proceed("read") /\ UNCHANGED copies
       \/ RequestFails /\ UNCHANGED <<allVses, todo>>
    /\ UNCHANGED <<controller, lbConfigs, edits>>

(* Planted bug: a virtual service whose pool is not read is left out.      *)
ReadPool_Skips ==
    /\ pc = "read"
    /\ \E l \in todo :
          /\ todo' = todo \ {l}
          /\ Proceed("read") /\ UNCHANGED copies
          /\ \/ /\ Exists(allVses[l].pool_ref)
                /\ lbConfigs' = [lbConfigs EXCEPT ![l] = Reported(allVses[l])]
                /\ Succeeds
             \/ UNCHANGED lbConfigs /\ Fails
    /\ UNCHANGED <<controller, allVses, edits>>

(* The pool of one virtual service.  Without a reference the process       *)
(* panics; a pool that cannot be read ends the listing with an error.      *)
ReadPool ==
    /\ pc = "read"
    /\ \E l \in todo :
          /\ todo' = todo \ {l}
          /\ \/ /\ Exists(allVses[l].pool_ref)
                /\ lbConfigs' = [lbConfigs EXCEPT ![l] = Reported(allVses[l])]
                /\ Succeeds /\ Proceed("read") /\ UNCHANGED copies
             \/ /\ allVses[l].pool_ref = NoPool
                /\ UNCHANGED lbConfigs /\ Succeeds /\ Panic
             \/ /\ allVses[l].pool_ref # NoPool
                /\ UNCHANGED lbConfigs
                /\ \/ ~Exists(allVses[l].pool_ref) /\ Succeeds /\ Return("error")
                   \/ RequestFails
    /\ UNCHANGED <<controller, allVses, edits>>

(* The loop goes on with calls on the ground of what was returned.         *)
EndList ==
    /\ pc = "read"
    /\ todo = {}
    /\ Succeeds
    /\ Finish("ok")
    /\ pass' = Endpoints
    /\ allVses' = [l \in LBs |-> NoPool]
    /\ UNCHANGED <<controller, todo, lbConfigs, edits>>

-----------------------------------------------------------------------------
(* The world around the provider.                                          *)

(* An operator adds or removes a server, gives a virtual service another   *)
(* pool or none, or deletes a pool that is not used.  The tag and the      *)
(* names of pools are left alone.                                          *)
Drift ==
    /\ edits < MaxEdits /\ edits' = edits + 1
    /\ \/ \E id \in Ids, t \in Targets :
             /\ Exists(id)
             /\ pools' = [pools EXCEPT ![id].servers =
                             IF t \in @ THEN @ \ {t} ELSE @ \cup {t}]
             /\ UNCHANGED vs
       \/ \E l \in LBs, id \in Ids \cup {NoPool} :
             /\ id = NoPool \/ Exists(id)
             /\ id # vs[l].pool_ref
             /\ vs' = [vs EXCEPT ![l].pool_ref = id]
             /\ UNCHANGED pools
       \/ \E id \in Ids :
             /\ Exists(id) /\ ~Referenced(id)
             /\ pools' = [pools EXCEPT ![id] = Deleted]
             /\ UNCHANGED vs
    /\ disturbed' = (pc # "idle")
    /\ UNCHANGED <<pc, request, copies, outcome, listing, pass, failures>>

Crash ==
    /\ pc # "idle"
    /\ Fails /\ Panic
    /\ UNCHANGED <<controller, listing, edits>>

Next ==
    \/ Begin
    \/ GetVS \/ EnsurePool \/ AttachPool \/ CheckExistingPool
    \/ ConvergePoolMembers \/ UpdateVsMetadata
    \/ BeginList \/ GetAllVses \/ ReadPool \/ EndList
    \/ Drift \/ Crash

Spec == Init /\ [][Next]_vars

-----------------------------------------------------------------------------
(* Properties.                                                             *)

(* The call in flight returns without an error in this step, and nobody    *)
(* else has edited the controller since it began.                          *)
Returns(ops) ==
    /\ op \in ops
    /\ pc # "idle" /\ pc' = "idle"
    /\ outcome' = "ok"
    /\ ~disturbed

(* The pool the virtual service of the call refers to after the step.      *)
PoolLeft == pools'[vs'[lbName].pool_ref]

(* A call that returns without an error has left the wanted servers in the *)
(* pool the virtual service refers to now: exactly these under the wanted  *)
(* name after an update, these among others and the tag after an addition  *)
(* that did not lose an error, none of them after a removal                *)
(* (avi.go:88-173).                                                        *)
CallAchieves ==
    [][/\ Returns({"update"}) =>
             PoolLeft.name = poolName /\ PoolLeft.servers = tasks
       /\ Returns({"add"}) /\ pc = "tag" =>
             vs'[lbName].tagged /\ tasks \subseteq PoolLeft.servers
       /\ Returns({"remove"}) /\ vs[lbName].pool_ref # NoPool =>
             tasks \cap PoolLeft.servers = {}]_vars

(* A pool with one of Rancher's names changes in calls about this name     *)
(* only (aviutils.go:51-58): the pool of another service or environment is *)
(* neither renamed nor filled, whichever virtual services refer to it.     *)
(* Servers that were in any pool before an addition stay, and a removal    *)
(* takes its own only (avivs.go:149-224), unless an operator edits         *)
(* meanwhile.                                                              *)
OthersKept ==
    [][edits' = edits =>
          \A id \in Ids : Exists(id) =>
             /\ pools[id].name \in RancherPools \ {poolName}
                   => pools'[id] = pools[id]
             /\ ~disturbed /\ op \in {"add", "remove"}
                   => pools[id].servers \ (IF op = "add" THEN {} ELSE tasks)
                         \subseteq pools'[id].servers]_vars

(* Every virtual service with the tag has a pool, also when requests fail  *)
(* or the process dies; GetLBConfigs panics on one without (avi.go:187).   *)
(* Nothing but an operator takes its pool from a virtual service.          *)
TaggedHasPool ==
    edits = 0 => \A l \in LBs : vs[l].tagged => vs[l].pool_ref # NoPool

(* A listing that returns without an error is complete and right           *)
(* (avi.go:175-199).                                                       *)
ListIsExact ==
    [][Returns({"list"}) =>
          \A l \in LBs :
             lbConfigs'[l] = IF l \in CloudLBs /\ vs[l].tagged
                             THEN Reported(vs[l]) ELSE NoConfig]_vars

=============================================================================
