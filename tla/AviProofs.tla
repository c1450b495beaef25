----------------------------- MODULE AviProofs -----------------------------
(***************************************************************************)
(* Proofs about Avi, for any number of virtual services, pools, uuids,     *)
(* configurations, edits and failures.  Control says what is in flight at  *)
(* each point of a call, Copies how the call's copies of the virtual       *)
(* service and of the pool stand to the controller's objects, Listing how  *)
(* far GetLBConfigs has come, and Spent that uuids do not run out.  Much   *)
(* of Copies holds only while nobody else edits; that a pool of another    *)
(* service is left alone does not depend on that.                          *)
(***************************************************************************)
EXTENDS Avi, FiniteSetTheorems, TLAPS

PoolCopies == [uuid : Ids, name : Pools, servers : SUBSET Targets]

Gone == {id \in Ids : pools[id] = Deleted}

(* Only operators delete pools.                                            *)
Spent == IsFiniteSet(Gone) /\ Cardinality(Gone) <= edits

(* Where the call in flight can be, by its kind, and what it has read.     *)
Control ==
    /\ pc = "idle" => lbName = NoCall /\ poolName = NoCall /\ disturbed = FALSE
    /\ pc # "idle" => op # "none" /\ (op = "list" <=> pc \in {"virtuals", "read"})
    /\ pc # "idle" /\ op # "list" => lbName \in Endpoints /\ poolName \in Pools
    /\ pc \in {"ensurePool", "attach"} => op # "remove"
    /\ pc = "tag" => op = "add"
    /\ pc \in {"ensurePool", "attach", "readPool", "putPool", "tag"} =>
          lbName \in LBs /\ vsCopy \in VirtualServices
    /\ pc \in {"readPool", "putPool", "tag"} => vsCopy.pool_ref # NoPool
    /\ pc \in {"attach", "putPool"} =>
          poolCopy \in PoolCopies /\ poolCopy.name = poolName
    /\ pc = "putPool" => vsCopy.pool_ref = poolCopy.uuid

(* How the copies stand to the objects.                                    *)
Copies ==
    /\ pc \in {"attach", "putPool"} /\ Exists(poolCopy.uuid) =>
          pools[poolCopy.uuid].name \notin RancherPools \ {poolName}
    /\ ~disturbed /\ pc \in {"ensurePool", "attach", "readPool", "putPool", "tag"} =>
          vs[lbName] = vsCopy
    /\ ~disturbed /\ pc \in {"attach", "putPool"} =>
          /\ Exists(poolCopy.uuid)
          /\ pools[poolCopy.uuid].servers = poolCopy.servers
    /\ ~disturbed /\ pc = "tag" =>
          /\ Exists(vsCopy.pool_ref)
          /\ tasks \subseteq pools[vsCopy.pool_ref].servers

(* What GetLBConfigs has made of the virtual services it has looked at.    *)
Listing ==
    /\ pc = "virtuals" => lbConfigs = [l \in LBs |-> NoConfig]
    /\ pc = "read" /\ ~disturbed =>
          /\ allVses = vs
          /\ todo \subseteq {l \in CloudLBs : vs[l].tagged}
          /\ \A l \in LBs :
                lbConfigs[l] = IF l \in CloudLBs \ todo /\ vs[l].tagged
                               THEN Reported(vs[l]) ELSE NoConfig

IInv == TypeOK /\ Spent /\ Control /\ Copies /\ Listing /\ TaggedHasPool

-----------------------------------------------------------------------------
(* The controller's objects.                                               *)

(* What there is has a name and servers.                                   *)
LEMMA ExistingType ==
    ASSUME TypeOK, NEW id, Exists(id)
    PROVE  /\ id \in Ids /\ id # NoPool
           /\ pools[id] \in PoolObjects
           /\ pools[id].name \in Pools /\ pools[id].servers \subseteq Targets
  BY AviAssumption DEF TypeOK, Exists, PoolObjects

(* While a name is not in use, an uuid is left for a pool of that name.    *)
LEMMA FreshExists ==
    ASSUME TypeOK, Spent, NEW p \in Pools, Named(p) = {}
    PROVE  \E id \in Ids : pools[id] = NoPool
  <1> DEFINE Live == {id \in Ids : Exists(id)}
             f == [id \in Live |-> pools[id].name]
             rest == Pools \ {p}
  <1>1. f \in Injection(Live, rest)
    <2>1. \A id \in Live : pools[id].name \in rest
      BY ExistingType DEF Named
    <2>2. \A i, j \in Live : pools[i].name = pools[j].name => i = j
      BY DEF TypeOK, Named
    <2> QED
      BY <2>1, <2>2 DEF Injection, IsInjective
  <1>2. /\ IsFiniteSet(rest) /\ Cardinality(rest) = Cardinality(Pools) - 1
        /\ Cardinality(Pools) \in Nat
    BY AviAssumption, FS_RemoveElement, FS_CardinalityType
  <1> HIDE DEF Live, f, rest
  <1>3. IsFiniteSet(Live) /\ Cardinality(Live) <= Cardinality(rest)
    BY <1>1, <1>2, FS_Injection
  <1>4. /\ IsFiniteSet(Gone) /\ Cardinality(Gone) <= edits
        /\ Cardinality(Gone) \in Nat /\ edits <= MaxEdits /\ edits \in Nat
    BY AviAssumption, FS_CardinalityType DEF Spent, TypeOK
  <1>5. /\ Cardinality(Live \cup Gone) =
              Cardinality(Live) + Cardinality(Gone) - Cardinality(Live \cap Gone)
        /\ Cardinality(Live) \in Nat
        /\ Cardinality(Live \cap Gone) \in Nat
    <2>1. IsFiniteSet(Live \cap Gone)
      BY <1>3, FS_Subset
    <2> QED
      BY <1>3, <1>4, <2>1, FS_Union, FS_CardinalityType
  <1>6. /\ Cardinality(Ids) \in Nat /\ MaxEdits \in Nat
        /\ Cardinality(Ids) >= Cardinality(Pools) + MaxEdits
    BY AviAssumption, FS_CardinalityType
  <1>7. Live \cup Gone # Ids
    <2> DEFINE a == Cardinality(Live)
               b == Cardinality(Gone)
               d == Cardinality(Live \cap Gone)
               r == Cardinality(rest)
               n == Cardinality(Pools)
               m == Cardinality(Ids)
    <2>1. a \in Nat /\ b \in Nat /\ d \in Nat /\ n \in Nat /\ m \in Nat
          /\ MaxEdits \in Nat /\ edits \in Nat
      BY <1>2, <1>4, <1>5, <1>6
    <2>2. a <= r /\ r = n - 1 /\ b <= edits /\ edits <= MaxEdits /\ m >= n + MaxEdits
      BY <1>2, <1>3, <1>4, <1>6
    <2>3. Cardinality(Live \cup Gone) = a + b - d
      BY <1>5
    <2> HIDE DEF a, b, d, r, n, m
    <2>4. a + b - d # m
      BY <2>1, <2>2
    <2> QED
      BY <2>3, <2>4 DEF m
  <1>8. PICK id \in Ids : id \notin Live \cup Gone
    BY <1>7 DEF Live, Gone
  <1> QED
    BY <1>8 DEF Live, Gone, Exists

(* What the members of a pool become.                                      *)
LEMMA ConvergedValue ==
    ASSUME NEW servers
    PROVE  /\ op = "add" => Converged(servers) = servers \cup tasks
           /\ op = "remove" => Converged(servers) = servers \ tasks
           /\ op = "update" => Converged(servers) = tasks
  BY DEF Converged

-----------------------------------------------------------------------------
(* The steps.                                                              *)

LEMMA InitInv == Init => IInv
  <1> SUFFICES ASSUME Init PROVE IInv
    OBVIOUS
  <1>1. \A id \in Ids : pools[id] # Deleted
    BY AviAssumption DEF Init
  <1>2. TypeOK
    <2>1. 0 \in 0..MaxEdits /\ 0 \in 0..MaxFailures
      BY AviAssumption
    <2>2. \A i, j \in Ids : Exists(i) /\ j \in Named(pools[i].name) => i = j
      BY AviAssumption DEF Init, Exists, Named
    <2>3. vs \in [LBs -> VirtualServices] /\ \A l \in LBs : AcceptsVS(vs[l])
      BY DEF Init
    <2>4. pools \in [Ids -> PoolObjects \cup {NoPool, Deleted}]
      BY AviAssumption DEF Init
    <2> QED
      BY <2>1, <2>2, <2>3, <2>4 DEF Init, TypeOK
  <1>3. Spent
    <2>1. Gone = {}
      BY <1>1 DEF Gone
    <2> QED
      BY <2>1, FS_EmptySet DEF Spent, Init
  <1>4. Control /\ Copies /\ Listing
    BY DEF Init, Control, Copies, Listing
  <1>5. TaggedHasPool
    BY DEF Init, TaggedHasPool
  <1> QED
    BY <1>2, <1>3, <1>4, <1>5 DEF IInv

(* The part of the state that tells where the call is and how it ended.    *)
CallTypeOK ==
    /\ pc \in {"idle", "getVS", "ensurePool", "attach", "readPool",
               "putPool", "tag", "virtuals", "read"}
    /\ op \in {"none", "list", "add", "update", "remove"}
    /\ lbName \in Endpoints \cup {NoCall}
    /\ poolName \in Pools \cup {NoCall} /\ tasks \subseteq Targets
    /\ vsCopy \in VirtualServices \cup {NoPool}
    /\ poolCopy \in PoolCopies \cup {NoPool}
    /\ outcome \in {"none", "ok", "error"}
    /\ pass \subseteq Endpoints
    /\ disturbed \in BOOLEAN
    /\ failures \in 0..MaxFailures

(* What the controller holds.                                              *)
ControllerOK ==
    /\ vs \in [LBs -> VirtualServices]
    /\ pools \in [Ids -> PoolObjects \cup {NoPool, Deleted}]
    /\ \A l \in LBs : AcceptsVS(vs[l])
    /\ \A i, j \in Ids : Exists(i) /\ j \in Named(pools[i].name) => i = j

ListTypeOK ==
    /\ allVses \in [LBs -> VirtualServices \cup {NoPool}]
    /\ todo \subseteq CloudLBs
    /\ lbConfigs \in [LBs -> Carried \cup {NoConfig}]

LEMMA TypeParts ==
    TypeOK <=> CallTypeOK /\ ControllerOK /\ ListTypeOK /\ edits \in 0..MaxEdits
  BY DEF TypeOK, CallTypeOK, ControllerOK, ListTypeOK, PoolCopies

(* A call that ends, well or not, leaves its variables in order.           *)
LEMMA FinishType ==
    ASSUME CallTypeOK, Succeeds \/ Fails, NEW result \in {"ok", "error"},
           Finish(result), pass' \subseteq Endpoints
    PROVE  CallTypeOK'
  <1>1. failures' \in 0..MaxFailures
    BY AviAssumption DEF CallTypeOK, Succeeds, Fails
  <1> QED
    BY <1>1 DEF CallTypeOK, Finish

(* So does one that goes on.                                               *)
LEMMA ProceedType ==
    ASSUME CallTypeOK, Succeeds,
           NEW at \in {"ensurePool", "attach", "readPool", "putPool", "tag", "read"},
           Proceed(at),
           vsCopy' \in VirtualServices \cup {NoPool},
           poolCopy' \in PoolCopies \cup {NoPool}
    PROVE  CallTypeOK'
  BY DEF CallTypeOK, Succeeds, Proceed, request

LEMMA ReturnType ==
    ASSUME CallTypeOK, Succeeds \/ Fails, Return("ok") \/ Return("error")
    PROVE  CallTypeOK'
  BY FinishType DEF Return, CallTypeOK

LEMMA FailureType == ASSUME CallTypeOK, RequestFails PROVE CallTypeOK'
  BY ReturnType DEF RequestFails

(* Writing an accepted virtual service keeps the controller in order.      *)
LEMMA PutVS ==
    ASSUME ControllerOK, NEW l \in LBs, NEW v \in VirtualServices, AcceptsVS(v),
           vs' = [vs EXCEPT ![l] = v], UNCHANGED pools
    PROVE  ControllerOK'
  BY DEF ControllerOK, AcceptsVS, Exists, Named

(* So does writing an accepted pool, new or not.                           *)
LEMMA PutPool ==
    ASSUME ControllerOK, NEW id \in Ids, NEW p \in PoolObjects,
           Named(p.name) \subseteq {id},
           pools' = [pools EXCEPT ![id] = p], UNCHANGED vs
    PROVE  /\ ControllerOK'
           /\ \A i \in Ids \ {id} : pools'[i] = pools[i]
           /\ pools'[id] = p /\ Exists(id)'
           /\ \A i \in Ids : Exists(i) => Exists(i)'
  <1>1. p \notin {NoPool, Deleted}
    BY AviAssumption
  <1>2. /\ pools'[id] = p
        /\ \A i \in Ids \ {id} : pools'[i] = pools[i]
        /\ pools' \in [Ids -> PoolObjects \cup {NoPool, Deleted}]
    BY DEF ControllerOK
  <1>3. Exists(id)' /\ \A i \in Ids : Exists(i) => Exists(i)'
    BY <1>1, <1>2 DEF Exists
  <1>4. \A l \in LBs : AcceptsVS(vs[l])'
    BY <1>3 DEF ControllerOK, AcceptsVS, Exists
  <1>5. ASSUME NEW i \in Ids, NEW j \in Ids, Exists(i)', Exists(j)',
               pools'[i].name = pools'[j].name
        PROVE  i = j
    BY <1>2, <1>5 DEF ControllerOK, Exists, Named
  <1>6. \A i, j \in Ids : Exists(i)' /\ j \in Named(pools[i].name)' => i = j
    BY <1>5 DEF Named
  <1> QED
    BY <1>2, <1>3, <1>4, <1>6 DEF ControllerOK

(* Every variable keeps its type, and no uuid is missing.                  *)
LEMMA TypeStep ==
    ASSUME TypeOK, Spent, Control, [Next]_vars
    PROVE  TypeOK'
  <1> SUFFICES CallTypeOK' /\ ControllerOK' /\ ListTypeOK' /\ edits' \in 0..MaxEdits
    BY DEF TypeOK, CallTypeOK, ControllerOK, ListTypeOK, PoolCopies
  <1> USE TypeParts DEF controller, listing
  <1>1. CASE Begin
    <2>1. PICK e \in pass :
             /\ lbName' = e
             /\ pass' = pass \ {e}
             /\ \/ \E c \in Configs :
                      /\ op' \in {"add", "update"}
                      /\ poolName' = c.LBTargetPoolName
                      /\ tasks' = Range(c.LBTargets)
                \/ /\ OnList(e)
                   /\ op' = "remove"
                   /\ poolName' = lbConfigs[e].LBTargetPoolName
                   /\ tasks' = lbConfigs[e].LBTargets
      BY <1>1 DEF Begin
    <2>2. poolName' \in Pools /\ tasks' \subseteq Targets
      <3>1. ASSUME NEW c \in Configs
            PROVE  c.LBTargetPoolName \in Pools /\ Range(c.LBTargets) \subseteq Targets
        BY ConfigsAssumption, PoolsAssumption DEF LBConfigs, Range
      <3>2. ASSUME OnList(e)
            PROVE  /\ lbConfigs[e].LBTargetPoolName \in Pools
                   /\ lbConfigs[e].LBTargets \subseteq Targets
        BY <3>2 DEF OnList, Ours, ListTypeOK, Carried
      <3> QED
        BY <2>1, <3>1, <3>2
    <2>3. e \in Endpoints /\ pass' \subseteq Endpoints
          /\ op' \in {"none", "list", "add", "update", "remove"}
      BY <2>1 DEF CallTypeOK
    <2>4. CallTypeOK'
      BY <1>1, <2>1, <2>2, <2>3 DEF Begin, CallTypeOK, copies
    <2> QED
      BY <1>1, <2>4 DEF Begin, ControllerOK, ListTypeOK, AcceptsVS, Exists, Named
  <1>2. CASE GetVS
    <2>1. CallTypeOK'
      <3>1. CASE Return("ok") \/ Return("error")
        BY <1>2, <3>1, ReturnType DEF GetVS, RequestFails
      <3>2. CASE /\ lbName \in LBs /\ vsCopy' = vs[lbName] /\ UNCHANGED poolCopy
                 /\ Succeeds
                 /\ Proceed("readPool") \/ Proceed("ensurePool")
        <4>1. vsCopy' \in VirtualServices
          BY <3>2 DEF ControllerOK
        <4>2. poolCopy' \in PoolCopies \cup {NoPool}
          BY <3>2 DEF CallTypeOK
        <4> QED
          BY <3>2, <4>1, <4>2, ProceedType
      <3> QED
        BY <1>2, <3>1, <3>2 DEF GetVS, RequestFails
    <2> QED
      BY <1>2, <2>1 DEF GetVS, ControllerOK, ListTypeOK, AcceptsVS, Exists, Named
  <1>3. CASE EnsurePool
    <2> DEFINE fresh == CHOOSE id \in Ids : pools[id] = NoPool
               new == [name |-> poolName, servers |-> {}]
    <2>1. poolName \in Pools /\ op # "list"
      BY <1>3 DEF EnsurePool, Control
    <2>2. new \in PoolObjects /\ new.name = poolName
      BY <2>1 DEF PoolObjects
    <2>3. Named(poolName) = {} => fresh \in Ids
      <3>1. Named(poolName) = {} => \E id \in Ids : pools[id] = NoPool
        BY <2>1, FreshExists
      <3> QED
        BY <3>1
    <2> HIDE DEF fresh, new
    <2>4. ControllerOK'
      <3>1. CASE UNCHANGED pools
        BY <1>3, <3>1 DEF EnsurePool, ControllerOK, AcceptsVS, Exists, Named
      <3>2. CASE Named(poolName) = {} /\ pools' = [pools EXCEPT ![fresh] = new]
        BY <1>3, <2>2, <2>3, <3>2, PutPool DEF EnsurePool
      <3> QED
        BY <1>3, <3>1, <3>2 DEF EnsurePool, fresh, new
    <2>5. ASSUME NEW id \in Ids, Exists(id)',
                 Succeeds, Proceed("attach"), poolCopy' = Copy(id, pools'[id]),
                 UNCHANGED vsCopy
          PROVE  CallTypeOK'
      <3>1. pools'[id] \in PoolObjects
        BY <2>4, <2>5 DEF ControllerOK, Exists
      <3>2. poolCopy' \in PoolCopies
        BY <2>5, <3>1 DEF Copy, PoolObjects, PoolCopies
      <3>3. vsCopy' \in VirtualServices \cup {NoPool}
        BY <2>5 DEF CallTypeOK
      <3> QED
        BY <2>5, <3>2, <3>3, ProceedType
    <2>6. CallTypeOK'
      <3>1. CASE RequestFails
        BY <3>1, FailureType
      <3>2. CASE UNCHANGED pools /\ \E id \in Named(poolName) :
                     /\ Succeeds /\ Proceed("attach")
                     /\ poolCopy' = Copy(id, pools'[id]) /\ UNCHANGED vsCopy
        BY <2>5, <3>2 DEF Named, Exists
      <3>3. CASE /\ Named(poolName) = {} /\ pools' = [pools EXCEPT ![fresh] = new]
                 /\ Succeeds /\ Proceed("attach")
                 /\ poolCopy' = Copy(fresh, pools'[fresh]) /\ UNCHANGED vsCopy
        <4>1. fresh \in Ids /\ new \in PoolObjects /\ Named(new.name) \subseteq {fresh}
          BY <2>2, <2>3, <3>3
        <4>2. UNCHANGED vs
          BY <1>3 DEF EnsurePool
        <4>3. ASSUME NEW id \in Ids, id = fresh PROVE Exists(id)'
          BY <3>3, <4>1, <4>2, <4>3, PutPool
        <4>4. ASSUME NEW id \in Ids, id = fresh PROVE CallTypeOK'
          BY <2>5, <3>3, <4>3, <4>4
        <4> QED
          BY <4>1, <4>4
      <3> QED
        BY <1>3, <3>1, <3>2, <3>3 DEF EnsurePool, fresh, new
    <2> QED
      BY <1>3, <2>4, <2>6 DEF EnsurePool, ListTypeOK
  <1>4. CASE AttachPool
    <2> DEFINE copy == [vsCopy EXCEPT !.pool_ref = poolCopy.uuid]
    <2>1. lbName \in LBs /\ vsCopy \in VirtualServices /\ poolCopy \in PoolCopies
      BY <1>4 DEF AttachPool, Control
    <2>2. copy \in VirtualServices
      BY <2>1 DEF VirtualServices, PoolCopies
    <2> HIDE DEF copy
    <2>3. ControllerOK'
      <3>1. CASE UNCHANGED vs
        BY <1>4, <3>1 DEF AttachPool, ControllerOK, AcceptsVS, Exists, Named
      <3>2. CASE AcceptsVS(copy) /\ vs' = [vs EXCEPT ![lbName] = copy]
        BY <1>4, <2>1, <2>2, <3>2, PutVS DEF AttachPool
      <3> QED
        BY <1>4, <3>1, <3>2 DEF AttachPool, copy
    <2>4. CallTypeOK'
      <3>1. CASE Return("error") /\ (Succeeds \/ Fails)
        BY <3>1, ReturnType
      <3>2. CASE Succeeds /\ Proceed("putPool") /\ vsCopy' = copy /\ UNCHANGED poolCopy
        BY <2>1, <2>2, <3>2, ProceedType
      <3> QED
        BY <1>4, <3>1, <3>2 DEF AttachPool, RequestFails, copy
    <2> QED
      BY <1>4, <2>3, <2>4 DEF AttachPool, ListTypeOK
  <1>5. CASE CheckExistingPool
    <2>1. poolName \in Pools /\ vsCopy \in VirtualServices
      BY <1>5 DEF CheckExistingPool, Control
    <2>2. CallTypeOK'
      <3>1. CASE Return("error") /\ (Succeeds \/ Fails)
        BY <3>1, ReturnType
      <3>2. CASE /\ Exists(vsCopy.pool_ref)
                 /\ poolCopy' = [Copy(vsCopy.pool_ref, pools[vsCopy.pool_ref])
                                    EXCEPT !.name = poolName]
                 /\ UNCHANGED vsCopy
                 /\ Succeeds /\ Proceed("putPool")
        <4>1. poolCopy' \in PoolCopies
          BY <2>1, <3>2, ExistingType DEF Copy, PoolCopies
        <4> QED
          BY <2>1, <3>2, <4>1, ProceedType
      <3> QED
        BY <1>5, <3>1, <3>2 DEF CheckExistingPool, RequestFails
    <2> QED
      BY <1>5, <2>2 DEF CheckExistingPool, ControllerOK, ListTypeOK, AcceptsVS, Exists,
                        Named
  <1>6. CASE ConvergePoolMembers
    <2> DEFINE new == [name |-> poolCopy.name, servers |-> Converged(poolCopy.servers)]
    <2>1. /\ poolCopy \in PoolCopies
          /\ op \in {"add", "update", "remove"}
      BY <1>6 DEF ConvergePoolMembers, Control, CallTypeOK
    <2>2. new \in PoolObjects /\ new.name = poolCopy.name
      <3>1. poolCopy.servers \subseteq Targets /\ tasks \subseteq Targets
        BY <2>1 DEF PoolCopies, CallTypeOK
      <3>2. Converged(poolCopy.servers) \subseteq Targets
        BY <2>1, <3>1, ConvergedValue
      <3> QED
        BY <2>1, <3>2 DEF PoolObjects, PoolCopies
    <2> HIDE DEF new
    <2>3. ControllerOK'
      <3>1. CASE UNCHANGED pools
        BY <1>6, <3>1 DEF ConvergePoolMembers, ControllerOK, AcceptsVS, Exists, Named
      <3>2. CASE /\ AcceptsPool(poolCopy.uuid, poolCopy.name)
                 /\ pools' = [pools EXCEPT ![poolCopy.uuid] = new]
        <4>1. poolCopy.uuid \in Ids /\ Named(new.name) \subseteq {poolCopy.uuid}
          BY <2>1, <2>2, <3>2 DEF PoolCopies, AcceptsPool
        <4> QED
          BY <1>6, <2>2, <3>2, <4>1, PutPool DEF ConvergePoolMembers
      <3> QED
        BY <1>6, <3>1, <3>2 DEF ConvergePoolMembers, new
    <2>4. CallTypeOK'
      <3>1. CASE MembersDone /\ Succeeds
        <4>1. CASE op = "add"
          <5>1. vsCopy' \in VirtualServices \cup {NoPool}
                /\ poolCopy' \in PoolCopies \cup {NoPool}
            BY <3>1, <4>1 DEF MembersDone, copies, CallTypeOK
          <5> QED
            BY <3>1, <4>1, <5>1, ProceedType DEF MembersDone
        <4>2. CASE op # "add"
          BY <3>1, <4>2, ReturnType DEF MembersDone
        <4> QED
          BY <4>1, <4>2
      <3>2. CASE MembersFailed /\ (Succeeds \/ Fails)
        BY <3>2, ReturnType DEF MembersFailed
      <3> QED
        BY <1>6, <3>1, <3>2 DEF ConvergePoolMembers
    <2> QED
      BY <1>6, <2>3, <2>4 DEF ConvergePoolMembers, ListTypeOK
  <1>7. CASE UpdateVsMetadata
    <2> DEFINE copy == [vsCopy EXCEPT !.tagged = TRUE]
    <2>1. lbName \in LBs /\ vsCopy \in VirtualServices
      BY <1>7 DEF UpdateVsMetadata, Control
    <2>2. copy \in VirtualServices
      BY <2>1 DEF VirtualServices
    <2> HIDE DEF copy
    <2>3. ControllerOK'
      <3>1. CASE UNCHANGED vs
        BY <1>7, <3>1 DEF UpdateVsMetadata, ControllerOK, AcceptsVS, Exists, Named
      <3>2. CASE AcceptsVS(copy) /\ vs' = [vs EXCEPT ![lbName] = copy]
        BY <1>7, <2>1, <2>2, <3>2, PutVS DEF UpdateVsMetadata
      <3> QED
        BY <1>7, <3>1, <3>2 DEF UpdateVsMetadata, copy
    <2>4. CallTypeOK'
      BY <1>7, ReturnType DEF UpdateVsMetadata, RequestFails
    <2> QED
      BY <1>7, <2>3, <2>4 DEF UpdateVsMetadata, ListTypeOK
  <1>8. CASE BeginList
    BY <1>8 DEF BeginList, CallTypeOK, ControllerOK, ListTypeOK, copies, AcceptsVS,
                Exists, Named
  <1>9. CASE GetAllVses
    <2>1. CallTypeOK'
      <3>1. CASE RequestFails
        BY <3>1, FailureType
      <3>2. CASE Succeeds /\ Proceed("read") /\ UNCHANGED copies
        BY <3>2, ProceedType DEF copies, CallTypeOK
      <3> QED
        BY <1>9, <3>1, <3>2 DEF GetAllVses
    <2>2. ListTypeOK'
      BY <1>9 DEF GetAllVses, ControllerOK, ListTypeOK
    <2> QED
      BY <1>9, <2>1, <2>2 DEF GetAllVses, ControllerOK, AcceptsVS, Exists, Named
  <1>10. CASE ReadPool
    <2>1. CallTypeOK'
      <3>1. CASE (Return("error") \/ Panic) /\ (Succeeds \/ Fails)
        BY <3>1, FinishType DEF Return, Panic, CallTypeOK
      <3>2. CASE Succeeds /\ Proceed("read") /\ UNCHANGED copies
        BY <3>2, ProceedType DEF copies, CallTypeOK
      <3> QED
        BY <1>10, <3>1, <3>2 DEF ReadPool, RequestFails
    <2>2. ASSUME NEW v, Exists(v.pool_ref) PROVE Reported(v) \in Carried
      BY <2>2, ExistingType DEF Reported, Carried
    <2>3. ListTypeOK'
      BY <1>10, <2>2 DEF ReadPool, ListTypeOK
    <2> QED
      BY <1>10, <2>1, <2>3 DEF ReadPool, ControllerOK, AcceptsVS, Exists, Named
  <1>11. CASE EndList
    <2>1. CallTypeOK'
      BY <1>11, FinishType DEF EndList
    <2> QED
      BY <1>11, <2>1 DEF EndList, ControllerOK, ListTypeOK, AcceptsVS, Exists, Named
  <1>12. CASE Drift
    <2>1. edits' \in 0..MaxEdits
      BY <1>12, AviAssumption DEF Drift
    <2>2. CallTypeOK' /\ ListTypeOK'
      BY <1>12 DEF Drift, CallTypeOK, ListTypeOK, request, copies
    <2>3. ControllerOK'
      <3>1. ASSUME NEW id \in Ids, NEW t \in Targets, Exists(id), UNCHANGED vs,
                   pools' = [pools EXCEPT ![id].servers =
                                IF t \in @ THEN @ \ {t} ELSE @ \cup {t}]
            PROVE  ControllerOK'
        <4> DEFINE p == [pools[id] EXCEPT !.servers =
                            IF t \in @ THEN @ \ {t} ELSE @ \cup {t}]
        <4>1. p \in PoolObjects /\ p.name = pools[id].name
          BY <3>1, ExistingType DEF PoolObjects
        <4>2. pools' = [pools EXCEPT ![id] = p]
          BY <3>1
        <4>3. Named(p.name) \subseteq {id}
          BY <3>1, <4>1 DEF ControllerOK, Named
        <4> HIDE DEF p
        <4> QED
          BY <3>1, <4>1, <4>2, <4>3, PutPool
      <3>2. ASSUME NEW l \in LBs, NEW id \in Ids \cup {NoPool},
                   id = NoPool \/ Exists(id), UNCHANGED pools,
                   vs' = [vs EXCEPT ![l].pool_ref = id]
            PROVE  ControllerOK'
        <4> DEFINE v == [vs[l] EXCEPT !.pool_ref = id]
        <4>1. v \in VirtualServices /\ v.pool_ref = id
          BY DEF ControllerOK, VirtualServices
        <4>2. vs' = [vs EXCEPT ![l] = v]
          BY <3>2
        <4>3. AcceptsVS(v)
          BY <3>2, <4>1 DEF AcceptsVS
        <4> HIDE DEF v
        <4> QED
          BY <3>2, <4>1, <4>2, <4>3, PutVS
      <3>3. ASSUME NEW id \in Ids, Exists(id), ~Referenced(id), UNCHANGED vs,
                   pools' = [pools EXCEPT ![id] = Deleted]
            PROVE  ControllerOK'
        <4>1. /\ \A i \in Ids \ {id} : pools'[i] = pools[i]
              /\ pools'[id] = Deleted
              /\ pools' \in [Ids -> PoolObjects \cup {NoPool, Deleted}]
          BY <3>3 DEF ControllerOK
        <4>2. \A l \in LBs : AcceptsVS(vs[l])'
          BY <3>3, <4>1 DEF ControllerOK, AcceptsVS, Exists, Referenced
        <4>3. \A i, j \in Ids : Exists(i)' /\ j \in Named(pools[i].name)' => i = j
          BY <4>1 DEF ControllerOK, Exists, Named
        <4> QED
          BY <3>3, <4>1, <4>2, <4>3 DEF ControllerOK
      <3> QED
        BY <1>12, <3>1, <3>2, <3>3 DEF Drift
    <2> QED
      BY <2>1, <2>2, <2>3
  <1>13. CASE Crash
    <2>1. CallTypeOK'
      BY <1>13, FinishType DEF Crash, Panic
    <2> QED
      BY <1>13, <2>1 DEF Crash, ControllerOK, ListTypeOK, AcceptsVS, Exists, Named
  <1>14. CASE UNCHANGED vars
    BY <1>14 DEF vars, request, copies, CallTypeOK, ControllerOK, ListTypeOK, AcceptsVS,
                 Exists, Named
  <1> QED
    BY <1>1, <1>2, <1>3, <1>4, <1>5, <1>6, <1>7, <1>8, <1>9, <1>10, <1>11,
       <1>12, <1>13, <1>14 DEF Next

(* Only an operator uses up an uuid.                                       *)
LEMMA SpentStep ==
    ASSUME TypeOK, TypeOK', Spent, Control, [Next]_vars
    PROVE  Spent'
  <1>1. CASE UNCHANGED <<pools, edits>>
    BY <1>1 DEF Spent, Gone
  <1>2. ASSUME UNCHANGED edits,
               \A id \in Ids : pools'[id] = Deleted => pools[id] = Deleted
        PROVE  Spent'
    <2>1. Gone' \subseteq Gone
      BY <1>2 DEF Gone
    <2>2. IsFiniteSet(Gone') /\ Cardinality(Gone') <= Cardinality(Gone)
      BY <2>1, FS_Subset DEF Spent
    <2>3. /\ Cardinality(Gone) \in Nat /\ Cardinality(Gone') \in Nat /\ edits \in Nat
          /\ Cardinality(Gone) <= edits
      BY <2>2, FS_CardinalityType DEF Spent, TypeOK
    <2> QED
      BY <1>2, <2>2, <2>3 DEF Spent
  <1>3. CASE EnsurePool
    <2>1. \A n : [name |-> n, servers |-> {}] # Deleted \/ n \notin Pools
      BY AviAssumption DEF PoolObjects
    <2>2. poolName \in Pools
      BY <1>3 DEF EnsurePool, Control
    <2>3. \A id \in Ids : pools'[id] = Deleted => pools[id] = Deleted
      BY <1>3, <2>1, <2>2 DEF EnsurePool, TypeOK
    <2> QED
      BY <1>2, <1>3, <2>3 DEF EnsurePool
  <1>4. CASE ConvergePoolMembers
    <2> DEFINE new == [name |-> poolCopy.name, servers |-> Converged(poolCopy.servers)]
    <2>1. poolCopy \in PoolCopies /\ op \in {"add", "update", "remove"}
      BY <1>4 DEF ConvergePoolMembers, Control, TypeOK
    <2>2. poolCopy.servers \subseteq Targets /\ tasks \subseteq Targets
      BY <2>1 DEF PoolCopies, TypeOK
    <2>3. Converged(poolCopy.servers) \subseteq Targets
      BY <2>1, <2>2, ConvergedValue
    <2>4. new \in PoolObjects
      BY <2>1, <2>3 DEF PoolObjects, PoolCopies
    <2>5. new # Deleted
      BY <2>4, AviAssumption
    <2> HIDE DEF new
    <2>6. pools' = pools \/ pools' = [pools EXCEPT ![poolCopy.uuid] = new]
      BY <1>4 DEF ConvergePoolMembers, new
    <2>7. \A id \in Ids : pools'[id] = Deleted => pools[id] = Deleted
      BY <2>5, <2>6 DEF TypeOK
    <2> QED
      BY <1>2, <1>4, <2>7 DEF ConvergePoolMembers
  <1>5. CASE Drift
    <2>1. edits' = edits + 1 /\ edits \in Nat
      BY <1>5 DEF Drift, TypeOK
    <2>2. PICK id \in Ids : Gone' \subseteq Gone \cup {id}
      <3>1. ASSUME NEW i \in Ids, NEW t \in Targets, Exists(i),
                   pools' = [pools EXCEPT ![i].servers =
                                IF t \in @ THEN @ \ {t} ELSE @ \cup {t}]
            PROVE  Gone' \subseteq Gone \cup {i}
        BY <3>1 DEF Gone, TypeOK
      <3>2. ASSUME NEW i \in Ids, pools' = [pools EXCEPT ![i] = Deleted]
            PROVE  Gone' \subseteq Gone \cup {i}
        BY <3>2 DEF Gone, TypeOK
      <3>3. UNCHANGED pools => Gone' = Gone
        BY DEF Gone
      <3>4. \E i \in Ids : TRUE
        <4>1. Cardinality(Ids) # 0
          BY <1>5, AviAssumption, FS_CardinalityType DEF Drift, TypeOK
        <4> QED
          BY <4>1, FS_EmptySet
      <3> QED
        BY <1>5, <3>1, <3>2, <3>3, <3>4 DEF Drift
    <2>3. /\ IsFiniteSet(Gone \cup {id})
          /\ Cardinality(Gone \cup {id}) <= Cardinality(Gone) + 1
          /\ Cardinality(Gone) \in Nat /\ Cardinality(Gone) <= edits
      <3>1. IsFiniteSet(Gone) /\ Cardinality(Gone) <= edits
        BY DEF Spent
      <3>2. Cardinality(Gone) \in Nat
        BY <3>1, FS_CardinalityType
      <3>3. /\ IsFiniteSet(Gone \cup {id})
            /\ Cardinality(Gone \cup {id}) =
                  IF id \in Gone THEN Cardinality(Gone) ELSE Cardinality(Gone) + 1
        BY <3>1, FS_AddElement
      <3> QED
        BY <3>1, <3>2, <3>3
    <2>4. /\ IsFiniteSet(Gone') /\ Cardinality(Gone') \in Nat
          /\ Cardinality(Gone') <= Cardinality(Gone \cup {id})
          /\ Cardinality(Gone \cup {id}) \in Nat
      BY <2>2, <2>3, FS_Subset, FS_CardinalityType
    <2> QED
      BY <2>1, <2>3, <2>4 DEF Spent
  <1> QED
    BY <1>1, <1>3, <1>4, <1>5
       DEF Next, vars, controller, Begin, GetVS, AttachPool, CheckExistingPool,
           UpdateVsMetadata, BeginList, GetAllVses, ReadPool, EndList, Crash

(* The pool that a call goes on with exists and bears the wanted name.     *)
LEMMA EnsurePoolUses ==
    ASSUME TypeOK, Spent, Control, EnsurePool
    PROVE  \/ UNCHANGED pools /\ RequestFails
           \/ \E id \in Ids :
                 /\ \/ UNCHANGED pools /\ Exists(id) /\ pools[id].name = poolName
                    \/ /\ pools[id] = NoPool
                       /\ pools' = [pools EXCEPT ![id] =
                                       [name |-> poolName, servers |-> {}]]
                 /\ pools'[id] \in PoolObjects /\ pools'[id].name = poolName
                 /\ \/ RequestFails
                    \/ /\ Succeeds /\ Proceed("attach") /\ UNCHANGED vsCopy
                       /\ poolCopy' = [uuid |-> id, name |-> poolName,
                                       servers |-> pools'[id].servers]
  <1> DEFINE fresh == CHOOSE id \in Ids : pools[id] = NoPool
             new == [name |-> poolName, servers |-> {}]
             Use(id) == /\ Succeeds /\ Proceed("attach") /\ UNCHANGED vsCopy
                        /\ poolCopy' = Copy(id, pools'[id])
  <1>1. poolName \in Pools
    BY DEF EnsurePool, Control
  <1>2. ASSUME NEW id \in Named(poolName), UNCHANGED pools, Use(id)
        PROVE  /\ id \in Ids /\ Exists(id) /\ pools[id].name = poolName
               /\ pools'[id] \in PoolObjects /\ pools'[id].name = poolName
               /\ poolCopy' = [uuid |-> id, name |-> poolName,
                               servers |-> pools'[id].servers]
    BY <1>2, ExistingType DEF Named, Copy
  <1>3. ASSUME Named(poolName) = {}, pools' = [pools EXCEPT ![fresh] = new]
        PROVE  /\ fresh \in Ids /\ pools[fresh] = NoPool
               /\ pools'[fresh] = new /\ new \in PoolObjects /\ new.name = poolName
    <2>1. fresh \in Ids /\ pools[fresh] = NoPool
      <3>1. \E id \in Ids : pools[id] = NoPool
        BY <1>1, <1>3, FreshExists
      <3> QED
        BY <3>1
    <2> HIDE DEF fresh
    <2> QED
      BY <1>1, <1>3, <2>1 DEF TypeOK, PoolObjects
  <1> HIDE DEF fresh, new
  <1>4. ASSUME Named(poolName) = {}, pools' = [pools EXCEPT ![fresh] = new], Use(fresh)
        PROVE  poolCopy' = [uuid |-> fresh, name |-> poolName,
                            servers |-> pools'[fresh].servers]
    BY <1>3, <1>4 DEF Copy
  <1>5. \/ UNCHANGED pools /\ \E id \in Named(poolName) : Use(id)
        \/ /\ Named(poolName) = {} /\ pools' = [pools EXCEPT ![fresh] = new]
           /\ Use(fresh) \/ RequestFails
        \/ UNCHANGED pools /\ RequestFails
    BY DEF EnsurePool, fresh, new
  <1>6. CASE UNCHANGED pools /\ \E id \in Named(poolName) : Use(id)
    BY <1>2, <1>6
  <1>7. CASE /\ Named(poolName) = {} /\ pools' = [pools EXCEPT ![fresh] = new]
             /\ Use(fresh) \/ RequestFails
    BY <1>3, <1>4, <1>7 DEF new
  <1> QED
    BY <1>5, <1>6, <1>7

(* The call's kind and place keep in step.                                 *)
LEMMA ControlStep ==
    ASSUME TypeOK, TypeOK', Spent, Control, [Next]_vars
    PROVE  Control'
  <1> USE DEF Control, request, copies
  <1> USE DEF Succeeds, Fails, Proceed, Finish, Return, RequestFails, Panic
  <1>1. CASE Begin
    <2>1. poolName' \in Pools
      <3>1. ASSUME NEW c \in Configs PROVE c.LBTargetPoolName \in Pools
        BY ConfigsAssumption, PoolsAssumption DEF LBConfigs
      <3>2. ASSUME NEW e, OnList(e) PROVE lbConfigs[e].LBTargetPoolName \in Pools
        BY <3>2 DEF OnList, Ours, TypeOK, Carried
      <3> QED
        BY <1>1, <3>1, <3>2 DEF Begin
    <2> QED
      BY <1>1, <2>1 DEF Begin, TypeOK
  <1>2. CASE GetVS
    BY <1>2 DEF GetVS, TypeOK
  <1>3. CASE EnsurePool
    <2>1. CASE RequestFails
      BY <1>3, <2>1
    <2>2. ASSUME NEW id \in Ids, Proceed("attach"), UNCHANGED vsCopy,
                 pools'[id] \in PoolObjects,
                 poolCopy' = [uuid |-> id, name |-> poolName,
                              servers |-> pools'[id].servers]
          PROVE  Control'
      <3>1. poolName \in Pools
        BY <1>3 DEF EnsurePool
      <3>2. poolCopy' \in PoolCopies /\ poolCopy'.name = poolName
        BY <2>2, <3>1 DEF PoolCopies, PoolObjects
      <3> QED
        BY <1>3, <2>2, <3>2 DEF EnsurePool
    <2> QED
      BY <1>3, <2>1, <2>2, EnsurePoolUses
  <1>4. CASE AttachPool
    BY <1>4, AviAssumption DEF AttachPool, VirtualServices, PoolCopies
  <1>5. CASE CheckExistingPool
    <2>1. ASSUME NEW id, Exists(id), pc = "readPool"
          PROVE  /\ [Copy(id, pools[id]) EXCEPT !.name = poolName] \in PoolCopies
                 /\ [Copy(id, pools[id]) EXCEPT !.name = poolName].name = poolName
                 /\ [Copy(id, pools[id]) EXCEPT !.name = poolName].uuid = id
      BY <2>1, ExistingType DEF Copy, PoolCopies
    <2> QED
      BY <1>5, <2>1 DEF CheckExistingPool
  <1>6. CASE ConvergePoolMembers
    BY <1>6 DEF ConvergePoolMembers, MembersDone, MembersFailed
  <1>7. CASE UpdateVsMetadata
    BY <1>7 DEF UpdateVsMetadata
  <1>8. CASE BeginList
    BY <1>8 DEF BeginList
  <1>9. CASE GetAllVses \/ ReadPool \/ EndList
    BY <1>9 DEF GetAllVses, ReadPool, EndList
  <1>10. CASE Drift
    BY <1>10 DEF Drift
  <1>11. CASE Crash
    BY <1>11 DEF Crash
  <1>12. CASE UNCHANGED vars
    BY <1>12 DEF vars
  <1> QED
    BY <1>1, <1>2, <1>3, <1>4, <1>5, <1>6, <1>7, <1>8, <1>9, <1>10, <1>11,
       <1>12 DEF Next

(* The copies are what the controller holds, unless somebody edits.        *)
LEMMA CopiesStep ==
    ASSUME TypeOK, TypeOK', Spent, Control, Control', Copies, [Next]_vars
    PROVE  Copies'
  <1> USE DEF Copies, controller, request, copies
  <1> USE DEF Succeeds, Fails, Proceed, Finish, Return, RequestFails, Panic
  <1>1. CASE Begin
    BY <1>1 DEF Begin
  <1>2. CASE GetVS
    BY <1>2 DEF GetVS
  <1>3. CASE EnsurePool
    <2>1. CASE RequestFails
      BY <2>1
    <2>2. ASSUME NEW id \in Ids, Proceed("attach"), UNCHANGED <<vs, vsCopy>>,
                 pools'[id] \in PoolObjects, pools'[id].name = poolName,
                 poolCopy' = [uuid |-> id, name |-> poolName,
                              servers |-> pools'[id].servers]
          PROVE  Copies'
      <3>1. Exists(id)'
        BY <2>2, AviAssumption DEF Exists
      <3>2. poolCopy'.uuid = id /\ poolCopy'.servers = pools'[id].servers
        BY <2>2
      <3>3. ~disturbed => vs[lbName] = vsCopy
        BY <1>3 DEF EnsurePool
      <3>4. Exists(poolCopy.uuid)'
        BY <3>1, <3>2 DEF Exists
      <3> QED
        BY <2>2, <3>2, <3>3, <3>4
    <2> QED
      BY <1>3, <2>1, <2>2, EnsurePoolUses DEF EnsurePool
  <1>4. CASE AttachPool
    <2> DEFINE copy == [vsCopy EXCEPT !.pool_ref = poolCopy.uuid]
    <2>1. CASE pc' = "idle"
      BY <2>1
    <2>2. CASE /\ vs' = [vs EXCEPT ![lbName] = copy] /\ vsCopy' = copy
               /\ Proceed("putPool") /\ UNCHANGED <<pools, poolCopy>>
      <3>1. lbName \in LBs /\ pc = "attach"
        BY <1>4 DEF AttachPool, Control
      <3>2. vs'[lbName] = vsCopy'
        BY <2>2, <3>1 DEF TypeOK
      <3>3. Exists(poolCopy.uuid)' <=> Exists(poolCopy.uuid)
        BY <2>2 DEF Exists
      <3> QED
        BY <2>2, <3>1, <3>2, <3>3
    <2> QED
      BY <1>4, <2>1, <2>2 DEF AttachPool
  <1>5. CASE CheckExistingPool
    <2>1. CASE pc' = "idle"
      BY <2>1
    <2>2. CASE /\ Exists(vsCopy.pool_ref)
               /\ pools[vsCopy.pool_ref].name \notin RancherPools \ {poolName}
               /\ poolCopy' = [Copy(vsCopy.pool_ref, pools[vsCopy.pool_ref])
                                  EXCEPT !.name = poolName]
               /\ UNCHANGED <<vsCopy, vs, pools>> /\ Proceed("putPool")
      <3>1. /\ poolCopy'.uuid = vsCopy.pool_ref
            /\ poolCopy'.servers = pools[vsCopy.pool_ref].servers
        BY <2>2 DEF Copy
      <3>2. Exists(poolCopy.uuid)'
        BY <2>2, <3>1 DEF Exists
      <3>3. ~disturbed => vs[lbName] = vsCopy
        BY <1>5 DEF CheckExistingPool
      <3> QED
        BY <2>2, <3>1, <3>2, <3>3
    <2> QED
      BY <1>5, <2>1, <2>2 DEF CheckExistingPool
  <1>6. CASE ConvergePoolMembers
    <2>1. CASE pc' = "idle"
      BY <2>1
    <2>2. CASE op = "add" /\ Proceed("tag") /\ UNCHANGED <<copies, vs>> /\ ~disturbed
      <3>1. /\ poolCopy \in PoolCopies /\ vsCopy.pool_ref = poolCopy.uuid
            /\ vs[lbName] = vsCopy /\ Exists(poolCopy.uuid)
            /\ pools[poolCopy.uuid].servers = poolCopy.servers
        BY <1>6, <2>2 DEF ConvergePoolMembers, Control
      <3>2. CASE ~NeedsPut(poolCopy.servers) /\ UNCHANGED pools
        <4>1. tasks \subseteq poolCopy.servers
          BY <2>2, <3>2, ConvergedValue DEF NeedsPut
        <4>2. Exists(vsCopy.pool_ref)'
          BY <2>2, <3>1, <3>2 DEF Exists
        <4> QED
          BY <2>2, <3>1, <3>2, <4>1, <4>2
      <3>3. CASE pools' = [pools EXCEPT ![poolCopy.uuid] =
                             [name |-> poolCopy.name,
                              servers |-> Converged(poolCopy.servers)]]
        <4>1. /\ poolCopy.uuid \in Ids
              /\ pools'[poolCopy.uuid] = [name |-> poolCopy.name,
                                          servers |-> Converged(poolCopy.servers)]
          BY <3>1, <3>3 DEF PoolCopies, TypeOK
        <4>2. tasks \subseteq pools'[poolCopy.uuid].servers
          BY <2>2, <4>1, ConvergedValue
        <4>3. [name |-> poolCopy.name, servers |-> Converged(poolCopy.servers)]
                 \in PoolObjects
          <5>1. poolCopy.servers \cup tasks \subseteq Targets
            BY <3>1 DEF PoolCopies, TypeOK
          <5> QED
            BY <2>2, <3>1, <5>1, ConvergedValue DEF PoolCopies, PoolObjects
        <4>4. Exists(poolCopy.uuid)'
          BY <2>2, <4>1, <4>3, AviAssumption DEF Exists
        <4>5. Exists(vsCopy.pool_ref)'
          BY <2>2, <3>1, <4>4 DEF Exists
        <4> QED
          BY <2>2, <3>1, <4>2, <4>5
      <3> QED
        BY <1>6, <2>2, <3>2, <3>3 DEF ConvergePoolMembers, MembersFailed
    <2>3. CASE Proceed("tag") /\ disturbed
      BY <2>3
    <2> QED
      BY <1>6, <2>1, <2>2, <2>3 DEF ConvergePoolMembers, MembersDone, MembersFailed
  <1>7. CASE UpdateVsMetadata
    BY <1>7 DEF UpdateVsMetadata
  <1>8. CASE BeginList
    BY <1>8 DEF BeginList
  <1>9. CASE GetAllVses \/ ReadPool \/ EndList
    BY <1>9 DEF GetAllVses, ReadPool, EndList
  <1>10. CASE Drift
    <2>1. ASSUME NEW i \in Ids, Exists(i)'
          PROVE  Exists(i) /\ pools'[i].name = pools[i].name
      <3>1. ASSUME NEW id \in Ids, NEW t \in Targets, Exists(id),
                   pools' = [pools EXCEPT ![id].servers =
                                IF t \in @ THEN @ \ {t} ELSE @ \cup {t}]
            PROVE  Exists(i) /\ pools'[i].name = pools[i].name
        <4>1. i # id => pools'[i] = pools[i]
          BY <3>1 DEF TypeOK
        <4>2. i = id => pools'[i].name = pools[i].name
          BY <3>1, ExistingType DEF TypeOK, PoolObjects
        <4> QED
          BY <2>1, <3>1, <4>1, <4>2 DEF Exists
      <3>2. ASSUME NEW id \in Ids, pools' = [pools EXCEPT ![id] = Deleted]
            PROVE  Exists(i) /\ pools'[i].name = pools[i].name
        BY <2>1, <3>2 DEF Exists, TypeOK
      <3>3. ASSUME UNCHANGED pools
            PROVE  Exists(i) /\ pools'[i].name = pools[i].name
        BY <2>1, <3>3 DEF Exists
      <3> QED
        BY <1>10, <3>1, <3>2, <3>3 DEF Drift
    <2>2. UNCHANGED <<pc, poolCopy, poolName>> /\ disturbed' = (pc # "idle")
      BY <1>10 DEF Drift
    <2>3. Exists(poolCopy.uuid)' =>
             /\ Exists(poolCopy.uuid)
             /\ pools'[poolCopy.uuid].name = pools[poolCopy.uuid].name
      BY <2>1, <2>2 DEF Exists
    <2> QED
      BY <2>2, <2>3
  <1>11. CASE Crash
    BY <1>11 DEF Crash
  <1>12. CASE UNCHANGED vars
    BY <1>12 DEF vars, Exists
  <1> QED
    BY <1>1, <1>2, <1>3, <1>4, <1>5, <1>6, <1>7, <1>8, <1>9, <1>10, <1>11,
       <1>12 DEF Next

(* The listing is what there is, unless somebody edits.                    *)
LEMMA ListingStep ==
    ASSUME TypeOK, Control, Listing, [Next]_vars
    PROVE  Listing'
  <1> USE DEF Listing, controller, request, copies, listing
  <1> USE DEF Succeeds, Fails, Proceed, Finish, Return, RequestFails, Panic
  <1>1. CASE Begin
    BY <1>1 DEF Begin
  <1>2. CASE GetVS \/ EnsurePool \/ AttachPool
    BY <1>2 DEF GetVS, EnsurePool, AttachPool
  <1>3. CASE CheckExistingPool \/ ConvergePoolMembers \/ UpdateVsMetadata
    BY <1>3 DEF CheckExistingPool, ConvergePoolMembers, MembersDone, MembersFailed,
                UpdateVsMetadata
  <1>4. CASE BeginList
    BY <1>4 DEF BeginList
  <1>5. CASE GetAllVses
    BY <1>5 DEF GetAllVses
  <1>6. CASE ReadPool
    <2>1. CASE pc' = "idle"
      BY <2>1
    <2>2. ASSUME NEW l \in todo, todo' = todo \ {l}, ~disturbed, pc = "read",
                 lbConfigs' = [lbConfigs EXCEPT ![l] = Reported(allVses[l])],
                 UNCHANGED <<vs, pools, allVses>>, Proceed("read")
          PROVE  Listing'
      <3>1. l \in CloudLBs /\ vs[l].tagged /\ l \in LBs
        BY <2>2, AviAssumption
      <3>2. lbConfigs'[l] = Reported(vs[l])
            /\ \A m \in LBs \ {l} : lbConfigs'[m] = lbConfigs[m]
        BY <2>2, <3>1 DEF TypeOK
      <3>3. \A m \in LBs : Reported(vs[m])' = Reported(vs[m])
        BY <2>2 DEF Reported
      <3> QED
        BY <2>2, <3>1, <3>2, <3>3
    <2>3. CASE disturbed /\ Proceed("read")
      BY <2>3
    <2> QED
      BY <1>6, <2>1, <2>2, <2>3 DEF ReadPool
  <1>7. CASE EndList
    BY <1>7 DEF EndList
  <1>8. CASE Drift
    BY <1>8 DEF Drift
  <1>9. CASE Crash
    BY <1>9 DEF Crash
  <1>10. CASE UNCHANGED vars
    BY <1>10 DEF vars, Reported
  <1> QED
    BY <1>1, <1>2, <1>3, <1>4, <1>5, <1>6, <1>7, <1>8, <1>9, <1>10 DEF Next

(* What is written with a tag has a pool.                                  *)
LEMMA TaggedStep ==
    ASSUME TypeOK, Control, TaggedHasPool, [Next]_vars
    PROVE  TaggedHasPool'
  <1>1. CASE AttachPool
    <2>1. /\ poolCopy.uuid # NoPool /\ lbName \in LBs
          /\ vsCopy \in VirtualServices
      BY <1>1, AviAssumption DEF AttachPool, Control, PoolCopies
    <2>2. [vsCopy EXCEPT !.pool_ref = poolCopy.uuid].pool_ref # NoPool
      BY <2>1 DEF VirtualServices
    <2> QED
      BY <1>1, <2>1, <2>2 DEF AttachPool, TaggedHasPool, TypeOK
  <1>2. CASE UpdateVsMetadata
    <2>1. /\ vsCopy.pool_ref # NoPool /\ lbName \in LBs
          /\ vsCopy \in VirtualServices
      BY <1>2 DEF UpdateVsMetadata, Control
    <2>2. [vsCopy EXCEPT !.tagged = TRUE].pool_ref # NoPool
      BY <2>1 DEF VirtualServices
    <2> QED
      BY <1>2, <2>1, <2>2 DEF UpdateVsMetadata, TaggedHasPool, TypeOK
  <1>3. CASE Drift
    <2>1. edits' # 0
      BY <1>3 DEF Drift, TypeOK
    <2> QED
      BY <2>1 DEF TaggedHasPool
  <1>4. CASE UNCHANGED <<vs, edits>>
    BY <1>4 DEF TaggedHasPool
  <1> QED
    BY <1>1, <1>2, <1>3, <1>4
       DEF Next, vars, controller, Begin, GetVS, EnsurePool, CheckExistingPool,
           ConvergePoolMembers, BeginList, GetAllVses, ReadPool, EndList, Crash

-----------------------------------------------------------------------------
(* Where calls return.                                                     *)

(* The steps with which the calls return without an error.                 *)
LEMMA ReturningSteps ==
    ASSUME TypeOK, Control, [Next]_vars, Returns({"list", "add", "update", "remove"})
    PROVE  /\ op = "list" => EndList
           /\ op = "update" => ConvergePoolMembers
           /\ op = "remove" /\ vs[lbName].pool_ref # NoPool => ConvergePoolMembers
           /\ op = "add" /\ pc = "tag" => UpdateVsMetadata
  <1> USE DEF Returns
  <1> USE DEF Proceed, Finish, Return, RequestFails, Panic
  <1>1. ~Begin /\ ~BeginList /\ ~Drift /\ ~UNCHANGED vars
    BY DEF Begin, BeginList, Drift, vars
  <1>2. ~Crash /\ ~GetAllVses
    BY DEF Crash, GetAllVses
  <1>3. ReadPool => FALSE
    BY DEF ReadPool
  <1>4. EnsurePool \/ AttachPool \/ CheckExistingPool => FALSE
    BY DEF EnsurePool, AttachPool, CheckExistingPool
  <1>5. GetVS => op = "remove" /\ vs[lbName].pool_ref = NoPool
    BY DEF GetVS, Control
  <1>6. UpdateVsMetadata => op = "add"
    BY DEF UpdateVsMetadata, Control
  <1>7. ConvergePoolMembers => op # "list" /\ pc # "tag"
    BY DEF ConvergePoolMembers, Control
  <1>8. EndList => op = "list"
    BY DEF EndList, Control
  <1> QED
    BY <1>1, <1>2, <1>3, <1>4, <1>5, <1>6, <1>7, <1>8 DEF Next

(* An update or a removal ends with the servers it was to leave.           *)
LEMMA MembersWritten ==
    ASSUME TypeOK, Control, Copies, ConvergePoolMembers,
           Returns({"update", "remove"})
    PROVE  /\ op = "update" => PoolLeft.name = poolName /\ PoolLeft.servers = tasks
           /\ op = "remove" => tasks \cap PoolLeft.servers = {}
  <1> DEFINE uuid == poolCopy.uuid
             new == [name |-> poolCopy.name, servers |-> Converged(poolCopy.servers)]
  <1>1. /\ ~disturbed /\ pc = "putPool" /\ pc' = "idle" /\ outcome' = "ok"
        /\ op \in {"update", "remove"} /\ UNCHANGED vs
    BY DEF Returns, ConvergePoolMembers
  <1>2. /\ lbName \in LBs /\ poolCopy \in PoolCopies /\ poolCopy.name = poolName
        /\ vs[lbName].pool_ref = uuid
        /\ pools[uuid].servers = poolCopy.servers
    BY <1>1 DEF Control, Copies
  <1>3. PoolLeft = pools'[uuid]
    BY <1>1, <1>2 DEF PoolLeft
  <1>4. \/ ~NeedsPut(poolCopy.servers) /\ UNCHANGED pools
        \/ pools' = [pools EXCEPT ![uuid] = new]
    BY <1>1 DEF ConvergePoolMembers, MembersFailed, Return, Finish
  <1>5. CASE ~NeedsPut(poolCopy.servers) /\ UNCHANGED pools
    <2>1. op = "remove" /\ poolCopy.servers = poolCopy.servers \ tasks
      BY <1>1, <1>5, ConvergedValue DEF NeedsPut
    <2> QED
      BY <1>2, <1>3, <1>5, <2>1
  <1>6. CASE pools' = [pools EXCEPT ![uuid] = new]
    <2>1. pools'[uuid] = new
      BY <1>2, <1>6 DEF PoolCopies, TypeOK
    <2> QED
      BY <1>2, <1>3, <2>1, ConvergedValue
  <1> QED
    BY <1>4, <1>5, <1>6

(* An addition that gets to the tag leaves the tag and its servers.        *)
LEMMA TagWritten ==
    ASSUME TypeOK, Control, Copies, UpdateVsMetadata, Returns({"add"})
    PROVE  vs'[lbName].tagged /\ tasks \subseteq PoolLeft.servers
  <1> DEFINE copy == [vsCopy EXCEPT !.tagged = TRUE]
  <1>1. /\ ~disturbed /\ pc = "tag" /\ outcome' = "ok" /\ UNCHANGED pools
    BY DEF Returns, UpdateVsMetadata
  <1>2. /\ lbName \in LBs /\ vsCopy \in VirtualServices /\ vs[lbName] = vsCopy
        /\ tasks \subseteq pools[vsCopy.pool_ref].servers
    BY <1>1 DEF Control, Copies
  <1>3. copy.tagged /\ copy.pool_ref = vsCopy.pool_ref
    BY <1>2 DEF VirtualServices
  <1>4. \/ vsCopy.tagged /\ UNCHANGED vs
        \/ vs' = [vs EXCEPT ![lbName] = copy]
    BY <1>1 DEF UpdateVsMetadata, RequestFails, Return, Finish
  <1>5. vs'[lbName].tagged /\ vs'[lbName].pool_ref = vsCopy.pool_ref
    BY <1>2, <1>3, <1>4 DEF TypeOK
  <1> QED
    BY <1>1, <1>2, <1>5 DEF PoolLeft

(* What a step of the provider does to a pool that exists: it creates      *)
(* others, or it writes the pool of the call.                              *)
LEMMA PoolsKept ==
    ASSUME TypeOK, Spent, Control, Copies, [Next]_vars, edits' = edits,
           NEW id, Exists(id)
    PROVE  \/ pools'[id] = pools[id]
           \/ /\ pc = "putPool" /\ id = poolCopy.uuid
              /\ pools'[id] = [name |-> poolCopy.name,
                               servers |-> Converged(poolCopy.servers)]
  <1>0. id \in Ids /\ pools[id] # NoPool
    BY DEF Exists
  <1>1. CASE UNCHANGED pools
    BY <1>1
  <1>2. CASE EnsurePool
    BY <1>0, <1>2, EnsurePoolUses DEF TypeOK
  <1>3. CASE ConvergePoolMembers
    BY <1>0, <1>3 DEF ConvergePoolMembers, TypeOK
  <1>4. CASE Drift
    BY <1>4 DEF Drift, TypeOK
  <1> QED
    BY <1>1, <1>2, <1>3, <1>4
       DEF Next, vars, controller, Begin, GetVS, AttachPool, CheckExistingPool,
           UpdateVsMetadata, BeginList, GetAllVses, ReadPool, EndList, Crash

-----------------------------------------------------------------------------
(* The theorems.                                                           *)

(* IInv holds in every reachable state.                                    *)
THEOREM InductiveInvariant == Spec => []IInv
  <1>1. ASSUME IInv, [Next]_vars PROVE IInv'
    <2> USE <1>1 DEF IInv
    <2>1. TypeOK'
      BY TypeStep
    <2>2. Spent' /\ Control'
      BY <2>1, SpentStep, ControlStep
    <2>3. Copies'
      BY <2>1, <2>2, CopiesStep
    <2> QED
      BY <2>1, <2>2, <2>3, ListingStep, TaggedStep
  <1> QED
    BY <1>1, InitInv, PTL DEF Spec

(* Every variable keeps its type; in particular references do not dangle,  *)
(* names of pools are unique and an uuid is left for a new pool            *)
(* (avi.go, avivs.go, aviutils.go).                                        *)
THEOREM TypeCorrect == Spec => []TypeOK
  <1>1. IInv => TypeOK
    BY DEF IInv
  <1> QED
    BY <1>1, InductiveInvariant, PTL

(* Until an operator interferes no virtual service is tagged without a     *)
(* pool, whatever requests fail and wherever the process dies              *)
(* (avi.go:88-131, 187).                                                   *)
THEOREM TagImpliesPool == Spec => []TaggedHasPool
  <1>1. IInv => TaggedHasPool
    BY DEF IInv
  <1> QED
    BY <1>1, InductiveInvariant, PTL

(* A call that returns without an error has left in the pool of its        *)
(* virtual service the servers it was to leave, unless somebody edited     *)
(* meanwhile (avi.go:88-173).                                              *)
THEOREM CallsAchieve == Spec => CallAchieves
  <1>1. ASSUME IInv, [Next]_vars, Returns({"update"})
        PROVE  PoolLeft.name = poolName /\ PoolLeft.servers = tasks
    BY <1>1, ReturningSteps, MembersWritten DEF IInv, Returns
  <1>2. ASSUME IInv, [Next]_vars, Returns({"add"}), pc = "tag"
        PROVE  vs'[lbName].tagged /\ tasks \subseteq PoolLeft.servers
    BY <1>2, ReturningSteps, TagWritten DEF IInv, Returns
  <1>3. ASSUME IInv, [Next]_vars, Returns({"remove"}), vs[lbName].pool_ref # NoPool
        PROVE  tasks \cap PoolLeft.servers = {}
    BY <1>3, ReturningSteps, MembersWritten DEF IInv, Returns
  <1>4. ASSUME IInv, [Next]_vars
        PROVE  [/\ Returns({"update"}) =>
                      PoolLeft.name = poolName /\ PoolLeft.servers = tasks
                /\ Returns({"add"}) /\ pc = "tag" =>
                      vs'[lbName].tagged /\ tasks \subseteq PoolLeft.servers
                /\ Returns({"remove"}) /\ vs[lbName].pool_ref # NoPool =>
                      tasks \cap PoolLeft.servers = {}]_vars
    BY <1>1, <1>2, <1>3, <1>4
  <1> QED
    BY <1>4, InductiveInvariant, PTL DEF Spec, CallAchieves

(* The pools of other services and environments are left alone, even when  *)
(* operators edit meanwhile, and additions and removals touch no server    *)
(* but their own (aviutils.go:51-58, avivs.go:149-224).                    *)
THEOREM OtherPoolsKept == Spec => OthersKept
  <1>1. ASSUME IInv, [Next]_vars, edits' = edits, NEW id \in Ids, Exists(id)
        PROVE  /\ pools[id].name \in RancherPools \ {poolName}
                     => pools'[id] = pools[id]
               /\ ~disturbed /\ op \in {"add", "remove"}
                     => pools[id].servers \ (IF op = "add" THEN {} ELSE tasks)
                           \subseteq pools'[id].servers
    <2> USE <1>1 DEF IInv
    <2>1. CASE pools'[id] = pools[id]
      BY <2>1
    <2>2. CASE /\ pc = "putPool" /\ id = poolCopy.uuid
               /\ pools'[id] = [name |-> poolCopy.name,
                                servers |-> Converged(poolCopy.servers)]
      <3>1. pools[id].name \notin RancherPools \ {poolName}
        BY <2>2 DEF Copies
      <3>2. ~disturbed => pools[id].servers = poolCopy.servers
        BY <2>2 DEF Copies
      <3>3. pools'[id].servers = Converged(poolCopy.servers)
        BY <2>2
      <3> QED
        BY <3>1, <3>2, <3>3, ConvergedValue
    <2> QED
      BY <2>1, <2>2, PoolsKept
  <1>2. ASSUME IInv, [Next]_vars
        PROVE  [edits' = edits =>
                  \A id \in Ids : Exists(id) =>
                     /\ pools[id].name \in RancherPools \ {poolName}
                           => pools'[id] = pools[id]
                     /\ ~disturbed /\ op \in {"add", "remove"}
                           => pools[id].servers \ (IF op = "add" THEN {} ELSE tasks)
                                 \subseteq pools'[id].servers]_vars
    BY <1>1, <1>2
  <1> QED
    BY <1>2, InductiveInvariant, PTL DEF Spec, OthersKept

(* A listing that returns without an error reports every tagged virtual    *)
(* service of the cloud as it is, and no other, unless somebody edited     *)
(* meanwhile (avi.go:175-199).                                             *)
THEOREM ListingIsExact == Spec => ListIsExact
  <1>1. ASSUME IInv, [Next]_vars, Returns({"list"}), NEW l \in LBs
        PROVE  lbConfigs'[l] = IF l \in CloudLBs /\ vs[l].tagged
                               THEN Reported(vs[l]) ELSE NoConfig
    <2>1. EndList /\ ~disturbed
      BY <1>1, ReturningSteps DEF IInv, Returns
    <2>2. pc = "read" /\ todo = {} /\ lbConfigs' = lbConfigs
      BY <2>1 DEF EndList
    <2> QED
      BY <1>1, <2>1, <2>2 DEF IInv, Listing
  <1>2. ASSUME IInv, [Next]_vars
        PROVE  [Returns({"list"}) =>
                  \A l \in LBs :
                     lbConfigs'[l] = IF l \in CloudLBs /\ vs[l].tagged
                                     THEN Reported(vs[l]) ELSE NoConfig]_vars
    BY <1>1, <1>2
  <1> QED
    BY <1>2, InductiveInvariant, PTL DEF Spec, ListIsExact

=============================================================================
