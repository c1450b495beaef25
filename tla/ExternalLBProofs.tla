-------------------------- MODULE ExternalLBProofs --------------------------
(***************************************************************************)
(* Proofs about the reconciliation loop, for every value of the constants. *)
(* IInv is inductive; the invariants of ExternalLB are conjuncts of it and *)
(* its two action properties follow from it step by step.                  *)
(***************************************************************************)
EXTENDS ExternalLB, FiniteSetTheorems, WellFoundedInduction, TLAPS

-----------------------------------------------------------------------------
(* Facts about configurations.                                             *)

(* A wanted configuration has a range of targets, and c is as long as its  *)
(* domain.                                                                 *)
LEMMA TargetList ==
    ASSUME NEW c \in LBConfigs
    PROVE  /\ c.LBTargets \in [1..Len(c.LBTargets) -> Targets]
           /\ Len(c.LBTargets) \in Nat
           /\ DOMAIN c.LBTargets = 1..Len(c.LBTargets)
           /\ Range(c.LBTargets) \subseteq Targets
  <1>1. c.LBTargets \in Seq(Targets)
    BY DEF LBConfigs
  <1> QED
    BY <1>1 DEF Range

(* What a successful call leaves is a configuration a balancer can carry,  *)
(* of this environment, and the one that was asked for.                    *)
LEMMA CarryType ==
    ASSUME NEW c \in Configs
    PROVE  /\ Carry(c) \in Carried
           /\ Carry(c) # NoConfig
           /\ Ours(Carry(c))
           /\ Matches(c, Carry(c))
  <1>1. c \in LBConfigs /\ NoConfig \notin Carried
    BY ConfigsAssumption
  <1>2. c.LBTargetPoolName \in OurPools /\ OurPools \subseteq Pools
    BY <1>1, PoolsAssumption DEF LBConfigs
  <1>3. Range(c.LBTargets) \in SUBSET Targets
    BY <1>1, TargetList
  <1>4. Carry(c) \in Carried
    BY <1>2, <1>3 DEF Carry, Carried
  <1>5. Carry(c).LBTargetPoolName = c.LBTargetPoolName
        /\ Carry(c).LBTargets = Range(c.LBTargets)
    BY DEF Carry
  <1> QED
    BY <1>1, <1>2, <1>4, <1>5 DEF Ours, Matches, EqualFold

(* Whatever a failed call leaves is something a balancer can carry.        *)
LEMMA HalfwayType ==
    ASSUME NEW old \in Carried \cup {NoConfig}, NEW new \in Carried \cup {NoConfig}
    PROVE  Halfway(old, new) \subseteq Carried \cup {NoConfig}
  <1>1. PoolsOf(old) \subseteq Pools /\ PoolsOf(new) \subseteq Pools
    BY DEF PoolsOf, Carried
  <1> QED
    BY <1>1 DEF Halfway, Carried

(* A configuration that needs no update is the wanted one: with as many    *)
(* targets as wanted, one inclusion is enough (external-lb.go:97-116).     *)
LEMMA NoUpdateMatches ==
    ASSUME NEW c \in LBConfigs, NEW x \in Carried, x # NoConfig,
           ~NeedsUpdate(c, x)
    PROVE  Matches(c, x)
  <1> DEFINE s == c.LBTargets
             X == x.LBTargets
  <1>1. X \subseteq Targets /\ IsFiniteSet(X)
    BY TargetsAssumption, FS_Subset DEF Carried
  <1>2. /\ s \in [1..Len(s) -> Targets]
        /\ Len(s) \in Nat
        /\ DOMAIN s = 1..Len(s)
    BY TargetList
  <1>3. /\ EqualFold(c.LBTargetPoolName, x.LBTargetPoolName)
        /\ Len(s) = Cardinality(X)
        /\ \A i \in 1..Len(s) : s[i] \in X
    BY <1>2 DEF NeedsUpdate, TargetsDiffer
  <1>4. Range(s) \subseteq X
    BY <1>2, <1>3 DEF Range
  <1>5. ASSUME IsInjective(s) PROVE Range(s) = X
    <2>1. s \in Injection(1..Len(s), X)
      BY <1>2, <1>3, <1>5 DEF Injection, IsInjective
    <2>2. IsFiniteSet(1..Len(s)) /\ Cardinality(1..Len(s)) = Len(s)
      BY <1>2, FS_Interval
    <2>3. s \in Surjection(1..Len(s), X)
      BY <1>1, <1>3, <2>1, <2>2, FS_Injection
    <2> QED
      BY <1>2, <2>3 DEF Surjection, Range
  <1> QED
    BY <1>3, <1>4, <1>5 DEF Matches

(* Conversely, what matches an injective target list needs no update.      *)
LEMMA MatchesNoUpdate ==
    ASSUME NEW c \in LBConfigs, NEW x \in Carried,
           Matches(c, x), IsInjective(c.LBTargets)
    PROVE  ~NeedsUpdate(c, x)
  <1> DEFINE s == c.LBTargets
             X == x.LBTargets
  <1>1. X \subseteq Targets /\ IsFiniteSet(X)
    BY TargetsAssumption, FS_Subset DEF Carried
  <1>2. /\ s \in [1..Len(s) -> Targets]
        /\ Len(s) \in Nat
        /\ DOMAIN s = 1..Len(s)
    BY TargetList
  <1>3. Range(s) = X /\ EqualFold(c.LBTargetPoolName, x.LBTargetPoolName)
    BY DEF Matches
  <1>4. s \in Injection(1..Len(s), X)
    BY <1>2, <1>3 DEF Injection, IsInjective, Range
  <1>5. s \in Surjection(1..Len(s), X)
    BY <1>2, <1>3, <1>4 DEF Injection, Surjection, Range
  <1>6. IsFiniteSet(1..Len(s)) /\ Cardinality(1..Len(s)) = Len(s)
    BY <1>2, FS_Interval
  <1>7. Len(s) = Cardinality(X)
    BY <1>1, <1>4, <1>5, <1>6, FS_Injection
  <1>8. \A i \in DOMAIN s : s[i] \in X
    BY <1>3 DEF Range
  <1> QED
    BY <1>3, <1>7, <1>8 DEF NeedsUpdate, TargetsDiffer

-----------------------------------------------------------------------------
(* Facts about the steps.                                                  *)

(* A provider call changes e at most; if it did not fail, e carries new.   *)
LEMMA ProviderCallEffect ==
    ASSUME TypeOK, NEW e \in Endpoints, NEW new \in Carried \cup {NoConfig},
           ProviderCall(e, new)
    PROVE  /\ lb' \in [LBs -> Carried \cup {NoConfig}]
           /\ failures' \in 0..MaxFailures
           /\ failed' \subseteq Endpoints
           /\ failed \subseteq failed'
           /\ failed' \subseteq failed \cup {e}
           /\ \A d \in LBs \ {e} : lb'[d] = lb[d]
           /\ e \in LBs \ failed' => lb'[e] = new
  <1>1. /\ lb \in [LBs -> Carried \cup {NoConfig}]
        /\ failed \subseteq Endpoints
        /\ failures \in 0..MaxFailures
        /\ MaxFailures \in Nat
    BY BoundsAssumption DEF TypeOK
  <1>2. CASE e \in LBs /\ Succeeds /\ lb' = [lb EXCEPT ![e] = new]
             /\ UNCHANGED failed
    BY <1>1, <1>2 DEF Succeeds
  <1>3. CASE /\ e \in LBs /\ Fails
             /\ \E x \in Halfway(lb[e], new) : lb' = [lb EXCEPT ![e] = x]
             /\ failed' = failed \cup {e}
    <2>1. PICK x \in Halfway(lb[e], new) : lb' = [lb EXCEPT ![e] = x]
      BY <1>3
    <2>2. x \in Carried \cup {NoConfig}
      BY <1>1, <1>3, HalfwayType
    <2>3. failures' \in 0..MaxFailures
      BY <1>1, <1>3 DEF Fails
    <2> QED
      BY <1>1, <1>3, <2>1, <2>2, <2>3
  <1>4. CASE e \notin LBs /\ Succeeds /\ UNCHANGED lb
             /\ failed' = failed \cup {e}
    BY <1>1, <1>4 DEF Succeeds
  <1> QED
    BY <1>2, <1>3, <1>4 DEF ProviderCall

(* LearnFqdn adds members of FqdnLBs only.                                 *)
LEMMA LearnFqdnType ==
    ASSUME TypeOK, NEW e, LearnFqdn(e)
    PROVE  updatedFqdn' \subseteq FqdnLBs
  BY DEF TypeOK, LearnFqdn, Fqdn

(* A new version is neither the current nor the remembered one.            *)
LEMMA NewVersionIsNew ==
    ASSUME NewVersion
    PROVE  mdVersion' \in Versions /\ mdVersion' # mdVersion /\ mdVersion' # version
  BY DEF NewVersion

LEMMA InitInv == Init => IInv
  <1> SUFFICES ASSUME Init PROVE IInv
    OBVIOUS
  <1>1. TypeOK
    <2>1. Nothing \in ConfigMaps
      BY DEF Nothing, ConfigMaps
    <2>2. 0 \in 0..ForceTicks /\ 0 \in 0..MaxChanges /\ 0 \in 0..MaxFailures
      BY BoundsAssumption
    <2>3. lb \in [LBs -> Carried \cup {NoConfig}]
      BY EndpointsAssumption DEF Init
    <2> QED
      BY <2>1, <2>2, <2>3 DEF Init, TypeOK
  <1>2. WorkInPass /\ Fresh /\ PassConverges
    BY DEF Init, WorkInPass, Pending, Fresh, PassConverges
  <1>3. PendingByReason
    BY DEF Init, PendingByReason
  <1>4. NoLostChange
    BY VersionsAssumption DEF Init, NoLostChange
  <1> QED
    BY <1>1, <1>2, <1>3, <1>4 DEF IInv

(* The typing of the whole state is preserved, action by action.           *)
LEMMA TypeStep ==
    ASSUME TypeOK, PendingByReason, [Next]_vars
    PROVE  TypeOK'
  <1> USE EndpointsAssumption, BoundsAssumption
  <1>1. CASE UNCHANGED vars
    BY <1>1 DEF TypeOK, vars, metadata, program, work, history
  <1>2. CASE ServicesChange
    <2>1. mdConfigs' \in ConfigMaps
      BY <1>2 DEF ServicesChange, TypeOK, ConfigMaps
    <2>2. mdVersion' \in Versions
      BY <1>2, NewVersionIsNew DEF ServicesChange
    <2>3. changes' \in 0..MaxChanges
      BY <1>2 DEF ServicesChange, Change, TypeOK
    <2> QED
      BY <1>2, <2>1, <2>2, <2>3
         DEF ServicesChange, TypeOK, program, work, history
  <1>3. CASE Flap
    BY <1>3, NewVersionIsNew DEF Flap, TypeOK, program, work, history
  <1>4. CASE Drift
    <2>1. lb' \in [LBs -> Carried \cup {NoConfig}] /\ touched' \subseteq LBs
      BY <1>4 DEF Drift, TypeOK
    <2>2. changes' \in 0..MaxChanges
      BY <1>4 DEF Drift, Change, TypeOK
    <2> QED
      BY <1>4, <2>1, <2>2 DEF Drift, TypeOK, metadata, program, work
  <1>5. CASE Elapse
    BY <1>5 DEF Elapse, TypeOK, metadata, program, work, history
  <1>6. CASE Crash
    <2>1. age' \in 0..ForceTicks
      BY <1>6 DEF Crash
    <2>2. failures' \in 0..MaxFailures
      BY <1>6 DEF Crash, Fails, TypeOK
    <2>3. metadataLBConfigs' \in ConfigMaps /\ metadataLBConfigsCached' \in ConfigMaps
      BY <1>6 DEF Crash, ConfigMaps, Nothing
    <2> QED
      BY <1>6, <2>1, <2>2, <2>3 DEF Crash, TypeOK, metadata
  <1>7. CASE PollFails
    BY <1>7 DEF PollFails, Fails, TypeOK, metadata, program, work, history
  <1>8. CASE Poll
    BY <1>8 DEF Poll, Succeeds, TypeOK, metadata, work, history
  <1>9. CASE Fetch
    <2>1. metadataLBConfigs' \in ConfigMaps /\ readFailed' \in BOOLEAN
      BY <1>9 DEF Fetch, TypeOK, ConfigMaps, Nothing
    <2>2. failures' \in 0..MaxFailures
      BY <1>9 DEF Fetch, Succeeds, Fails, TypeOK
    <2> QED
      BY <1>9, <2>1, <2>2 DEF Fetch, TypeOK, metadata, work
  <1>10. CASE ListProvider
    BY <1>10
       DEF ListProvider, ProviderConfigs, Succeeds, TypeOK, metadata, program
  <1>11. CASE ListFails
    BY <1>11 DEF ListFails, Fails, TypeOK, metadata, program, work, history
  <1>12. ASSUME NEW e \in Endpoints, RemoveConfig(e) PROVE TypeOK'
    <2>1. ProviderCall(e, NoConfig)
      BY <1>12 DEF RemoveConfig
    <2> QED
      BY <1>12, <2>1, ProviderCallEffect
         DEF RemoveConfig, TypeOK, metadata, program
  <1>13. ASSUME NEW e \in Endpoints, AddConfig(e) PROVE TypeOK'
    <2>1. metadataLBConfigs[e] \in Configs
      <3>1. metadataLBConfigs[e] # NoConfig
        BY <1>13 DEF AddConfig, PendingByReason
      <3> QED
        BY <3>1 DEF TypeOK, ConfigMaps
    <2>2. ProviderCall(e, Carry(metadataLBConfigs[e])) /\ LearnFqdn(e)
      BY <1>13 DEF AddConfig
    <2> QED
      BY <1>13, <2>1, <2>2, CarryType, ProviderCallEffect, LearnFqdnType
         DEF AddConfig, TypeOK, metadata, program
  <1>14. ASSUME NEW e \in Endpoints, UpdateConfig(e) PROVE TypeOK'
    <2>1. metadataLBConfigs[e] \in Configs
      <3>1. metadataLBConfigs[e] # NoConfig
        BY <1>14 DEF UpdateConfig, PendingByReason
      <3> QED
        BY <3>1 DEF TypeOK, ConfigMaps
    <2>2. ProviderCall(e, Carry(metadataLBConfigs[e])) /\ LearnFqdn(e)
      BY <1>14 DEF UpdateConfig
    <2> QED
      BY <1>14, <2>1, <2>2, CarryType, ProviderCallEffect, LearnFqdnType
         DEF UpdateConfig, TypeOK, metadata, program
  <1>15. ASSUME NEW e \in Endpoints, Notify(e) PROVE TypeOK'
    <2>1. cattleFqdn' \in [Services -> FqdnLBs \cup {NoFqdn}]
      BY <1>15 DEF Notify, TypeOK
    <2>2. failures' \in 0..MaxFailures
      BY <1>15 DEF Notify, Succeeds, Fails, TypeOK
    <2> QED
      BY <1>15, <2>1, <2>2 DEF Notify, TypeOK, metadata, program, history
  <1>16. CASE Record
    <2>1. age' \in 0..ForceTicks
      BY <1>16 DEF Record
    <2>2. forced' \in BOOLEAN /\ listed' \in BOOLEAN
      BY <1>16 DEF Record
    <2> QED
      BY <1>16, <2>1, <2>2 DEF Record, TypeOK, metadata, work
  <1> QED
    BY <1>1, <1>2, <1>3, <1>4, <1>5, <1>6, <1>7, <1>8, <1>9, <1>10, <1>11,
       <1>12, <1>13, <1>14, <1>15, <1>16 DEF Next, World, Program

(* Only a provider call, an operator or a new listing touches the facts    *)
(* about pending balancers.  Disjointness keeps a call on one list from    *)
(* invalidating another.                                                   *)
LEMMA PendingStep ==
    ASSUME TypeOK, WorkInPass, PendingByReason, [Next]_vars
    PROVE  WorkInPass' /\ PendingByReason'
  <1>1. CASE UNCHANGED vars
    BY <1>1 DEF WorkInPass, Pending, PendingByReason, Ours, NeedsUpdate, vars,
                program, work, history
  <1>2. CASE ServicesChange \/ Flap \/ Elapse \/ PollFails
    BY <1>2 DEF ServicesChange, Flap, Elapse, PollFails, WorkInPass, Pending,
                PendingByReason, program, work, history
  <1>3. CASE Drift
    <2>1. /\ \A d \in LBs \ touched' : lb'[d] = lb[d]
          /\ touched \subseteq touched'
          /\ UNCHANGED <<pc, listed, toRemove, toAdd, toUpdate, metadataLBConfigs>>
      BY <1>3 DEF Drift, TypeOK, program, work
    <2> QED
      BY <2>1 DEF WorkInPass, Pending, PendingByReason, TypeOK
  <1>4. CASE Crash
    BY <1>4 DEF Crash, WorkInPass, Pending, PendingByReason
  <1>5. CASE Poll \/ Fetch
    <2>1. Pending = {} /\ ~listed
      BY <1>5 DEF Poll, Fetch, WorkInPass
    <2>2. UNCHANGED <<toRemove, toAdd, toUpdate, listed>>
      BY <1>5 DEF Poll, Fetch, work, history
    <2> QED
      BY <2>1, <2>2 DEF WorkInPass, Pending, PendingByReason
  <1>6. CASE ListProvider
    <2>1. WorkInPass'
      BY <1>6 DEF ListProvider, WorkInPass
    <2>2. /\ \A e \in toRemove' : e \in LBs /\ Ours(lb[e])
                                /\ metadataLBConfigs[e] = NoConfig
          /\ \A e \in toAdd' : metadataLBConfigs[e] # NoConfig
                              /\ (e \in LBs => ~Ours(lb[e]))
          /\ \A e \in toUpdate' : /\ metadataLBConfigs[e] # NoConfig
                                 /\ Ours(lb[e])
                                 /\ NeedsUpdate(metadataLBConfigs[e], lb[e])
          /\ toAdd' \cap toUpdate' = {}
      BY <1>6, EndpointsAssumption DEF ListProvider, ProviderConfigs
    <2>3. lb' = lb /\ metadataLBConfigs' = metadataLBConfigs
      BY <1>6 DEF ListProvider, program
    <2>4. PendingByReason'
      BY <2>2, <2>3 DEF PendingByReason
    <2> QED
      BY <2>1, <2>4
  <1>7. CASE ListFails
    <2>1. Pending = {}
      BY <1>7 DEF ListFails, WorkInPass
    <2> QED
      BY <1>7, <2>1 DEF ListFails, WorkInPass, Pending, PendingByReason, work
  <1>8. ASSUME NEW e \in Endpoints, RemoveConfig(e)
        PROVE  WorkInPass' /\ PendingByReason'
    <2>1. \A d \in LBs \ {e} : lb'[d] = lb[d]
      BY <1>8, ProviderCallEffect DEF RemoveConfig
    <2>2. metadataLBConfigs[e] = NoConfig
      BY <1>8 DEF RemoveConfig, PendingByReason
    <2>3. /\ toRemove' = toRemove \ {e} /\ pc' = "apply"
          /\ UNCHANGED <<toAdd, toUpdate, touched, metadataLBConfigs>>
      BY <1>8 DEF RemoveConfig, program
    <2>4. e \notin toAdd /\ e \notin toUpdate
      BY <2>2 DEF PendingByReason
    <2> QED
      BY <2>1, <2>3, <2>4 DEF WorkInPass, PendingByReason, TypeOK
  <1>9. ASSUME NEW e \in Endpoints, AddConfig(e)
        PROVE  WorkInPass' /\ PendingByReason'
    <2>1. metadataLBConfigs[e] \in Configs
      BY <1>9 DEF AddConfig, PendingByReason, TypeOK, ConfigMaps
    <2>2. \A d \in LBs \ {e} : lb'[d] = lb[d]
      BY <1>9, <2>1, CarryType, ProviderCallEffect DEF AddConfig
    <2>3. /\ toAdd' = toAdd \ {e} /\ pc' = "apply" /\ toRemove' = {}
          /\ UNCHANGED <<toUpdate, touched, metadataLBConfigs>>
      BY <1>9 DEF AddConfig, program
    <2>4. e \notin toUpdate
      BY <1>9 DEF AddConfig, PendingByReason
    <2> QED
      BY <2>2, <2>3, <2>4 DEF WorkInPass, PendingByReason, TypeOK
  <1>10. ASSUME NEW e \in Endpoints, UpdateConfig(e)
         PROVE  WorkInPass' /\ PendingByReason'
    <2>1. metadataLBConfigs[e] \in Configs
      BY <1>10 DEF UpdateConfig, PendingByReason, TypeOK, ConfigMaps
    <2>2. \A d \in LBs \ {e} : lb'[d] = lb[d]
      BY <1>10, <2>1, CarryType, ProviderCallEffect DEF UpdateConfig
    <2>3. /\ toUpdate' = toUpdate \ {e} /\ pc' = "apply"
          /\ toRemove' = {} /\ toAdd' = {}
          /\ UNCHANGED <<touched, metadataLBConfigs>>
      BY <1>10 DEF UpdateConfig, program
    <2> QED
      BY <2>2, <2>3 DEF WorkInPass, PendingByReason, TypeOK
  <1>11. ASSUME NEW e \in Endpoints, Notify(e)
         PROVE  WorkInPass' /\ PendingByReason'
    BY <1>11 DEF Notify, WorkInPass, Pending, PendingByReason, program, history
  <1>12. CASE Record
    BY <1>12 DEF Record, Applied, WorkInPass, Pending, PendingByReason, work
  <1> QED
    BY <1>1, <1>2, <1>3, <1>4, <1>5, <1>6, <1>7, <1>8, <1>9, <1>10, <1>11,
       <1>12 DEF Next, World, Program

(* The services read since the version was noted are those of a version    *)
(* not older than the noted one: only a new version makes them stale.      *)
LEMMA FreshStep ==
    ASSUME TypeOK, Fresh, NoLostChange, [Next]_vars
    PROVE  Fresh' /\ NoLostChange'
  <1>1. CASE UNCHANGED vars
    BY <1>1 DEF Fresh, NoLostChange, vars, metadata, program, history
  <1>2. CASE ServicesChange \/ Flap
    BY <1>2, NewVersionIsNew
       DEF ServicesChange, Flap, Fresh, NoLostChange, program
  <1>3. CASE Drift \/ Elapse \/ PollFails
    BY <1>3 DEF Drift, Elapse, PollFails, Fresh, NoLostChange, metadata,
                program, history
  <1>4. CASE Crash
    BY <1>4, VersionsAssumption
       DEF Crash, Fresh, NoLostChange, TypeOK, metadata
  <1>5. CASE Poll
    BY <1>5 DEF Poll, Fresh, NoLostChange
  <1>6. CASE Fetch
    BY <1>6 DEF Fetch, Fresh, NoLostChange, metadata
  <1>7. CASE ListProvider \/ ListFails
    BY <1>7 DEF ListProvider, ListFails, Fresh, NoLostChange, metadata,
                program, history
  <1>8. ASSUME NEW e \in Endpoints,
               RemoveConfig(e) \/ AddConfig(e) \/ UpdateConfig(e) \/ Notify(e)
        PROVE  Fresh' /\ NoLostChange'
    BY <1>8 DEF RemoveConfig, AddConfig, UpdateConfig, Notify, Fresh,
                NoLostChange, metadata, program, history
  <1>9. CASE Record
    BY <1>9 DEF Record, Fresh, NoLostChange, metadata
  <1> QED
    BY <1>1, <1>2, <1>3, <1>4, <1>5, <1>6, <1>7, <1>8, <1>9
       DEF Next, World, Program

(* A balancer is on no list because it is right, or because its call has   *)
(* been made; either way it agrees with what the pass wants.               *)
LEMMA ConvergeStep ==
    ASSUME TypeOK, WorkInPass, PendingByReason, PassConverges, [Next]_vars
    PROVE  PassConverges'
  <1>1. CASE UNCHANGED vars
    BY <1>1 DEF PassConverges, Pending, Agrees, vars, program, work, history
  <1>2. CASE ServicesChange \/ Flap \/ Elapse \/ PollFails
    BY <1>2 DEF ServicesChange, Flap, Elapse, PollFails, PassConverges,
                Pending, Agrees, program, work, history
  <1>3. CASE Drift
    <2>1. /\ \A d \in LBs \ touched' : lb'[d] = lb[d]
          /\ touched \subseteq touched'
          /\ UNCHANGED <<pc, listed, failed, toRemove, toAdd, toUpdate,
                         metadataLBConfigs>>
      BY <1>3 DEF Drift, TypeOK, program, work
    <2> QED
      BY <2>1 DEF PassConverges, Pending, Agrees
  <1>4. CASE Crash \/ Poll \/ Fetch \/ Record
    BY <1>4 DEF Crash, Poll, Fetch, Record, PassConverges
  <1>5. CASE ListProvider
    <2> SUFFICES ASSUME NEW e \in LBs, e \notin Pending'
                 PROVE  Agrees(metadataLBConfigs, e)'
      BY DEF PassConverges
    <2>1. /\ metadataLBConfigs[e] = NoConfig => ~Ours(lb[e])
          /\ metadataLBConfigs[e] # NoConfig =>
                Ours(lb[e]) /\ ~NeedsUpdate(metadataLBConfigs[e], lb[e])
      BY <1>5, EndpointsAssumption DEF ListProvider, ProviderConfigs, Pending
    <2>2. lb' = lb /\ metadataLBConfigs' = metadataLBConfigs
      BY <1>5 DEF ListProvider, program
    <2>3. CASE metadataLBConfigs[e] = NoConfig
      BY <2>1, <2>2, <2>3 DEF Agrees
    <2>4. CASE metadataLBConfigs[e] # NoConfig
      <3>1. lb[e] \in Carried /\ lb[e] # NoConfig
        BY <2>1, <2>4 DEF Ours, TypeOK
      <3>2. metadataLBConfigs[e] \in LBConfigs
        BY <2>4, ConfigsAssumption, EndpointsAssumption DEF TypeOK, ConfigMaps
      <3>3. Matches(metadataLBConfigs[e], lb[e])
        BY <2>1, <2>4, <3>1, <3>2, NoUpdateMatches
      <3> QED
        BY <2>2, <2>4, <3>3 DEF Agrees
    <2> QED
      BY <2>3, <2>4
  <1>6. CASE ListFails
    BY <1>6 DEF ListFails, WorkInPass, PassConverges, history
  <1>7. ASSUME NEW e \in Endpoints, RemoveConfig(e)
        PROVE  PassConverges'
    <2>1. ProviderCall(e, NoConfig)
      BY <1>7 DEF RemoveConfig
    <2>2. /\ \A d \in LBs \ {e} : lb'[d] = lb[d]
          /\ failed \subseteq failed'
          /\ e \in LBs \ failed' => lb'[e] = NoConfig
      BY <2>1, ProviderCallEffect
    <2>3. metadataLBConfigs[e] = NoConfig
      BY <1>7 DEF RemoveConfig, PendingByReason
    <2>4. /\ Pending \subseteq Pending' \cup {e}
          /\ UNCHANGED <<pc, listed, touched, metadataLBConfigs>>
      BY <1>7 DEF RemoveConfig, Pending, program
    <2> QED
      BY <2>2, <2>3, <2>4 DEF PassConverges, Agrees, Ours
  <1>8. ASSUME NEW e \in Endpoints, AddConfig(e) \/ UpdateConfig(e)
        PROVE  PassConverges'
    <2>1. metadataLBConfigs[e] # NoConfig
      BY <1>8 DEF AddConfig, UpdateConfig, PendingByReason
    <2>2. metadataLBConfigs[e] \in Configs
      BY <2>1 DEF TypeOK, ConfigMaps
    <2>3. ProviderCall(e, Carry(metadataLBConfigs[e]))
      BY <1>8 DEF AddConfig, UpdateConfig
    <2>4. /\ \A d \in LBs \ {e} : lb'[d] = lb[d]
          /\ failed \subseteq failed'
          /\ e \in LBs \ failed' => lb'[e] = Carry(metadataLBConfigs[e])
      BY <2>2, <2>3, CarryType, ProviderCallEffect
    <2>5. /\ Pending \subseteq Pending' \cup {e}
          /\ UNCHANGED <<pc, listed, touched, metadataLBConfigs>>
      BY <1>8 DEF AddConfig, UpdateConfig, Pending, program
    <2>6. Matches(metadataLBConfigs[e], Carry(metadataLBConfigs[e]))
      BY <2>2, CarryType
    <2> QED
      BY <2>1, <2>4, <2>5, <2>6 DEF PassConverges, Agrees
  <1>9. ASSUME NEW e \in Endpoints, Notify(e)
        PROVE  PassConverges'
    BY <1>9 DEF Notify, PassConverges, Pending, Agrees, program, history
  <1> QED
    BY <1>1, <1>2, <1>3, <1>4, <1>5, <1>6, <1>7, <1>8, <1>9
       DEF Next, World, Program

-----------------------------------------------------------------------------
(* The theorems.                                                           *)

(* IInv holds in every reachable state.                                    *)
THEOREM InductiveInvariant == Spec => []IInv
  <1>1. ASSUME IInv, [Next]_vars PROVE IInv'
    BY <1>1, TypeStep, PendingStep, FreshStep, ConvergeStep DEF IInv
  <1> QED
    BY <1>1, InitInv, PTL DEF Spec

(* Every variable keeps its type; in particular the configurations handed  *)
(* to provider calls are configurations (external-lb.go:141-165).          *)
THEOREM TypeCorrect == Spec => []TypeOK
  <1>1. IInv => TypeOK
    BY DEF IInv
  <1> QED
    BY <1>1, InductiveInvariant, PTL

(* No change of metadata is lost by the loop (main.go:97-152).             *)
THEOREM NoChangeIsLost == Spec => []NoLostChange
  <1>1. IInv => NoLostChange
    BY DEF IInv
  <1> QED
    BY <1>1, InductiveInvariant, PTL

(* A pass brings every balancer in line whose call did not fail and that   *)
(* nobody else edited (external-lb.go:18-34).                              *)
THEOREM PassesConverge == Spec => []PassConverges
  <1>1. IInv => PassConverges
    BY DEF IInv
  <1> QED
    BY <1>1, InductiveInvariant, PTL

(* A step that changes a balancer is a provider call on it, or an edit.    *)
LEMMA WhoChanges ==
    ASSUME IInv, [Next]_vars, NEW e \in LBs, lb'[e] # lb[e], e \notin touched'
    PROVE  /\ e \notin touched
           /\ \/ RemoveConfig(e) \/ AddConfig(e) \/ UpdateConfig(e)
  <1>1. CASE UNCHANGED vars
    BY <1>1 DEF vars
  <1>2. CASE ServicesChange \/ Flap \/ Elapse \/ Crash \/ PollFails \/ Poll
             \/ Fetch \/ ListProvider \/ ListFails \/ Record
    BY <1>2 DEF ServicesChange, Flap, Elapse, Crash, PollFails, Poll, Fetch,
                ListProvider, ListFails, Record
  <1>3. CASE Drift
    BY <1>3 DEF Drift, IInv, TypeOK
  <1>4. ASSUME NEW d \in Endpoints, Notify(d) PROVE FALSE
    BY <1>4 DEF Notify
  <1>5. ASSUME NEW d \in Endpoints,
               RemoveConfig(d) \/ AddConfig(d) \/ UpdateConfig(d)
        PROVE  d = e /\ touched' = touched
    <2>1. touched' = touched
      BY <1>5 DEF RemoveConfig, AddConfig, UpdateConfig
    <2>2. CASE RemoveConfig(d)
      BY <2>2, ProviderCallEffect DEF RemoveConfig, IInv
    <2>3. CASE AddConfig(d) \/ UpdateConfig(d)
      <3>1. metadataLBConfigs[d] # NoConfig
        BY <2>3 DEF AddConfig, UpdateConfig, PendingByReason, IInv
      <3>2. metadataLBConfigs[d] \in Configs
        BY <3>1 DEF TypeOK, ConfigMaps, IInv
      <3>3. ProviderCall(d, Carry(metadataLBConfigs[d]))
        BY <2>3 DEF AddConfig, UpdateConfig
      <3> QED
        BY <2>1, <3>2, <3>3, CarryType, ProviderCallEffect DEF IInv
    <2> QED
      BY <1>5, <2>1, <2>2, <2>3
  <1> QED
    BY <1>1, <1>2, <1>3, <1>4, <1>5 DEF Next, World, Program

(* Balancers of other environments are not touched unless metadata asks    *)
(* for them (external-lb.go:43-48, 54-60).                                 *)
THEOREM ForeignAreUntouched == Spec => ForeignUntouched
  <1>1. ASSUME IInv, [Next]_vars, NEW e \in LBs,
               lb'[e] # lb[e], e \notin touched'
        PROVE  InEnvironment(e) \/ metadataLBConfigs[e] # NoConfig
    <2>1. /\ e \notin touched
          /\ RemoveConfig(e) \/ AddConfig(e) \/ UpdateConfig(e)
      BY <1>1, WhoChanges
    <2>2. e \in toRemove \/ e \in toAdd \/ e \in toUpdate
      BY <2>1 DEF RemoveConfig, AddConfig, UpdateConfig
    <2>3. e \in toRemove => Ours(lb[e])
      BY <1>1, <2>1 DEF PendingByReason, IInv
    <2>4. e \in toAdd \cup toUpdate => metadataLBConfigs[e] # NoConfig
      BY <1>1 DEF PendingByReason, IInv
    <2> QED
      BY <2>2, <2>3, <2>4 DEF InEnvironment, Ours
  <1>2. ASSUME IInv, [Next]_vars
        PROVE  [\A e \in LBs : lb'[e] # lb[e] /\ e \notin touched'
                  => InEnvironment(e) \/ metadataLBConfigs[e] # NoConfig]_vars
    BY <1>1, <1>2
  <1> QED
    BY <1>2, InductiveInvariant, PTL DEF Spec, ForeignUntouched

(* No call is made on a balancer that is right (external-lb.go:97-123), so *)
(* the failure of a needless call cannot take it out of service.           *)
THEOREM InSyncIsUndisturbed == Spec => InSyncUndisturbed
  <1>1. ASSUME IInv, [Next]_vars, NEW e \in LBs,
               version = mdVersion, ~readFailed, e \notin touched',
               mdConfigs[e] # NoConfig, IsInjective(mdConfigs[e].LBTargets),
               Ours(lb[e]), Agrees(mdConfigs, e), lb'[e] # lb[e]
        PROVE  FALSE
    <2>1. /\ e \notin touched
          /\ RemoveConfig(e) \/ AddConfig(e) \/ UpdateConfig(e)
      BY <1>1, WhoChanges
    <2>2. metadataLBConfigs = mdConfigs
      BY <1>1, <2>1 DEF RemoveConfig, AddConfig, UpdateConfig, Fresh, IInv
    <2>3. e \in toUpdate /\ NeedsUpdate(mdConfigs[e], lb[e])
      BY <1>1, <2>1, <2>2
         DEF RemoveConfig, AddConfig, UpdateConfig, PendingByReason, IInv
    <2>4. lb[e] \in Carried /\ Matches(mdConfigs[e], lb[e])
      BY <1>1 DEF Agrees, Matches, TypeOK, IInv
    <2>5. mdConfigs[e] \in LBConfigs
      BY <1>1, ConfigsAssumption, EndpointsAssumption DEF TypeOK, ConfigMaps, IInv
    <2> QED
      BY <1>1, <2>3, <2>4, <2>5, MatchesNoUpdate
  <1>2. ASSUME IInv, [Next]_vars
        PROVE  [\A e \in LBs :
                  /\ version = mdVersion
                  /\ ~readFailed
                  /\ e \notin touched'
                  /\ mdConfigs[e] # NoConfig
                  /\ IsInjective(mdConfigs[e].LBTargets)
                  /\ Ours(lb[e])
                  /\ Agrees(mdConfigs, e)
                  => lb'[e] = lb[e]]_vars
    BY <1>1, <1>2
  <1> QED
    BY <1>2, InductiveInvariant, PTL DEF Spec, InSyncUndisturbed

-----------------------------------------------------------------------------
(* A provider call is one step of the loop.                                *)

(* A set with 0 and, with every number, its successor holds all numbers.   *)
LEMMA NaturalInduction ==
    ASSUME NEW S, 0 \in S, \A n \in Nat : n \in S => n + 1 \in S
    PROVE  Nat \subseteq S
<1> DEFINE T == Nat \ S
           R == OpToRel(<, Nat)
<1> SUFFICES ASSUME T # {} PROVE FALSE
  OBVIOUS
<1>1. \E x \in T : \A y \in T : ~(<<y, x>> \in R)
  <2>1. IsWellFoundedOn(R, Nat)
    BY NatLessThanWellFounded
  <2>2. T \subseteq Nat
    OBVIOUS
  <2> HIDE DEF T, R
  <2> QED
    BY <2>1, <2>2, WFMin, Zenon
<1>2. PICK x \in T : \A y \in T : ~(<<y, x>> \in R)
  BY <1>1
<1>3. x # 0 /\ x \in Nat
  OBVIOUS
<1>4. x - 1 \in Nat /\ x - 1 < x /\ x = (x - 1) + 1
  BY <1>3
<1>5. x - 1 \in T
  BY <1>3, <1>4
<1>6. <<x - 1, x>> \in R
  BY <1>3, <1>4 DEF OpToRel
<1> QED
  BY <1>2, <1>5, <1>6

(* What is left half-way from a state that is half-way itself is half-way. *)
LEMMA HalfwayComposes ==
    ASSUME NEW old \in Carried \cup {NoConfig}, NEW new \in Carried \cup {NoConfig},
           NEW x \in Halfway(old, new)
    PROVE  Halfway(x, new) \subseteq Halfway(old, new)
<1>1. PoolsOf(x) \subseteq PoolsOf(old) \cup PoolsOf(new)
  <2>1. CASE x = NoConfig
    BY <2>1 DEF PoolsOf
  <2>2. CASE x # NoConfig
    <3>1. x \in [LBTargetPoolName : PoolsOf(old) \cup PoolsOf(new), LBTargets : SUBSET Targets]
      BY <2>2 DEF Halfway
    <3>2. x.LBTargetPoolName \in PoolsOf(old) \cup PoolsOf(new)
      BY <3>1
    <3>3. PoolsOf(x) = {x.LBTargetPoolName}
      BY <2>2 DEF PoolsOf
    <3> QED
      BY <3>2, <3>3
  <2> QED
    BY <2>1, <2>2
<1> QED
  BY <1>1 DEF Halfway

(* A balancer that is as it was, or as it is to be, is half-way.           *)
LEMMA HalfwayEnds ==
    ASSUME NEW old \in Carried \cup {NoConfig}, NEW new \in Carried \cup {NoConfig}
    PROVE  old \in Halfway(old, new) /\ new \in Halfway(old, new)
<1>1. ASSUME NEW x \in Carried \cup {NoConfig}, PoolsOf(x) \subseteq PoolsOf(old) \cup PoolsOf(new)
      PROVE  x \in Halfway(old, new)
  <2>1. CASE x = NoConfig
    BY <2>1 DEF Halfway
  <2>2. CASE x # NoConfig
    <3>1. x \in [LBTargetPoolName : Pools, LBTargets : SUBSET Targets]
      BY <2>2 DEF Carried
    <3>2. x.LBTargetPoolName \in PoolsOf(old) \cup PoolsOf(new)
      BY <1>1, <2>2 DEF PoolsOf
    <3> QED
      BY <3>1, <3>2 DEF Halfway
  <2> QED
    BY <2>1, <2>2
<1> QED
  BY <1>1

(* However many requests a call makes and wherever it breaks off, it       *)
(* leaves the balancer as one failing step of ExternalLB's ProviderCall    *)
(* does (external-lb.go:138-172): r[i] is what the provider would report   *)
(* after i requests, each of which has an effect of LBProvider's or none.  *)
THEOREM CallsCompose ==
    ASSUME NEW old \in Carried \cup {NoConfig}, NEW new \in Carried \cup {NoConfig},
           NEW n \in Nat, NEW r, r[0] = old,
           \A i \in 0..(n - 1) : r[i + 1] = r[i] \/ r[i + 1] \in Halfway(r[i], new)
    PROVE  r[n] \in Halfway(old, new)
<1> DEFINE S == {i \in Nat : i <= n => r[i] \in Halfway(old, new)}
<1>1. 0 \in S
  BY HalfwayEnds
<1>2. ASSUME NEW i \in Nat, i \in S PROVE i + 1 \in S
  <2> SUFFICES ASSUME i + 1 <= n PROVE r[i + 1] \in Halfway(old, new)
    OBVIOUS
  <2>1. i \in 0..(n - 1) /\ r[i] \in Halfway(old, new)
    BY <1>2
  <2>2. Halfway(r[i], new) \subseteq Halfway(old, new)
    BY <2>1, HalfwayComposes
  <2> QED
    BY <2>1, <2>2
<1> HIDE DEF S
<1>3. n \in S
  BY <1>1, <1>2, NaturalInduction
<1> QED
  BY <1>3 DEF S

=============================================================================
