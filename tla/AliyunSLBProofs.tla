-------------------------- MODULE AliyunSLBProofs --------------------------
(***************************************************************************)
(* Proofs about AliyunSLB, for any number of load balancers, instances,    *)
(* configurations, edits and failures, any size of a page and any choice   *)
(* of networks and addresses.  Control says what is in flight at each      *)
(* point of a call, Swap how far the instances have been replaced, Listing *)
(* how far the balancers of the network have been read; the step           *)
(* simulation of LBProvider and what a call that returns has served rest   *)
(* on the first two, what a listing returns on the third.                  *)
(***************************************************************************)
EXTENDS AliyunSLB, FiniteSetTheorems, SequenceTheorems, TLAPS

(* Where the call in flight can be, by its kind, and what it is about.     *)
Control ==
    /\ pc = "idle" \/ op = "list" =>
          lbId = NoCall /\ config = NoConfig
    /\ pc = "idle" => disturbed = FALSE
    /\ pc # "idle" =>
          (op = "list" <=> pc \in {"balancers", "read", "status", "instances"})
    /\ pc # "idle" => op # "none"
    /\ pc # "idle" /\ op # "list" => lbId \in Endpoints
    /\ pc # "idle" /\ op = "put" => config \in Configs
    /\ pc \in {"listeners", "lookup", "tag"} => op = "put"
    /\ pc = "untag" => op = "remove"
    /\ pc \in {"listeners", "lookup", "health", "register", "deregister",
               "tag", "untag"} => lbId \in LBs
    /\ pc \in {"balancers", "read"} => reading = NoCall
    /\ pc \in {"status", "instances"} => reading \in todo /\ tags[reading].flag

(* The instances the call is to leave.                                     *)
Wanted == IF op = "remove" THEN {} ELSE getECSInstances(config)

(* How far ensureBackendInstances has come.                                *)
Swap ==
    /\ pc = "describe" => ecsInstanceIds = {}
    /\ pc \in {"health", "register", "deregister", "tag", "untag"} =>
          ecsInstanceIds = Wanted
    /\ pc = "register" /\ ~disturbed =>
          servers[lbId] = registeredInstanceIds
    /\ pc = "deregister" /\ ~disturbed =>
          servers[lbId] = registeredInstanceIds \cup ecsInstanceIds
    /\ pc \in {"tag", "untag"} /\ ~disturbed =>
          servers[lbId] = ecsInstanceIds

(* What GetLBConfigs has found out when it has read all but todo.          *)
Listing ==
    /\ pc = "balancers" => lbConfigs = [e \in Endpoints |-> NoConfig]
    /\ pc \in {"read", "status", "instances"} =>
          \A e \in Endpoints :
             /\ lbConfigs[e] # NoConfig <=> Listed(e) \ todo # {}
             /\ lbConfigs[e] # NoConfig /\ ~disturbed =>
                   \E l \in Listed(e) \ todo : lbConfigs[e] = Reported(l)
    /\ pc = "instances" /\ ~disturbed => registeredInstanceIds = servers[reading]

IInv == TypeOK /\ Control /\ Swap /\ Listing

-----------------------------------------------------------------------------
(* Pages and lists.                                                        *)

(* SetToSeq lists a finite set.                                            *)
LEMMA SetToSeqRange ==
    ASSUME NEW S, IsFiniteSet(S)
    PROVE  SetToSeq(S) \in Seq(S) /\ Range(SetToSeq(S)) = S
  <1> DEFINE n == Cardinality(S)
             f == SetToSeq(S)
  <1>1. n \in Nat /\ ExistsBijection(1..n, S)
    BY FS_CardinalityType
  <1>2. PICK g \in [1..n -> S] : IsInjective(g) /\ Range(g) = S
    BY <1>1 DEF ExistsBijection, Bijection, Injection, Surjection, IsInjective, Range
  <1>3. f \in [1..n -> S] /\ IsInjective(f)
    BY <1>2 DEF SetToSeq
  <1>4. f \in Seq(S)
    BY <1>1, <1>3
  <1>5. f \in Injection(1..n, S)
    BY <1>3 DEF Injection, IsInjective
  <1>6. IsFiniteSet(1..n) /\ Cardinality(1..n) = n
    BY <1>1, FS_Interval
  <1> HIDE DEF f, n
  <1>7. f \in Surjection(1..n, S)
    BY <1>5, <1>6, FS_Injection DEF n
  <1>8. Range(f) = S
    BY <1>3, <1>7 DEF Surjection, Range
  <1> QED
    BY <1>4, <1>8 DEF f

(* A finite set has subsets of every smaller size.                         *)
LEMMA SubsetOfSize ==
    ASSUME NEW S, IsFiniteSet(S), NEW k \in Nat, k <= Cardinality(S)
    PROVE  \E T \in SUBSET S : Cardinality(T) = k
  <1> DEFINE n == Cardinality(S)
  <1>1. n \in Nat /\ ExistsBijection(1..n, S)
    BY FS_CardinalityType
  <1>2. PICK f \in [1..n -> S] : IsInjective(f)
    BY <1>1 DEF ExistsBijection, Bijection, Injection, IsInjective
  <1> DEFINE T == {f[i] : i \in 1..k}
             g == [i \in 1..k |-> f[i]]
  <1> HIDE DEF n
  <1>3. 1..k \subseteq 1..n
    BY <1>1 DEF n
  <1>4. T \subseteq S
    BY <1>2, <1>3
  <1>5. g \in Bijection(1..k, T)
    <2>1. g \in [1..k -> T]
      OBVIOUS
    <2>2. \A i, j \in 1..k : g[i] = g[j] => i = j
      BY <1>2, <1>3 DEF IsInjective
    <2>3. \A t \in T : \E i \in 1..k : g[i] = t
      OBVIOUS
    <2> HIDE DEF g, T
    <2> QED
      BY <2>1, <2>2, <2>3 DEF Bijection, Injection, Surjection, IsInjective
  <1>6. IsFiniteSet(1..k) /\ Cardinality(1..k) = k
    BY FS_Interval
  <1>7. Cardinality(T) = k
    <2>1. ExistsBijection(1..k, T)
      BY <1>5 DEF ExistsBijection
    <2> HIDE DEF T, g
    <2> QED
      BY <1>6, <2>1, FS_Bijection
  <1> QED
    BY <1>4, <1>7

(* The first page holds some of the instances, all of them when they fit,  *)
(* and what it holds fits on a page (slb.go:374-404).                      *)
LEMMA FirstPageFits ==
    ASSUME NEW ids \in SUBSET Instances
    PROVE  /\ FirstPage(ids) \subseteq ids
           /\ Cardinality(ids) <= PageSize => FirstPage(ids) = ids
           /\ FirstPage(FirstPage(ids)) = FirstPage(ids)
  <1>1. IsFiniteSet(ids) /\ Cardinality(ids) \in Nat /\ PageSize \in Nat
    BY SlbAssumption, FS_Subset, FS_CardinalityType
  <1>2. CASE Cardinality(ids) <= PageSize
    BY <1>2 DEF FirstPage
  <1>3. CASE ~(Cardinality(ids) <= PageSize)
    <2>1. \E page \in SUBSET ids : Cardinality(page) = PageSize
      BY <1>1, <1>3, SubsetOfSize
    <2>2. FirstPage(ids) \in SUBSET ids /\ Cardinality(FirstPage(ids)) = PageSize
      BY <1>3, <2>1 DEF FirstPage
    <2>3. FirstPage(FirstPage(ids)) = FirstPage(ids)
      BY <1>1, <2>2 DEF FirstPage
    <2> QED
      BY <1>3, <2>2, <2>3
  <1> QED
    BY <1>2, <1>3

-----------------------------------------------------------------------------
(* What calls leave.                                                       *)

(* Whatever is registered, a balancer with tags carries a configuration,   *)
(* and so is a report of it one.                                           *)
LEMMA ServesType ==
    ASSUME NEW t, t.pool \in Pools, t.port \in Ports, NEW ids \in SUBSET Instances
    PROVE  /\ Serves(t, ids) \in Carried
           /\ Serves(t, ids) # NoConfig
           /\ Serves(t, ids).LBTargetPoolName = t.pool
  <1>1. {<<Address[i], t.port>> : i \in ids} \subseteq Targets
    <2>1. ASSUME NEW i \in ids PROVE <<Address[i], t.port>> \in Targets
      BY SlbAssumption
    <2> QED
      BY <2>1
  <1>2. Serves(t, ids) \in Carried
    BY <1>1 DEF Serves, Carried
  <1> QED
    BY <1>2, ConfigsAssumption DEF Serves

LEMMA ReportType ==
    ASSUME NEW t, t.pool \in Pools, t.port \in Ports, NEW ids \in SUBSET Instances
    PROVE  Report(t, ids) \in Carried /\ Report(t, ids) # NoConfig
  <1>1. {<<ListedAddress[i], t.port>> : i \in FirstPage(ids)} \subseteq Targets
    <2>1. FirstPage(ids) \subseteq Instances
      BY FirstPageFits
    <2>2. ASSUME NEW i \in Instances PROVE <<ListedAddress[i], t.port>> \in Targets
      BY SlbAssumption
    <2> QED
      BY <2>1, <2>2
  <1>2. Report(t, ids) \in Carried
    BY <1>1 DEF Report, Carried
  <1> QED
    BY <1>2, ConfigsAssumption

(* What a balancer that keeps to the types carries.                        *)
LEMMA CarriesType ==
    ASSUME TypeOK, NEW l \in LBs
    PROVE  /\ Carries(l) \in Carried \cup {NoConfig}
           /\ tags[l].flag => /\ Carries(l) \in Carried
                              /\ Carries(l) # NoConfig
                              /\ Carries(l).LBTargetPoolName = tags[l].pool
  <1>1. CASE tags[l].flag
    <2>1. /\ tags[l].pool \in Pools /\ tags[l].port \in Ports
          /\ servers[l] \in SUBSET Instances
      BY <1>1 DEF TypeOK
    <2> QED
      BY <1>1, <2>1, ServesType DEF Carries
  <1>2. CASE ~tags[l].flag
    BY <1>2 DEF Carries
  <1> QED
    BY <1>1, <1>2

(* A configuration's fields, and the instances it is looked up to.         *)
LEMMA ConfigType ==
    ASSUME NEW c \in Configs
    PROVE  /\ c \in LBConfigs
           /\ c # NoConfig
           /\ Range(c.LBTargets) \subseteq Targets
           /\ c.LBTargetPoolName \in Pools /\ c.LBTargetPoolName # NoTag
           /\ c.LBTargetPort \in Ports /\ c.LBTargetPort # NoTag
           /\ getECSInstances(c) \subseteq Instances
           /\ \A i \in getECSInstances(c) :
                 \E t \in Range(c.LBTargets) : Address[i] = t[1]
           /\ FirstPage(getECSInstances(c)) = getECSInstances(c)
  <1> DEFINE ids == {i \in Instances : \E t \in Range(c.LBTargets) : Address[i] = t[1]}
  <1>1. c \in LBConfigs /\ c # NoConfig
    BY ConfigsAssumption
  <1>2. c.LBTargetPoolName \in Pools /\ c.LBTargetPort \in Ports
    BY <1>1, PoolsAssumption DEF LBConfigs
  <1>3. Range(c.LBTargets) \subseteq Targets
    BY <1>1 DEF LBConfigs, Range
  <1>4. getECSInstances(c) \subseteq ids
        /\ FirstPage(getECSInstances(c)) = getECSInstances(c)
    BY FirstPageFits DEF getECSInstances
  <1> QED
    BY <1>1, <1>2, <1>3, <1>4, SlbAssumption

(* No two instances of the network have an address in common.              *)
AddressesUnique ==
    \A i, j \in Instances : Address[i] = Address[j] /\ Address[i] # NoAddress => i = j

(* The goal of a call is what a balancer carries with the instances that   *)
(* are found (slb.go:374-404).                                             *)
LEMMA ServedIsCarried ==
    ASSUME NEW c \in Configs
    PROVE  Carry(Served[c]) = Serves(getLBTags(c), getECSInstances(c))
  <1> DEFINE ids == getECSInstances(c)
             found == {Address[i] : i \in ids}
             kept == {t \in Range(c.LBTargets) : t[1] \in found}
  <1>1. c \in LBConfigs /\ Range(c.LBTargets) \subseteq Targets
    BY ConfigType
  <1>2. Range(SetToSeq(kept)) = kept
    <2>1. IsFiniteSet(kept)
      BY <1>1, TargetsAssumption, FS_Subset
    <2> QED
      BY <2>1, SetToSeqRange
  <1>3. Served[c] = [c EXCEPT !.LBTargets = SetToSeq(kept)]
    BY DEF Served
  <1>4. Served[c].LBTargets = SetToSeq(kept)
        /\ Served[c].LBTargetPoolName = c.LBTargetPoolName
    BY <1>1, <1>3 DEF LBConfigs
  <1>5. ids \subseteq Instances /\ FirstPage(ids) = ids
        /\ \A i \in ids : \E t \in Range(c.LBTargets) : Address[i] = t[1]
    BY ConfigType
  <1> HIDE DEF ids
  <1>6. kept \subseteq {<<Address[i], c.LBTargetPort>> : i \in ids}
    BY <1>1, <1>5, SlbAssumption
  <1>7. ASSUME NEW i \in ids
        PROVE  <<Address[i], c.LBTargetPort>> \in kept
    <2>1. PICK t \in Range(c.LBTargets) : Address[i] = t[1]
      BY <1>5
    <2>2. t = <<Address[i], c.LBTargetPort>>
      BY <1>1, <2>1, SlbAssumption
    <2> QED
      BY <2>1, <2>2
  <1>8. kept = {<<Address[i], c.LBTargetPort>> : i \in ids}
    BY <1>6, <1>7
  <1>9. getLBTags(c).pool = c.LBTargetPoolName /\ getLBTags(c).port = c.LBTargetPort
    BY DEF getLBTags
  <1>10. Serves(getLBTags(c), ids) = [LBTargetPoolName |-> c.LBTargetPoolName,
                                      LBTargets |-> kept]
    <2> DEFINE new == getLBTags(c)
    <2> HIDE DEF new, kept
    <2>1. {<<Address[i], new.port>> : i \in ids} = kept
      BY <1>5, <1>8, <1>9 DEF new
    <2> QED
      BY <1>9, <2>1 DEF Serves, new
  <1>11. Carry(Served[c]) = [LBTargetPoolName |-> c.LBTargetPoolName,
                             LBTargets |-> kept]
    BY <1>2, <1>4 DEF Carry
  <1> QED
    BY <1>10, <1>11 DEF ids

(* Unless addresses are shared, nothing of a configuration that fits on a  *)
(* page is left out, and nothing else is served (slb.go:374-404).          *)
LEMMA FittingIsWhole ==
    ASSUME AddressesUnique, NEW c \in Configs, FitsOnPage(c)
    PROVE  Serves(getLBTags(c), getECSInstances(c)) = Carry(c)
  <1> DEFINE ids == {i \in Instances : \E t \in Range(c.LBTargets) : Address[i] = t[1]}
             addresses == {t[1] : t \in Range(c.LBTargets)}
             f == [i \in ids |-> Address[i]]
  <1>1. Range(c.LBTargets) \subseteq Targets
    BY ConfigType
  <1>2. IsFiniteSet(addresses)
    <2>1. IsFiniteSet(Range(c.LBTargets))
      BY <1>1, TargetsAssumption, FS_Subset
    <2> DEFINE first == [t \in Range(c.LBTargets) |-> t[1]]
    <2>2. first \in Surjection(Range(c.LBTargets), addresses)
      BY DEF Surjection
    <2> HIDE DEF first, addresses
    <2> QED
      BY <2>1, <2>2, FS_Surjection
  <1>3. \A i, j \in ids : Address[i] = Address[j] => i = j
    BY SlbAssumption DEF AddressesUnique
  <1>4. f \in Injection(ids, addresses)
    BY <1>3 DEF Injection, IsInjective
  <1>5. Cardinality(ids) <= Cardinality(addresses) /\ Cardinality(addresses) \in Nat
        /\ Cardinality(ids) \in Nat
    <2> HIDE DEF ids, addresses, f
    <2> QED
      BY <1>2, <1>4, FS_Injection, FS_CardinalityType
  <1>6. Cardinality(ids) <= PageSize
    BY <1>5, SlbAssumption DEF FitsOnPage
  <1>7. getECSInstances(c) = ids /\ FirstPage(ids) = ids
    BY <1>6, FirstPageFits DEF getECSInstances
  <1>8. ASSUME NEW t \in Range(c.LBTargets), NEW i \in ids, Address[i] = t[1]
        PROVE  <<Address[i], c.LBTargetPort>> = t
    <2>1. t = <<t[1], t[2]>> /\ t[2] = c.LBTargetPort
      BY <1>1, SlbAssumption
    <2> QED
      BY <1>8, <2>1
  <1>9. ASSUME NEW i \in ids
        PROVE  <<Address[i], c.LBTargetPort>> \in Range(c.LBTargets)
    BY <1>8
  <1>10. ASSUME NEW t \in Range(c.LBTargets)
         PROVE  \E i \in ids : <<Address[i], c.LBTargetPort>> = t
    <2>1. PICK i \in Instances : Address[i] = t[1]
      BY DEF FitsOnPage
    <2> QED
      BY <1>8, <2>1
  <1> HIDE DEF ids
  <1>11. {<<Address[i], c.LBTargetPort>> : i \in ids} = Range(c.LBTargets)
    BY <1>9, <1>10
  <1> DEFINE new == getLBTags(c)
  <1>12. new.pool = c.LBTargetPoolName /\ new.port = c.LBTargetPort
    BY DEF getLBTags
  <1> HIDE DEF new
  <1>13. Serves(new, ids) = Carry(c)
    BY <1>7, <1>11, <1>12 DEF Serves, Carry
  <1> QED
    BY <1>7, <1>13 DEF new

-----------------------------------------------------------------------------
(* The steps.                                                              *)

LEMMA InitInv == Init => IInv
  <1> SUFFICES ASSUME Init PROVE IInv
    OBVIOUS
  <1>1. TypeOK
    <2>1. 0 \in 0..MaxEdits /\ 0 \in 0..MaxFailures
      BY SlbAssumption
    <2>2. NoTags \in [pool : Pools \cup {NoTag}, port : Ports \cup {NoTag},
                      flag : BOOLEAN] /\ ~NoTags.flag
      BY DEF NoTags
    <2>3. /\ tags \in [LBs -> [pool : Pools \cup {NoTag}, port : Ports \cup {NoTag},
                               flag : BOOLEAN]]
          /\ \A l \in LBs : ~tags[l].flag
      BY <2>2 DEF Init
    <2> QED
      BY <2>1, <2>3 DEF Init, TypeOK
  <1>2. Control /\ Swap /\ Listing
    BY DEF Init, Control, Swap, Listing
  <1> QED
    BY <1>1, <1>2 DEF IInv

(* The part of the state that tells where the call is and how it ended.    *)
CallTypeOK ==
    /\ pc \in {"idle", "describe", "listeners", "lookup", "health", "register",
               "deregister", "tag", "untag", "balancers", "read", "status",
               "instances"}
    /\ op \in {"none", "list", "put", "remove"}
    /\ lbId \in Endpoints \cup {NoCall}
    /\ config \in Configs \cup Carried \cup {NoConfig}
    /\ outcome \in {"none", "ok", "error"}
    /\ disturbed \in BOOLEAN
    /\ failures \in 0..MaxFailures

(* Where an answer leads.                                                  *)
Ahead == {"listeners", "lookup", "health", "register", "deregister", "tag",
          "untag", "read", "status", "instances"}

(* Where it leads within a listing.                                        *)
Within == {"read", "status", "instances"}

(* A request that fails ends the call.                                     *)
LEMMA FailureType == ASSUME TypeOK, RequestFails PROVE CallTypeOK'
  <1>1. failures' \in 0..MaxFailures
    BY SlbAssumption DEF TypeOK, RequestFails, Fails
  <1> QED
    BY <1>1 DEF TypeOK, CallTypeOK, RequestFails, ReturnError, Finish

(* One that is answered leads to the next, or to the end of the call.      *)
LEMMA SuccessType ==
    ASSUME TypeOK, Succeeds,
           ReturnOk \/ ReturnError \/ \E next \in Ahead : Proceed(next)
    PROVE  CallTypeOK'
  <1>1. CASE ReturnOk \/ ReturnError
    BY <1>1 DEF TypeOK, CallTypeOK, Succeeds, ReturnOk, ReturnError, Finish
  <1>2. CASE \E next \in Ahead : Proceed(next)
    BY <1>2 DEF TypeOK, CallTypeOK, Succeeds, Proceed, request, Ahead
  <1> QED
    BY <1>1, <1>2

LEMMA AnswerType ==
    ASSUME TypeOK, NEW next \in Ahead, (Succeeds /\ Proceed(next)) \/ RequestFails
    PROVE  CallTypeOK'
  BY SuccessType, FailureType

(* Every variable keeps its type.                                          *)
LEMMA TypeStep ==
    ASSUME TypeOK, Control, [Next]_vars
    PROVE  TypeOK'
  <1> USE DEF aliyun, listing
  <1>1. CASE Begin
    <2>1. config' \in Configs \cup Carried \cup {NoConfig}
      BY <1>1 DEF Begin, TypeOK
    <2>2. /\ lbId' \in Endpoints \cup {NoCall}
          /\ op' \in {"none", "list", "put", "remove"}
      BY <1>1 DEF Begin
    <2> QED
      BY <1>1, <2>1, <2>2 DEF Begin, TypeOK
  <1>2. CASE Describe
    <2>1. CallTypeOK'
      BY <1>2, SuccessType, FailureType, AnswerType DEF Describe, Answer, Ahead
    <2> QED
      BY <1>2, <2>1 DEF Describe, TypeOK, CallTypeOK
  <1>3. CASE checkListenersInstancePort
    <2>1. CallTypeOK'
      BY <1>3, SuccessType, AnswerType DEF checkListenersInstancePort, Answer, Ahead
    <2> QED
      BY <1>3, <2>1 DEF checkListenersInstancePort, TypeOK, CallTypeOK
  <1>4. CASE Lookup
    <2>1. CallTypeOK'
      BY <1>4, AnswerType DEF Lookup, Ahead
    <2>2. config \in Configs
      BY <1>4 DEF Lookup, Control
    <2>3. ecsInstanceIds' \subseteq Instances
      BY <1>4, <2>2, ConfigType DEF Lookup, TypeOK
    <2> QED
      BY <1>4, <2>1, <2>3 DEF Lookup, TypeOK, CallTypeOK
  <1>5. CASE Health
    <2>1. CallTypeOK'
      BY <1>5, AnswerType DEF Health, Ahead
    <2>2. lbId \in LBs
      BY <1>5 DEF Health, Control
    <2>3. registeredInstanceIds' \subseteq Instances
      BY <1>5, <2>2 DEF Health, TypeOK
    <2> QED
      BY <1>5, <2>1, <2>3 DEF Health, TypeOK, CallTypeOK
  <1>6. CASE Register
    <2>1. CallTypeOK'
      BY <1>6, AnswerType DEF Register, ChangeServers, Answer, Ahead
    <2>2. lbId \in LBs
      BY <1>6 DEF Register, Control
    <2>3. servers' \in [LBs -> SUBSET Instances]
      BY <1>6, <2>2 DEF Register, ChangeServers, TypeOK
    <2> QED
      BY <1>6, <2>1, <2>3 DEF Register, TypeOK, CallTypeOK
  <1>7. CASE Deregister
    <2>1. CallTypeOK'
      BY <1>7, AnswerType DEF Deregister, ChangeServers, Answer, Ahead
    <2>2. lbId \in LBs
      BY <1>7 DEF Deregister, Control
    <2>3. servers' \in [LBs -> SUBSET Instances]
      BY <1>7, <2>2 DEF Deregister, ChangeServers, TypeOK
    <2> QED
      BY <1>7, <2>1, <2>3 DEF Deregister, TypeOK, CallTypeOK
  <1>8. CASE AddTags
    <2> DEFINE new == getLBTags(config)
    <2>1. CallTypeOK'
      BY <1>8, SuccessType, FailureType DEF AddTags, WriteTags
    <2>2. config \in Configs /\ lbId \in LBs
      BY <1>8 DEF AddTags, Control
    <2>3. /\ new \in [pool : Pools \cup {NoTag}, port : Ports \cup {NoTag},
                      flag : BOOLEAN]
          /\ new.pool # NoTag /\ new.port # NoTag
      BY <2>2, ConfigType DEF getLBTags
    <2> HIDE DEF new
    <2>4. UNCHANGED tags \/ tags' = [tags EXCEPT ![lbId] = new]
      BY <1>8 DEF AddTags, WriteTags, new
    <2>5. /\ tags' \in [LBs -> [pool : Pools \cup {NoTag}, port : Ports \cup {NoTag},
                                flag : BOOLEAN]]
          /\ \A l \in LBs : tags'[l].flag => tags'[l].pool # NoTag /\ tags'[l].port # NoTag
      BY <2>2, <2>3, <2>4 DEF TypeOK
    <2> QED
      BY <1>8, <2>1, <2>5 DEF AddTags, WriteTags, TypeOK, CallTypeOK
  <1>9. CASE RemoveTags
    <2> DEFINE new == [pool |-> IF tags[lbId].pool = config.LBTargetPoolName
                                THEN NoTag ELSE tags[lbId].pool,
                       port |-> tags[lbId].port,
                       flag |-> FALSE]
    <2>1. CallTypeOK'
      BY <1>9, SuccessType, FailureType DEF RemoveTags, WriteTags
    <2>2. lbId \in LBs
      BY <1>9 DEF RemoveTags, Control
    <2>3. /\ new \in [pool : Pools \cup {NoTag}, port : Ports \cup {NoTag},
                      flag : BOOLEAN]
          /\ ~new.flag
      BY <2>2 DEF TypeOK
    <2>4. UNCHANGED tags \/ tags' = [tags EXCEPT ![lbId] = new]
      BY <1>9 DEF RemoveTags, WriteTags
    <2> HIDE DEF new
    <2>5. /\ tags' \in [LBs -> [pool : Pools \cup {NoTag}, port : Ports \cup {NoTag},
                                flag : BOOLEAN]]
          /\ \A l \in LBs : tags'[l].flag => tags'[l].pool # NoTag /\ tags'[l].port # NoTag
      BY <2>2, <2>3, <2>4 DEF TypeOK
    <2> QED
      BY <1>9, <2>1, <2>5 DEF RemoveTags, WriteTags, TypeOK, CallTypeOK
  <1>10. CASE BeginList
    BY <1>10 DEF BeginList, ListingReset, TypeOK
  <1>11. CASE DescribeLoadBalancers \/ DescribeTags
    <2> USE DEF DescribeLoadBalancers, DescribeTags, ListFails, ListingReset
    <2>1. CallTypeOK'
      BY <1>11, SuccessType, FailureType DEF Ahead
    <2>2. todo' \subseteq NetworkLBs /\ reading' \in todo' \cup {NoCall}
          /\ lbConfigs' \in [Endpoints -> Carried \cup {NoConfig}]
      BY <1>11 DEF Control, TypeOK
    <2> QED
      BY <1>11, <2>1, <2>2 DEF TypeOK, CallTypeOK
  <1>16. CASE DescribeHealthStatus \/ DescribeInstances
    <2> USE DEF DescribeHealthStatus, DescribeInstances, ListFails, ListingReset
    <2>1. CallTypeOK'
      BY <1>16, SuccessType, FailureType DEF Ahead
    <2>2. /\ reading \in todo /\ reading \in LBs
          /\ LoadBalancerName[reading] \in Endpoints
          /\ servers[reading] \in SUBSET Instances
          /\ registeredInstanceIds \in SUBSET Instances
          /\ tags[reading].pool \in Pools /\ tags[reading].port \in Ports
      BY <1>16, SlbAssumption DEF Control, TypeOK
    <2>3. registeredInstanceIds' \subseteq Instances
      BY <1>16, <2>2
    <2>4. todo' \subseteq NetworkLBs /\ reading' \in todo' \cup {NoCall}
          /\ lbConfigs' \in [Endpoints -> Carried \cup {NoConfig}]
      <3>1. CASE ListingReset
        BY <3>1
      <3>2. CASE UNCHANGED listing
        BY <3>2 DEF TypeOK
      <3>3. ASSUME NEW ids \in SUBSET Instances, AppendConfig(ids)
            PROVE  /\ todo' \subseteq NetworkLBs
                   /\ reading' \in todo' \cup {NoCall}
                   /\ lbConfigs' \in [Endpoints -> Carried \cup {NoConfig}]
        BY <2>2, <3>3, ReportType DEF AppendConfig, TypeOK
      <3> QED
        BY <1>16, <2>2, <3>1, <3>2, <3>3
    <2> QED
      BY <1>16, <2>1, <2>3, <2>4 DEF TypeOK, CallTypeOK
  <1>12. CASE EndList
    BY <1>12 DEF EndList, ReturnOk, Finish, TypeOK
  <1>13. CASE Drift
    <2>1. edits' \in 0..MaxEdits
      BY <1>13, SlbAssumption DEF Drift, TypeOK
    <2>2. servers' \in [LBs -> SUBSET Instances] /\ disturbed' \in BOOLEAN
      BY <1>13 DEF Drift, TypeOK
    <2> QED
      BY <1>13, <2>1, <2>2 DEF Drift, TypeOK, request
  <1>14. CASE Crash
    <2>1. CallTypeOK'
      BY <1>14, FailureType DEF Crash, ListFails
    <2> QED
      BY <1>14, <2>1 DEF Crash, ListFails, ListingReset, TypeOK, CallTypeOK
  <1>15. CASE UNCHANGED vars
    BY <1>15 DEF vars, request, TypeOK
  <1> QED
    BY <1>1, <1>2, <1>3, <1>4, <1>5, <1>6, <1>7, <1>8, <1>9, <1>10, <1>11,
       <1>12, <1>13, <1>14, <1>15, <1>16 DEF Next

(* The call's kind and place keep in step.                                 *)
LEMMA ControlStep ==
    ASSUME TypeOK, Control, [Next]_vars
    PROVE  Control'
  <1> USE DEF Control, aliyun, request, listing
  <1> USE DEF Succeeds, Fails, Proceed, Finish, ReturnOk, ReturnError,
              RequestFails, Answer
  <1>1. CASE Begin
    BY <1>1 DEF Begin, TypeOK
  <1>2. CASE Describe
    BY <1>2 DEF Describe, TypeOK
  <1>3. CASE checkListenersInstancePort \/ Lookup \/ Health
    BY <1>3 DEF checkListenersInstancePort, Lookup, Health
  <1>4. CASE Register
    BY <1>4 DEF Register, ChangeServers
  <1>5. CASE Deregister
    BY <1>5 DEF Deregister, ChangeServers, TypeOK
  <1>6. CASE AddTags \/ RemoveTags
    BY <1>6 DEF AddTags, RemoveTags, WriteTags
  <1>7. CASE BeginList \/ DescribeLoadBalancers \/ DescribeTags
    BY <1>7 DEF BeginList, DescribeLoadBalancers, DescribeTags, ListFails,
                ListingReset
  <1>8. CASE DescribeHealthStatus \/ DescribeInstances
    BY <1>8 DEF DescribeHealthStatus, DescribeInstances, AppendConfig, ListFails,
                ListingReset
  <1>9. CASE EndList
    BY <1>9 DEF EndList
  <1>10. CASE Drift
    BY <1>10, SlbAssumption DEF Drift
  <1>11. CASE Crash
    BY <1>11 DEF Crash, ListFails, ListingReset
  <1>12. CASE UNCHANGED vars
    BY <1>12 DEF vars
  <1> QED
    BY <1>1, <1>2, <1>3, <1>4, <1>5, <1>6, <1>7, <1>8, <1>9, <1>10, <1>11,
       <1>12 DEF Next

(* The swap proceeds as planned unless somebody disturbs it.               *)
LEMMA SwapStep ==
    ASSUME TypeOK, Control, Swap, [Next]_vars
    PROVE  Swap'
  <1> USE DEF Swap, Wanted, aliyun, request
  <1> USE DEF Succeeds, Fails, Proceed, Finish, ReturnOk, ReturnError,
              RequestFails, Answer
  <1>1. CASE Begin
    BY <1>1 DEF Begin
  <1>2. CASE Describe
    BY <1>2 DEF Describe
  <1>3. CASE checkListenersInstancePort
    BY <1>3 DEF checkListenersInstancePort
  <1>4. CASE Lookup
    BY <1>4 DEF Lookup, Control
  <1>5. CASE Health
    BY <1>5 DEF Health
  <1>6. CASE Register
    <2>1. lbId \in LBs /\ lbId \in DOMAIN servers
      BY <1>6 DEF Register, Control, TypeOK
    <2> QED
      BY <1>6, <2>1 DEF Register, ChangeServers
  <1>7. CASE Deregister
    <2>1. lbId \in LBs /\ lbId \in DOMAIN servers
      BY <1>7 DEF Deregister, Control, TypeOK
    <2> QED
      BY <1>7, <2>1 DEF Deregister, ChangeServers
  <1>8. CASE AddTags \/ RemoveTags
    BY <1>8 DEF AddTags, RemoveTags, WriteTags
  <1>9. CASE BeginList \/ DescribeLoadBalancers \/ DescribeTags
    BY <1>9 DEF BeginList, DescribeLoadBalancers, DescribeTags, ListFails
  <1>10. CASE DescribeHealthStatus \/ DescribeInstances \/ EndList
    BY <1>10 DEF DescribeHealthStatus, DescribeInstances, EndList, ListFails
  <1>11. CASE Drift
    <2>1. PICK l \in LBs, i \in Instances :
             /\ servers' = [servers EXCEPT ![l] =
                               IF i \in @ THEN @ \ {i} ELSE @ \cup {i}]
             /\ disturbed' = (disturbed \/ lbId = l \/ (op = "list" /\ pc # "idle"))
      BY <1>11 DEF Drift
    <2>2. ~disturbed' => ~disturbed /\ lbId # l
      BY <2>1
    <2>3. lbId \in LBs /\ lbId # l => servers'[lbId] = servers[lbId]
      BY <2>1 DEF TypeOK
    <2>4. UNCHANGED <<pc, op, lbId, config, ecsInstanceIds, registeredInstanceIds>>
      BY <1>11 DEF Drift
    <2> QED
      BY <2>2, <2>3, <2>4 DEF Control
  <1>12. CASE Crash
    BY <1>12 DEF Crash, ListFails
  <1>13. CASE UNCHANGED vars
    BY <1>13 DEF vars
  <1> QED
    BY <1>1, <1>2, <1>3, <1>4, <1>5, <1>6, <1>7, <1>8, <1>9, <1>10, <1>11,
       <1>12, <1>13 DEF Next

(* A balancer that is read joins the answer under its name.                *)
LEMMA AppendListing ==
    ASSUME TypeOK, Control, Listing, pc \in {"status", "instances"},
           UNCHANGED <<servers, tags, disturbed>>,
           NEW ids \in SUBSET Instances, AppendConfig(ids),
           ~disturbed => ids = servers[reading]
    PROVE  \A e \in Endpoints :
             /\ lbConfigs'[e] # NoConfig <=> Listed(e)' \ todo' # {}
             /\ lbConfigs'[e] # NoConfig /\ ~disturbed' =>
                   \E l \in Listed(e)' \ todo' : lbConfigs'[e] = Reported(l)'
  <1>1. /\ reading \in todo /\ todo \subseteq NetworkLBs /\ tags[reading].flag
        /\ reading \in LBs /\ LoadBalancerName[reading] \in Endpoints
        /\ tags[reading].pool \in Pools /\ tags[reading].port \in Ports
    BY SlbAssumption DEF Control, TypeOK
  <1>2. \A e \in Endpoints : Listed(e)' = Listed(e)
    BY DEF Listed
  <1>3. \A l \in LBs : Reported(l)' = Reported(l)
    BY DEF Reported
  <1>4. todo' = todo \ {reading}
    BY DEF AppendConfig
  <1>5. Listed(LoadBalancerName[reading]) \ todo'
           = (Listed(LoadBalancerName[reading]) \ todo) \cup {reading}
    BY <1>1, <1>4 DEF Listed
  <1>6. \A e \in Endpoints \ {LoadBalancerName[reading]} :
           Listed(e) \ todo' = Listed(e) \ todo
    BY <1>4 DEF Listed
  <1>7. \A e \in Endpoints : Listed(e) \subseteq LBs
    BY SlbAssumption DEF Listed
  <1> DEFINE new == Report(tags[reading], ids)
  <1>8. new # NoConfig /\ (~disturbed => new = Reported(reading))
    BY <1>1, ReportType DEF Reported
  <1> HIDE DEF new
  <1>9. lbConfigs' = [lbConfigs EXCEPT ![LoadBalancerName[reading]] = new]
    BY DEF AppendConfig, new
  <1>10. ASSUME NEW e \in Endpoints \ {LoadBalancerName[reading]}
         PROVE  lbConfigs'[e] = lbConfigs[e]
    BY <1>9 DEF TypeOK
  <1>11. lbConfigs'[LoadBalancerName[reading]] = new
    BY <1>1, <1>9 DEF TypeOK
  <1>12. \A e \in Endpoints :
             /\ lbConfigs[e] # NoConfig <=> Listed(e) \ todo # {}
             /\ lbConfigs[e] # NoConfig /\ ~disturbed =>
                   \E l \in Listed(e) \ todo : lbConfigs[e] = Reported(l)
    BY DEF Listing
  <1>13. ASSUME NEW e \in Endpoints, e = LoadBalancerName[reading]
         PROVE  /\ lbConfigs'[e] # NoConfig /\ Listed(e)' \ todo' # {}
                /\ ~disturbed => \E l \in Listed(e)' \ todo' : lbConfigs'[e] = Reported(l)'
    BY <1>1, <1>2, <1>3, <1>5, <1>8, <1>11, <1>13
  <1>14. ASSUME NEW e \in Endpoints \ {LoadBalancerName[reading]}
         PROVE  /\ lbConfigs'[e] # NoConfig <=> Listed(e)' \ todo' # {}
                /\ lbConfigs'[e] # NoConfig /\ ~disturbed' =>
                      \E l \in Listed(e)' \ todo' : lbConfigs'[e] = Reported(l)'
    BY <1>2, <1>3, <1>6, <1>7, <1>10, <1>12
  <1> QED
    BY <1>13, <1>14

(* The listing stays true of the balancers of the network.                 *)
LEMMA ListingStep ==
    ASSUME TypeOK, Control, Listing, [Next]_vars
    PROVE  Listing'
  <1> USE DEF Succeeds, Fails, Proceed, Finish, ReturnOk, ReturnError,
              RequestFails, ListFails
  <1>1. CASE pc' \notin {"balancers", "read", "status", "instances"}
    BY <1>1 DEF Listing
  <1>2. CASE BeginList
    BY <1>2 DEF BeginList, ListingReset, Listing
  <1>3. CASE DescribeLoadBalancers /\ pc' = "read"
    <2>1. todo' = NetworkLBs /\ lbConfigs' = [e \in Endpoints |-> NoConfig]
      BY <1>3 DEF DescribeLoadBalancers, Listing
    <2>2. \A e \in Endpoints : Listed(e)' \subseteq NetworkLBs
      BY DEF Listed
    <2> QED
      BY <1>3, <2>1, <2>2 DEF Listing
  <1>4. CASE DescribeTags /\ pc' # "idle"
    <2>1. /\ UNCHANGED <<servers, tags, lbConfigs, disturbed>>
          /\ pc = "read" /\ pc' \in {"read", "status"}
          /\ \E l \in todo : \/ todo' = todo \ {l} /\ ~tags[l].flag
                            \/ todo' = todo
      BY <1>4 DEF DescribeTags, aliyun
    <2>2. \A e \in Endpoints : Listed(e)' = Listed(e) /\ Listed(e) \ todo' = Listed(e) \ todo
      BY <2>1 DEF Listed
    <2>3. \A l \in LBs : Reported(l)' = Reported(l)
      BY <2>1 DEF Reported
    <2>4. \A e \in Endpoints : Listed(e) \subseteq LBs
      BY SlbAssumption DEF Listed
    <2>5. /\ \A e \in Endpoints :
                /\ lbConfigs[e] # NoConfig <=> Listed(e) \ todo # {}
                /\ lbConfigs[e] # NoConfig /\ ~disturbed =>
                      \E l \in Listed(e) \ todo : lbConfigs[e] = Reported(l)
      BY <2>1 DEF Listing
    <2>6. ASSUME NEW e \in Endpoints
          PROVE  /\ lbConfigs'[e] # NoConfig <=> Listed(e)' \ todo' # {}
                 /\ lbConfigs'[e] # NoConfig /\ ~disturbed' =>
                       \E l \in Listed(e)' \ todo' : lbConfigs'[e] = Reported(l)'
      BY <2>1, <2>2, <2>3, <2>4, <2>5
    <2> QED
      BY <2>1, <2>6 DEF Listing
  <1>5. CASE DescribeHealthStatus /\ pc' # "idle"
    <2>1. /\ UNCHANGED <<servers, tags, disturbed>> /\ pc = "status"
          /\ registeredInstanceIds' = servers[reading]
      BY <1>5 DEF DescribeHealthStatus, aliyun
    <2>2. CASE AppendConfig({}) /\ pc' = "read" /\ registeredInstanceIds' = {}
      BY <2>1, <2>2, AppendListing DEF Listing
    <2>3. CASE UNCHANGED listing /\ pc' = "instances"
      BY <2>1, <2>3 DEF Listing, Listed, Reported, listing
    <2> QED
      BY <1>5, <2>2, <2>3 DEF DescribeHealthStatus
  <1>6. CASE DescribeInstances /\ pc' # "idle"
    <2>1. /\ UNCHANGED <<servers, tags, disturbed>> /\ pc = "instances"
          /\ AppendConfig(registeredInstanceIds) /\ pc' = "read"
      BY <1>6 DEF DescribeInstances, aliyun
    <2>2. /\ registeredInstanceIds \in SUBSET Instances
          /\ ~disturbed => registeredInstanceIds = servers[reading]
      BY <2>1 DEF Listing, TypeOK
    <2>3. \A e \in Endpoints :
             /\ lbConfigs'[e] # NoConfig <=> Listed(e)' \ todo' # {}
             /\ lbConfigs'[e] # NoConfig /\ ~disturbed' =>
                   \E l \in Listed(e)' \ todo' : lbConfigs'[e] = Reported(l)'
      BY <2>1, <2>2, AppendListing
    <2> QED
      BY <2>1, <2>3 DEF Listing
  <1>7. CASE Drift
    <2>1. UNCHANGED <<tags, pc, listing>>
          /\ (pc \in {"balancers", "read", "status", "instances"} => disturbed')
      BY <1>7 DEF Drift, Control, TypeOK
    <2> QED
      BY <2>1 DEF Listing, Listed, listing
  <1>8. CASE UNCHANGED vars
    BY <1>8 DEF vars, aliyun, listing, Listing, Listed, Reported
  <1>9. CASE Begin \/ Crash \/ EndList
    BY <1>1, <1>9 DEF Begin, Crash, EndList
  <1>10. CASE Describe \/ checkListenersInstancePort \/ Lookup \/ Health
    BY <1>1, <1>10 DEF Describe, checkListenersInstancePort, Lookup, Health, Answer
  <1>11. CASE Register \/ Deregister \/ AddTags \/ RemoveTags
    BY <1>1, <1>11 DEF Register, Deregister, ChangeServers, Answer, AddTags,
                       RemoveTags, WriteTags
  <1>12. CASE DescribeLoadBalancers /\ pc' # "read"
    BY <1>1, <1>12 DEF DescribeLoadBalancers
  <1> QED
    BY <1>1, <1>2, <1>3, <1>4, <1>5, <1>6, <1>7, <1>8, <1>9, <1>10, <1>11,
       <1>12 DEF Next

-----------------------------------------------------------------------------
(* The step simulation of LBProvider.                                      *)

lbBar == [l \in LBs |-> Carries(l)]

callBar ==
    IF pc = "idle" \/ op = "list" THEN NoCall
    ELSE [endpoint |-> lbId, new |-> Goal, disturbed |-> disturbed]

(* A call is told from no call, and its goal is one that configurations    *)
(* have.                                                                   *)
LEMMA CallInFlight ==
    ASSUME TypeOK, Control, pc # "idle", op # "list"
    PROVE  /\ callBar = [endpoint |-> lbId, new |-> Goal, disturbed |-> disturbed]
           /\ callBar # NoCall
           /\ lbId \in Endpoints
           /\ Goal \in P!Goals
           /\ op = "remove" => Goal = NoConfig
           /\ op # "remove" =>
                 /\ config \in Configs
                 /\ Goal = Serves(getLBTags(config), getECSInstances(config))
  <1>1. callBar = [endpoint |-> lbId, new |-> Goal, disturbed |-> disturbed]
    BY DEF callBar
  <1>2. lbId \in Endpoints /\ disturbed \in BOOLEAN
    BY DEF Control, TypeOK
  <1>3. op # "remove" => config \in Configs
    BY DEF Control, TypeOK
  <1>4. op # "remove" => Goal = Serves(getLBTags(config), getECSInstances(config))
    BY <1>3, ServedIsCarried DEF Goal
  <1>5. op # "remove" => Goal \in Carried
    BY <1>3, <1>4, ConfigType, ServesType DEF getLBTags
  <1>6. op = "remove" => Goal = NoConfig
    BY DEF Goal
  <1>7. callBar # NoCall
    BY <1>1, <1>2, <1>5, <1>6, SlbAssumption
  <1>8. op # "remove" => Goal \in {P!Carry(c) : c \in Range(Served)}
    <2>1. ASSUME NEW c \in Configs PROVE Served[c] \in Range(Served)
      BY DEF Served, Range
    <2> QED
      BY <1>3, <2>1 DEF Goal, Carry, P!Carry, Range, P!Range
  <1>9. Goal \in P!Goals
    BY <1>6, <1>8 DEF P!Goals
  <1> QED
    BY <1>1, <1>2, <1>3, <1>4, <1>6, <1>7, <1>9

(* What a request may do to the balancer of the call is an effect of the   *)
(* call.                                                                   *)
LEMMA EffectOf ==
    ASSUME callBar.endpoint = lbId, callBar.new = Goal,
           \/ UNCHANGED lbBar
           \/ \E e \in LBs :
                 /\ e = lbId
                 /\ Carries(e)' \in Halfway(Carries(e), Goal)
                 /\ \A l \in LBs \ {e} : Carries(l)' = Carries(l)
    PROVE  P!Effect
  <1>1. CASE UNCHANGED lbBar
    BY <1>1 DEF P!Effect, lbBar
  <1>2. ASSUME NEW e \in LBs, e = lbId,
               Carries(e)' \in Halfway(Carries(e), Goal),
               \A l \in LBs \ {e} : Carries(l)' = Carries(l)
        PROVE  P!Effect
    <2>1. lbBar'[e] = Carries(e)' /\ lbBar[e] = Carries(e)
      BY DEF lbBar
    <2>2. lbBar' = [lbBar EXCEPT ![e] = lbBar'[e]]
      BY <1>2, <2>1 DEF lbBar
    <2>3. P!ChangesTo(e, Halfway(lbBar[e], Goal))
      BY <1>2, <2>1, <2>2 DEF P!ChangesTo, lbBar
    <2>4. P!Halfway(lbBar[e], Goal) = Halfway(lbBar[e], Goal)
      BY DEF P!Halfway, P!PoolsOf, Halfway, PoolsOf
    <2> QED
      BY <1>2, <2>3, <2>4 DEF P!Effect, lbBar, callBar
  <1> QED
    BY <1>1, <1>2

(* A request that is answered is work on the call, one that fails ends it. *)
LEMMA AnswerIsStep ==
    ASSUME TypeOK, Control, pc # "idle", op # "list", P!Effect,
           NEW next \in Ahead \ Within, Proceed(next) \/ ReturnError
    PROVE  P!Next
  <1>1. callBar # NoCall
    BY CallInFlight
  <1>2. CASE Proceed(next)
    <2>1. callBar' = callBar /\ outcome' = outcome
      BY <1>2 DEF Proceed, callBar, Goal, request, Ahead, Within
    <2> QED
      BY <1>1, <2>1 DEF P!Next, P!Work, callBar
  <1>3. CASE ReturnError
    <2>1. callBar' = NoCall /\ outcome' = "error"
      BY <1>3 DEF ReturnError, Finish, callBar
    <2> QED
      BY <1>1, <2>1 DEF P!Next, P!Fail, callBar
  <1> QED
    BY <1>2, <1>3

(* The last request of a call, answered.                                   *)
LEMMA OkIsReturn ==
    ASSUME TypeOK, Control, pc # "idle", op # "list", P!Effect,
           ReturnOk, lbId \in LBs, disturbed \/ lbBar'[lbId] = Goal
    PROVE  P!Next
  <1>1. callBar' = NoCall /\ outcome' = "ok"
    BY DEF ReturnOk, Finish, callBar
  <1>2. callBar # NoCall /\ callBar.endpoint = lbId /\ callBar.new = Goal
        /\ callBar.disturbed = disturbed
    BY CallInFlight
  <1> QED
    BY <1>1, <1>2 DEF P!Next, P!Return, callBar, lbBar

(* A request that reads has no effect.                                     *)
LEMMA NothingEffect ==
    ASSUME TypeOK, Control, pc # "idle", op # "list",
           UNCHANGED aliyun
    PROVE  P!Effect
  <1>1. UNCHANGED lbBar
    BY DEF lbBar, Carries, aliyun
  <1>2. callBar.endpoint = lbId /\ callBar.new = Goal
    BY CallInFlight
  <1> QED
    BY <1>1, <1>2, EffectOf

(* One that changes the instances leaves the pool name.                    *)
LEMMA InstancesEffect ==
    ASSUME TypeOK, TypeOK', Control, lbId \in LBs, pc # "idle",
           op # "list", UNCHANGED tags,
           \A l \in LBs \ {lbId} : servers'[l] = servers[l]
    PROVE  P!Effect
  <1>1. ASSUME NEW e \in LBs, e = lbId
        PROVE  Carries(e)' \in Halfway(Carries(e), Goal)
    <2>1. CASE tags[e].flag
      <3> DEFINE new == Serves(tags[e], servers'[e])
                 old == Carries(e)
      <3>1. tags[e].pool \in Pools /\ tags[e].port \in Ports
            /\ servers'[e] \in SUBSET Instances
        BY <2>1 DEF TypeOK
      <3>2. Carries(e)' = new
        BY <2>1 DEF Carries
      <3>3. new \in Carried /\ new.LBTargetPoolName = tags[e].pool
        BY <3>1, ServesType
      <3>4. tags[e].pool \in PoolsOf(old)
        BY <2>1, CarriesType DEF PoolsOf
      <3> HIDE DEF new, old
      <3>5. new \in [LBTargetPoolName : PoolsOf(old) \cup PoolsOf(Goal),
                     LBTargets : SUBSET Targets]
        BY <3>3, <3>4 DEF Carried
      <3> QED
        BY <3>2, <3>5 DEF Halfway, old
    <2>2. CASE ~tags[e].flag
      BY <2>2 DEF Carries, Halfway
    <2> QED
      BY <2>1, <2>2
  <1>2. \A l \in LBs \ {lbId} : Carries(l)' = Carries(l)
    BY DEF Carries
  <1>3. callBar.endpoint = lbId /\ callBar.new = Goal
    BY CallInFlight
  <1> QED
    BY <1>1, <1>2, <1>3, EffectOf

(* AddTags gives the balancer the pool of the goal, and the goal itself    *)
(* when its instances are the ones to be left.                             *)
LEMMA AddTagsEffect ==
    ASSUME TypeOK, Control, pc = "tag", lbId \in LBs,
           UNCHANGED servers,
           tags' = [tags EXCEPT ![lbId] = getLBTags(config)]
    PROVE  /\ P!Effect
           /\ servers[lbId] = getECSInstances(config) => lbBar'[lbId] = Goal
  <1> DEFINE new == Serves(getLBTags(config), servers[lbId])
  <1>1. op = "put" /\ config \in Configs
    BY DEF Control
  <1>2. /\ getLBTags(config).pool \in Pools /\ getLBTags(config).port \in Ports
        /\ getLBTags(config).flag
        /\ getECSInstances(config) \in SUBSET Instances
        /\ servers[lbId] \in SUBSET Instances
    BY <1>1, ConfigType DEF getLBTags, TypeOK
  <1>3. Goal = Serves(getLBTags(config), getECSInstances(config))
        /\ callBar.endpoint = lbId /\ callBar.new = Goal
    BY <1>1, CallInFlight
  <1>4. Goal # NoConfig /\ Goal.LBTargetPoolName = getLBTags(config).pool
    BY <1>2, <1>3, ServesType
  <1>5. new \in Carried /\ new.LBTargetPoolName = getLBTags(config).pool
    BY <1>2, ServesType
  <1>6. ASSUME NEW l \in LBs, l = lbId PROVE Carries(l)' = new
    <2>1. tags'[l] = getLBTags(config)
      BY <1>6 DEF TypeOK
    <2> QED
      BY <1>2, <1>6, <2>1 DEF Carries
  <1>7. ASSUME NEW l \in LBs \ {lbId} PROVE Carries(l)' = Carries(l)
    BY DEF Carries, TypeOK
  <1> HIDE DEF new
  <1>8. new \in Halfway(Carries(lbId), Goal)
    <2>1. getLBTags(config).pool \in PoolsOf(Goal)
      BY <1>4 DEF PoolsOf
    <2>2. new \in [LBTargetPoolName : PoolsOf(Carries(lbId)) \cup PoolsOf(Goal),
                   LBTargets : SUBSET Targets]
      BY <1>5, <2>1 DEF Carried
    <2> QED
      BY <2>2 DEF Halfway
  <1>9. P!Effect
    BY <1>3, <1>6, <1>7, <1>8, EffectOf
  <1>10. lbBar'[lbId] = new
    <2>1. ASSUME NEW l \in LBs, l = lbId PROVE lbBar'[l] = new
      BY <1>6, <2>1 DEF lbBar
    <2> QED
      BY <2>1
  <1> QED
    BY <1>3, <1>9, <1>10 DEF new

(* Without its flag a balancer carries nothing, whatever the other tags    *)
(* say.                                                                    *)
LEMMA RemoveTagsEffect ==
    ASSUME TypeOK, Control, pc # "idle", op = "remove",
           lbId \in LBs, UNCHANGED servers,
           \A l \in LBs \ {lbId} : tags'[l] = tags[l], ~tags'[lbId].flag
    PROVE  P!Effect /\ lbBar'[lbId] = Goal
  <1>1. Goal = NoConfig /\ callBar.endpoint = lbId /\ callBar.new = Goal
    BY CallInFlight
  <1>2. ASSUME NEW l \in LBs, l = lbId PROVE Carries(l)' = NoConfig
    BY <1>2 DEF Carries
  <1>3. ASSUME NEW l \in LBs \ {lbId} PROVE Carries(l)' = Carries(l)
    BY DEF Carries
  <1>4. P!Effect
    BY <1>1, <1>2, <1>3, EffectOf DEF Halfway
  <1>5. lbBar'[lbId] = NoConfig
    <2>1. ASSUME NEW l \in LBs, l = lbId PROVE lbBar'[l] = NoConfig
      BY <1>2, <2>1 DEF lbBar
    <2> QED
      BY <2>1
  <1> QED
    BY <1>1, <1>4, <1>5

(* Where the provider does not call, nothing it does matters to the loop.  *)
LEMMA ListIsList ==
    ASSUME TypeOK', pc = "idle" \/ op = "list", pc' = "idle" \/ op' = "list",
           UNCHANGED aliyun
    PROVE  P!List
  <1>1. callBar = NoCall /\ callBar' = NoCall
    BY DEF callBar
  <1>2. UNCHANGED lbBar
    BY DEF lbBar, Carries, aliyun
  <1>3. outcome' \in {"none", "ok", "error"}
    BY DEF TypeOK
  <1> QED
    BY <1>1, <1>2, <1>3 DEF P!List, callBar, lbBar

LEMMA BeginIsBegin ==
    ASSUME Control, Begin
    PROVE  P!Begin
  <1>1. callBar = NoCall /\ UNCHANGED lbBar /\ disturbed' = FALSE
    BY DEF Begin, Control, callBar, lbBar, Carries, aliyun
  <1>2. pc' # "idle" /\ op' # "list" /\ outcome' = "none"
    BY DEF Begin
  <1>3. callBar' = [endpoint |-> lbId', new |-> Goal', disturbed |-> disturbed']
        /\ lbId' \in Endpoints
    BY <1>2 DEF callBar, Begin
  <1>4. Goal' \in P!Goals
    <2>1. CASE op' = "remove"
      BY <2>1 DEF Goal, P!Goals
    <2>2. CASE op' # "remove"
      <3>1. config' \in Configs
        BY <2>2 DEF Begin
      <3>2. Served[config'] \in Range(Served)
        BY <3>1 DEF Served, Range
      <3>3. Goal' = P!Carry(Served[config'])
        BY <2>2 DEF Goal, Carry, P!Carry, Range, P!Range
      <3> QED
        BY <3>2, <3>3 DEF P!Goals
    <2> QED
      BY <2>1, <2>2
  <1> QED
    BY <1>1, <1>2, <1>3, <1>4 DEF P!Begin, callBar, lbBar

LEMMA DriftIsDrift ==
    ASSUME TypeOK, TypeOK', Control, Drift
    PROVE  P!Drift
  <1>1. PICK e \in LBs :
           /\ \A l \in LBs \ {e} : servers'[l] = servers[l]
           /\ disturbed' = (disturbed \/ lbId = e \/ (op = "list" /\ pc # "idle"))
    BY DEF Drift, TypeOK
  <1>2. UNCHANGED <<tags, pc, op, lbId, config, outcome>>
    BY DEF Drift, request
  <1>3. ASSUME NEW l \in LBs PROVE Carries(l)' \in Carried \cup {NoConfig}
    <2>1. CASE tags'[l].flag
      <3>1. tags'[l].pool \in Pools /\ tags'[l].port \in Ports
            /\ servers'[l] \in SUBSET Instances
        BY <2>1 DEF TypeOK
      <3> QED
        BY <2>1, <3>1, ServesType DEF Carries
    <2>2. CASE ~tags'[l].flag
      BY <2>2 DEF Carries
    <2> QED
      BY <2>1, <2>2
  <1>4. ASSUME NEW l \in LBs \ {e} PROVE Carries(l)' = Carries(l)
    BY <1>1, <1>2 DEF Carries
  <1>5. lbBar' = [lbBar EXCEPT ![e] = lbBar'[e]] /\ lbBar'[e] \in Carried \cup {NoConfig}
    BY <1>3, <1>4 DEF lbBar
  <1>6. P!ChangesTo(e, P!Reports)
    BY <1>5 DEF P!ChangesTo, P!Reports, P!Carried, Carried, lbBar
  <1>7. Goal' = Goal
    BY <1>2 DEF Goal
  <1>8. callBar' = IF callBar # NoCall /\ callBar.endpoint = e
                   THEN [callBar EXCEPT !.disturbed = TRUE] ELSE callBar
    <2>1. CASE pc = "idle" \/ op = "list"
      BY <1>2, <2>1 DEF callBar
    <2>2. CASE ~(pc = "idle" \/ op = "list")
      <3>1. callBar = [endpoint |-> lbId, new |-> Goal, disturbed |-> disturbed]
            /\ callBar # NoCall
        BY <2>2, CallInFlight
      <3>2. callBar' = [endpoint |-> lbId, new |-> Goal, disturbed |-> disturbed']
        BY <1>2, <1>7, <2>2 DEF callBar
      <3>3. disturbed \in BOOLEAN
        BY DEF TypeOK
      <3> QED
        <4>1. CASE lbId = e
          BY <1>1, <3>1, <3>2, <4>1
        <4>2. CASE lbId # e
          <5>1. disturbed' = disturbed
            BY <1>1, <2>2, <3>3, <4>2
          <5> QED
            BY <3>1, <3>2, <4>2, <5>1
        <4> QED
          BY <4>1, <4>2
    <2> QED
      BY <2>1, <2>2
  <1> QED
    BY <1>2, <1>6, <1>8 DEF P!Drift, callBar

(* Each step of the provider is a step of LBProvider, or leaves its state  *)
(* alone.                                                                  *)
LEMMA SimulationStep ==
    ASSUME IInv, IInv', [Next]_vars
    PROVE  P!Next \/ UNCHANGED P!vars
  <1> USE DEF IInv
  <1>1. CASE Begin
    BY <1>1, BeginIsBegin DEF P!Next
  <1>2. CASE Describe \/ checkListenersInstancePort \/ Lookup \/ Health
    <2>1. pc # "idle" /\ op # "list" /\ P!Effect
      BY <1>2, NothingEffect
         DEF Describe, checkListenersInstancePort, Lookup, Health, Control
    <2>2. ReturnError \/ \E next \in Ahead \ Within : Proceed(next)
      BY <1>2 DEF Describe, checkListenersInstancePort, Lookup, Health, Answer,
                  RequestFails, Ahead, Within
    <2> QED
      BY <2>1, <2>2, AnswerIsStep DEF Ahead, Within
  <1>3. CASE Register \/ Deregister
    <2>1. pc # "idle" /\ op # "list" /\ lbId \in LBs
      BY <1>3 DEF Register, Deregister, Control
    <2>2. UNCHANGED tags /\ \A l \in LBs \ {lbId} : servers'[l] = servers[l]
      BY <1>3 DEF Register, Deregister, ChangeServers, TypeOK
    <2>3. ReturnError \/ \E next \in Ahead \ Within : Proceed(next)
      BY <1>3 DEF Register, Deregister, ChangeServers, Answer, RequestFails, Ahead, Within
    <2> QED
      BY <2>1, <2>2, <2>3, InstancesEffect, AnswerIsStep DEF Ahead, Within
  <1>4. CASE AddTags
    <2>1. /\ pc = "tag" /\ op # "list" /\ op # "remove" /\ lbId \in LBs
          /\ UNCHANGED servers
      BY <1>4 DEF AddTags, WriteTags, Control
    <2>2. CASE UNCHANGED tags /\ RequestFails
      BY <2>1, <2>2, NothingEffect, AnswerIsStep DEF aliyun, RequestFails, Ahead, Within
    <2>3. CASE /\ tags' = [tags EXCEPT ![lbId] = getLBTags(config)]
               /\ (Succeeds /\ ReturnOk) \/ RequestFails
      <3>1. P!Effect
        BY <2>1, <2>3, AddTagsEffect
      <3>2. disturbed \/ lbBar'[lbId] = Goal
        <4>1. ~disturbed => servers[lbId] = getECSInstances(config)
          BY <2>1 DEF Swap, Wanted
        <4> QED
          BY <2>1, <2>3, <4>1, AddTagsEffect
      <3> QED
        BY <2>1, <2>3, <3>1, <3>2, OkIsReturn, AnswerIsStep DEF RequestFails, Ahead, Within
    <2> QED
      BY <1>4, <2>2, <2>3 DEF AddTags, WriteTags
  <1>5. CASE RemoveTags
    <2>1. pc # "idle" /\ op = "remove" /\ lbId \in LBs /\ UNCHANGED servers
      BY <1>5 DEF RemoveTags, WriteTags, Control
    <2>2. CASE UNCHANGED tags /\ RequestFails
      BY <2>1, <2>2, NothingEffect, AnswerIsStep DEF aliyun, RequestFails, Ahead, Within
    <2>3. CASE /\ ~tags'[lbId].flag /\ \A l \in LBs \ {lbId} : tags'[l] = tags[l]
               /\ (Succeeds /\ ReturnOk) \/ RequestFails
      <3>1. P!Effect /\ lbBar'[lbId] = Goal
        BY <2>1, <2>3, RemoveTagsEffect
      <3> QED
        BY <2>1, <2>3, <3>1, OkIsReturn, AnswerIsStep DEF RequestFails, Ahead, Within
    <2> QED
      BY <1>5, <2>1, <2>2, <2>3 DEF RemoveTags, WriteTags, TypeOK
  <1>6. CASE BeginList \/ DescribeLoadBalancers \/ DescribeTags
             \/ DescribeHealthStatus \/ DescribeInstances \/ EndList
    <2> USE DEF BeginList, DescribeLoadBalancers, DescribeTags,
                DescribeHealthStatus, DescribeInstances, EndList
    <2>1. pc = "idle" \/ op = "list"
      BY <1>6 DEF Control
    <2>2. pc' = "idle" \/ op' = "list"
      BY <1>6 DEF Control, Proceed, ListFails, RequestFails, ReturnError,
                  ReturnOk, Finish, request
    <2>3. UNCHANGED aliyun
      BY <1>6
    <2> QED
      BY <2>1, <2>2, <2>3, ListIsList DEF P!Next
  <1>7. CASE Drift
    BY <1>7, DriftIsDrift DEF P!Next
  <1>8. CASE Crash
    <2>1. UNCHANGED aliyun /\ pc # "idle" /\ ReturnError
      BY <1>8 DEF Crash, ListFails, RequestFails
    <2>2. CASE op = "list"
      <3>1. pc' = "idle"
        BY <2>1 DEF ReturnError, Finish
      <3> QED
        BY <2>1, <2>2, <3>1, ListIsList DEF P!Next
    <2>3. CASE op # "list"
      BY <2>1, <2>3, NothingEffect, AnswerIsStep DEF Ahead, Within
    <2> QED
      BY <2>2, <2>3
  <1>9. CASE UNCHANGED vars
    BY <1>9 DEF vars, aliyun, request, P!vars, Carries, Goal
  <1> QED
    BY <1>1, <1>2, <1>3, <1>4, <1>5, <1>6, <1>7, <1>8, <1>9 DEF Next

-----------------------------------------------------------------------------
(* The theorems.                                                           *)

(* IInv holds in every reachable state.                                    *)
THEOREM InductiveInvariant == Spec => []IInv
  <1>1. ASSUME IInv, [Next]_vars PROVE IInv'
    BY <1>1, TypeStep, ControlStep, SwapStep, ListingStep DEF IInv
  <1> QED
    BY <1>1, InitInv, PTL DEF Spec

(* Every variable keeps its type (slb.go).                                 *)
THEOREM TypeCorrect == Spec => []TypeOK
  <1>1. IInv => TypeOK
    BY DEF IInv
  <1> QED
    BY <1>1, InductiveInvariant, PTL

(* No balancer loses its last instance while it is to keep one             *)
(* (slb.go:340-362).                                                       *)
THEOREM NeverLeftEmpty == Spec => NeverEmptied
  <1>1. ASSUME IInv, [Next]_vars, NEW l \in LBs,
               servers[l] # {}, servers'[l] = {}
        PROVE  edits' # edits \/ disturbed \/ op = "remove" \/ ecsInstanceIds = {}
    <2> USE <1>1 DEF IInv
    <2>1. CASE Register
      BY <2>1 DEF Register, ChangeServers, TypeOK
    <2>2. CASE Deregister
      <3>1. ~disturbed => servers[lbId] = registeredInstanceIds \cup ecsInstanceIds
        BY <2>2 DEF Deregister, Swap
      <3>2. servers' = servers \/
            servers' = [servers EXCEPT ![lbId] =
                           servers[lbId] \ (registeredInstanceIds \ ecsInstanceIds)]
        BY <2>2 DEF Deregister, ChangeServers
      <3> QED
        BY <3>1, <3>2 DEF TypeOK
    <2>3. CASE Drift
      BY <2>3 DEF Drift, TypeOK
    <2>4. CASE UNCHANGED servers
      BY <2>4
    <2> QED
      BY <2>1, <2>2, <2>3, <2>4
         DEF Next, vars, aliyun, Begin, Describe, checkListenersInstancePort, Lookup,
             Health, AddTags, RemoveTags, WriteTags, BeginList,
             DescribeLoadBalancers, DescribeTags, DescribeHealthStatus,
             DescribeInstances, EndList, Crash
  <1>2. ASSUME IInv, [Next]_vars
        PROVE  [\A l \in LBs : servers[l] # {} /\ servers'[l] = {}
                  => \/ edits' # edits
                     \/ disturbed
                     \/ op = "remove"
                     \/ ecsInstanceIds = {}]_vars
    BY <1>1, <1>2
  <1> QED
    BY <1>2, InductiveInvariant, PTL DEF Spec, NeverEmptied

(* Where no address is shared, a call that returns without an error has    *)
(* left the whole configuration, if its addresses fit on a page and have   *)
(* instances, unless an operator edited the balancer (slb.go:102-150,      *)
(* 374-404).                                                               *)
THEOREM WholeConfiguration ==
    ASSUME AddressesUnique
    PROVE  Spec => ServedWhole
  <1>1. ASSUME IInv, [Next]_vars, Returns({"put"}, "ok"), ~disturbed,
               FitsOnPage(config)
        PROVE  tags'[lbId].flag /\ Serves(tags'[lbId], servers'[lbId]) = Carry(config)
    <2> USE <1>1 DEF IInv
    <2>1. pc # "idle" /\ pc' = "idle" /\ outcome' = "ok" /\ op = "put"
      BY DEF Returns
    <2>2. ~RequestFails /\ ~ReturnError /\ \A next \in Ahead : ~Proceed(next)
      BY <2>1 DEF RequestFails, ReturnError, Finish, Proceed, Ahead
    <2>3. pc = "tag" /\ lbId \in LBs /\ config \in Configs /\ UNCHANGED servers
          /\ tags' = [tags EXCEPT ![lbId] = getLBTags(config)]
      <3>1. CASE AddTags
        BY <2>2, <3>1 DEF AddTags, WriteTags, Control
      <3>2. CASE Describe \/ checkListenersInstancePort \/ Lookup \/ Health
        BY <2>2, <3>2 DEF Describe, checkListenersInstancePort, Lookup, Health,
                          Answer, Ahead
      <3>3. CASE Register \/ Deregister
        BY <2>1, <2>2, <3>3 DEF Register, Deregister, ChangeServers, Answer, Ahead
      <3>4. CASE Crash
        BY <2>2, <3>4 DEF Crash, ListFails
      <3>5. CASE Begin \/ RemoveTags \/ BeginList \/ DescribeLoadBalancers
                 \/ DescribeTags \/ DescribeHealthStatus \/ DescribeInstances
                 \/ EndList
        BY <2>1, <3>5 DEF Begin, RemoveTags, BeginList, DescribeLoadBalancers,
                          DescribeTags, DescribeHealthStatus, DescribeInstances,
                          EndList, Control
      <3>6. CASE Drift \/ UNCHANGED vars
        BY <2>1, <3>6 DEF Drift, vars
      <3> QED
        BY <3>1, <3>2, <3>3, <3>4, <3>5, <3>6 DEF Next
    <2>4. servers'[lbId] = getECSInstances(config)
      BY <2>1, <2>3 DEF Swap, Wanted
    <2>5. tags'[lbId] = getLBTags(config)
      BY <2>3 DEF TypeOK
    <2> QED
      BY <2>3, <2>4, <2>5, FittingIsWhole DEF getLBTags
  <1>2. ASSUME IInv, [Next]_vars
        PROVE  [Returns({"put"}, "ok") /\ ~disturbed /\ FitsOnPage(config)
                  => /\ tags'[lbId].flag
                     /\ Serves(tags'[lbId], servers'[lbId]) = Carry(config)]_vars
    BY <1>1, <1>2
  <1> QED
    BY <1>2, InductiveInvariant, PTL DEF Spec, ServedWhole

(* A listing that is returned reports the flagged balancers of the network *)
(* that it asks for, under their names and as they are, and nothing else   *)
(* (slb.go:204-307), although the calls flag balancers of any network.     *)
THEOREM ListingIsOfNetwork == Spec => ListsNetwork
  <1>1. ASSUME IInv, [Next]_vars, Returns({"list"}, "ok"), NEW e \in Endpoints
        PROVE  /\ lbConfigs'[e] # NoConfig <=> Listed(e) # {}
               /\ Listed(e) # {} /\ ~disturbed =>
                     \E l \in Listed(e) : lbConfigs'[e] = Reported(l)
    <2> USE <1>1 DEF IInv
    <2>1. pc # "idle" /\ pc' = "idle" /\ outcome' = "ok" /\ op = "list"
      BY DEF Returns
    <2>2. ~RequestFails /\ ~ReturnError /\ \A next \in Ahead : ~Proceed(next)
      BY <2>1 DEF RequestFails, ReturnError, Finish, Proceed, Ahead
    <2>3. pc \in {"balancers", "read", "status", "instances"}
      BY <2>1 DEF Control
    <2>4. CASE EndList
      <3>1. pc = "read" /\ todo = {} /\ lbConfigs' = lbConfigs
        BY <2>4 DEF EndList, listing
      <3>2. Listed(e) \ todo = Listed(e)
        BY <3>1
      <3> QED
        BY <3>1, <3>2 DEF Listing
    <2>5. CASE DescribeLoadBalancers
      <3>1. NetworkLBs = {} /\ lbConfigs' = lbConfigs /\ pc = "balancers"
        BY <2>2, <2>5 DEF DescribeLoadBalancers, ListFails, Ahead
      <3>2. Listed(e) = {} /\ lbConfigs[e] = NoConfig
        BY <3>1 DEF Listed, Listing
      <3> QED
        BY <3>1, <3>2
    <2>6. ~DescribeTags /\ ~DescribeHealthStatus /\ ~DescribeInstances /\ ~Crash
      BY <2>2 DEF DescribeTags, DescribeHealthStatus, DescribeInstances, Crash,
                  ListFails, Ahead
    <2>7. ~Begin /\ ~BeginList /\ ~Drift /\ ~UNCHANGED vars
      BY <2>1 DEF Begin, BeginList, Drift, vars
    <2>8. /\ ~Describe /\ ~checkListenersInstancePort /\ ~Lookup /\ ~Health
          /\ ~Register /\ ~Deregister /\ ~AddTags /\ ~RemoveTags
      BY <2>3 DEF Describe, checkListenersInstancePort, Lookup, Health, Register,
                  Deregister, AddTags, RemoveTags
    <2> QED
      BY <2>4, <2>5, <2>6, <2>7, <2>8 DEF Next
  <1>2. ASSUME IInv, [Next]_vars
        PROVE  [Returns({"list"}, "ok") => \A e \in Endpoints :
                   /\ lbConfigs'[e] # NoConfig <=> Listed(e) # {}
                   /\ Listed(e) # {} /\ ~disturbed =>
                         \E l \in Listed(e) : lbConfigs'[e] = Reported(l)]_vars
    BY <1>1, <1>2
  <1> QED
    BY <1>2, InductiveInvariant, PTL DEF Spec, ListsNetwork

(* The calls keep what the reconciliation loop relies on, for balancers of *)
(* every network and instances with any addresses: every step of the       *)
(* provider is one of LBProvider or leaves its state alone (slb.go:        *)
(* 102-202).                                                               *)
THEOREM Refinement == Spec => ImplementsProvider
  <1>1. Init => P!Init
    <2>1. Init => \A l \in LBs : Carries(l) = NoConfig
      BY DEF Init, Carries, NoTags
    <2> QED
      BY <2>1 DEF Init, P!Init, P!Reports
  <1>2. ASSUME IInv, IInv', [Next]_vars
        PROVE  [P!Next]_(P!vars)
    BY <1>2, SimulationStep
  <1> QED
    BY <1>1, <1>2, InductiveInvariant, PTL DEF Spec, ImplementsProvider, P!Spec

=============================================================================
