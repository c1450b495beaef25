----------------------------- MODULE ExternalLB -----------------------------
(***************************************************************************)
(* The reconciliation loop of the service: main() in main.go polls the     *)
(* metadata version, fetches the wanted configurations, and lets           *)
(* UpdateProviderLBConfigs (external-lb.go) bring the provider's load      *)
(* balancers in line; then it pushes the FQDNs it learned to Cattle.       *)
(*                                                                         *)
(* One action per step the rest of the world can observe: every request to *)
(* metadata, to the provider or to Cattle is an action of its own, so that *)
(* metadata, operators, failures and crashes interleave with a pass.  A    *)
(* provider call is one action here; how its requests interleave is the    *)
(* matter of the provider's module.                                        *)
(***************************************************************************)
EXTENDS LBConfig

CONSTANTS
    Endpoints,      \* values of the service label that names an endpoint
    LBs,            \* endpoints for which the provider has a load balancer
    FqdnLBs,        \* those whose provider calls return an FQDN
    InitialCarried, \* what operators and earlier runs leave on a balancer
    Services,       \* services, as Cattle knows them
    ServiceOf,      \* ServiceOf[p] is the service a pool name was made from
    NoFqdn,
    Versions,       \* metadata versions; a name is reused once forgotten
    InitVersion,    \* the string "init", which is no metadata version
    ForceTicks,     \* forceUpdateInterval, in units of Elapse
    MaxChanges,     \* bound on changes of metadata content and of balancers
    MaxFailures     \* bound on failed requests and crashes

VARIABLES
    mdConfigs,      \* metadata: the configuration its services ask for
    mdVersion,      \* metadata: its version
    lb,             \* provider: what each load balancer carries
    cattleFqdn,     \* Cattle: the endpoint whose FQDN a service last got
    version, age, pc, forced,
    metadataLBConfigs, metadataLBConfigsCached,
    toRemove, toAdd, toUpdate, updatedFqdn,
    readFailed,     \* history: the last GetServices failed
    listed,         \* history: GetLBConfigs succeeded in this pass
    failed,         \* history: endpoints with a failed call in this pass
    touched,        \* history: balancers operators changed in this pass
    changes, failures

metadata == <<mdConfigs, mdVersion>>
work     == <<toRemove, toAdd, toUpdate, updatedFqdn>>
history  == <<readFailed, listed, failed, touched>>
program  == <<version, forced, metadataLBConfigs, metadataLBConfigsCached>>
vars     == <<metadata, lb, cattleFqdn, program, age, pc, work, history,
              changes, failures>>

ASSUME EndpointsAssumption ==
    /\ LBs \subseteq Endpoints
    /\ FqdnLBs \subseteq LBs
    /\ InitialCarried \subseteq Carried \cup {NoConfig}
    /\ ServiceOf \in [OurPools -> Services]

ASSUME NoFqdnAssumption == NoFqdn \notin FqdnLBs

ASSUME VersionsAssumption == InitVersion \notin Versions

ASSUME BoundsAssumption ==
    /\ ForceTicks \in Nat \ {0}
    /\ MaxChanges \in Nat
    /\ MaxFailures \in Nat

-----------------------------------------------------------------------------

ConfigMaps == [Endpoints -> Configs \cup {NoConfig}]

(* The empty map.                                                          *)
Nothing == [e \in Endpoints |-> NoConfig]

(* Every service has one label, so no service asks for two endpoints.      *)
OneEndpointPerService(m) ==
    \A d, e \in Endpoints :
        /\ m[d] # NoConfig
        /\ m[e] # NoConfig
        /\ ServiceOf[m[d].LBTargetPoolName] = ServiceOf[m[e].LBTargetPoolName]
        => d = e

TypeOK ==
    /\ mdConfigs \in ConfigMaps
    /\ mdVersion \in Versions
    /\ lb \in [LBs -> Carried \cup {NoConfig}]
    /\ cattleFqdn \in [Services -> FqdnLBs \cup {NoFqdn}]
    /\ version \in Versions \cup {InitVersion}
    /\ age \in 0..ForceTicks
    /\ pc \in {"idle", "fetch", "list", "apply"}
    /\ forced \in BOOLEAN
    /\ metadataLBConfigs \in ConfigMaps
    /\ metadataLBConfigsCached \in ConfigMaps
    /\ toRemove \subseteq LBs
    /\ toAdd \subseteq Endpoints
    /\ toUpdate \subseteq LBs
    /\ updatedFqdn \subseteq FqdnLBs
    /\ readFailed \in BOOLEAN
    /\ listed \in BOOLEAN
    /\ failed \subseteq Endpoints
    /\ touched \subseteq LBs
    /\ changes \in 0..MaxChanges
    /\ failures \in 0..MaxFailures

Init ==
    /\ mdConfigs = Nothing
    /\ mdVersion \in Versions
    /\ lb \in [LBs -> InitialCarried]
    /\ cattleFqdn = [s \in Services |-> NoFqdn]
    /\ version = InitVersion
    /\ age = 0
    /\ pc = "idle"
    /\ forced = FALSE
    /\ metadataLBConfigs = Nothing
    /\ metadataLBConfigsCached = Nothing
    /\ toRemove = {} /\ toAdd = {} /\ toUpdate = {} /\ updatedFqdn = {}
    /\ readFailed = FALSE /\ listed = FALSE
    /\ failed = {} /\ touched = {}
    /\ changes = 0 /\ failures = 0

Change == changes < MaxChanges /\ changes' = changes + 1

(* A request that succeeds costs nothing, one that fails is counted.       *)
Succeeds == failures' = failures
Fails == failures < MaxFailures /\ failures' = failures + 1

-----------------------------------------------------------------------------
(* The world around the program.                                           *)

(* Metadata gets a version that nobody remembers.                          *)
NewVersion ==
    \E v \in Versions \ {mdVersion, version} : mdVersion' = v

(* A service appears, disappears, scales, or moves to another endpoint.    *)
ServicesChange ==
    /\ Change
    /\ \E e \in Endpoints, c \in Configs \cup {NoConfig} :
          /\ c # mdConfigs[e]
          /\ mdConfigs' = [mdConfigs EXCEPT ![e] = c]
          /\ OneEndpointPerService(mdConfigs')
    /\ NewVersion
    /\ UNCHANGED <<lb, cattleFqdn, program, age, pc, work, history, failures>>

(* A flapping service changes the version and no configuration.            *)
Flap ==
    /\ NewVersion
    /\ UNCHANGED <<mdConfigs, lb, cattleFqdn, program, age, pc, work, history,
                   changes, failures>>

(* An operator edits a load balancer at the provider.                      *)
Drift ==
    /\ Change
    /\ \E e \in LBs, x \in InitialCarried :
          /\ x # lb[e]
          /\ lb' = [lb EXCEPT ![e] = x]
          /\ touched' = touched \cup {e}
    /\ UNCHANGED <<metadata, cattleFqdn, program, age, pc, work, readFailed,
                   listed, failed, failures>>

(* Time passes between two ticks.  The age of the last update is only read *)
(* when a tick is handled, and stops counting at ForceTicks.               *)
Elapse ==
    /\ pc = "idle"
    /\ age < ForceTicks
    /\ age' = age + 1
    /\ UNCHANGED <<metadata, lb, cattleFqdn, program, pc, work, history,
                   changes, failures>>

(* The process dies and is restarted: its variables start over.            *)
Crash ==
    /\ Fails
    /\ version' = InitVersion
    /\ age' = 0
    /\ pc' = "idle"
    /\ forced' = FALSE
    /\ metadataLBConfigs' = Nothing
    /\ metadataLBConfigsCached' = Nothing
    /\ toRemove' = {} /\ toAdd' = {} /\ toUpdate' = {} /\ updatedFqdn' = {}
    /\ readFailed' = FALSE /\ listed' = FALSE
    /\ failed' = {} /\ touched' = {}
    /\ UNCHANGED <<metadata, lb, cattleFqdn, changes>>

-----------------------------------------------------------------------------
(* The program: one round of main()'s ticker.                              *)

(* GetVersion fails: the tick is lost.                                     *)
PollFails ==
    /\ pc = "idle"
    /\ Fails
    /\ UNCHANGED <<metadata, lb, cattleFqdn, program, age, pc, work, history,
                   changes>>

(* Planted bug: the forced update is never due.                            *)
ForceDue_Never == FALSE

(* The last update of the provider is forceUpdateInterval old.             *)
ForceDue == age >= ForceTicks

(* A tick finds a new version, which it notes before it has fetched what   *)
(* the version stands for, or finds a forced update due.                   *)
Poll ==
    /\ pc = "idle"
    /\ \/ version # mdVersion /\ forced' = FALSE
       \/ version = mdVersion /\ ForceDue /\ forced' = TRUE
    /\ version' = mdVersion
    /\ pc' = "fetch"
    /\ Succeeds
    /\ UNCHANGED <<metadata, lb, cattleFqdn, metadataLBConfigs,
                   metadataLBConfigsCached, age, work, history, changes>>

(* GetMetadataLBConfigs.  It swallows the error of GetServices and returns *)
(* the empty map, so the error branch of its caller never runs.            *)
Fetch ==
    /\ pc = "fetch"
    /\ \/ Succeeds /\ metadataLBConfigs' = mdConfigs /\ readFailed' = FALSE
       \/ Fails    /\ metadataLBConfigs' = Nothing   /\ readFailed' = TRUE
    /\ pc' = IF metadataLBConfigs' # metadataLBConfigsCached \/ forced
             THEN "list" ELSE "idle"
    /\ UNCHANGED <<metadata, lb, cattleFqdn, version, forced,
                   metadataLBConfigsCached, age, work, listed, failed,
                   touched, changes>>

(* The provider's configurations that belong to this environment.          *)
ProviderConfigs == {e \in LBs : Ours(lb[e])}

(* GetLBConfigs, and with it the three lists of the pass: they are         *)
(* computed from this one snapshot, however late a change is applied.      *)
ListProvider ==
    /\ pc = "list"
    /\ Succeeds
    /\ LET wanted == {e \in Endpoints : metadataLBConfigs[e] # NoConfig}
       IN /\ toRemove' = ProviderConfigs \ wanted
          /\ toAdd'    = wanted \ ProviderConfigs
          /\ toUpdate' = {e \in wanted \cap ProviderConfigs :
                             NeedsUpdate(metadataLBConfigs[e], lb[e])}
    /\ pc' = "apply"
    /\ listed' = TRUE
    /\ touched' = {}
    /\ UNCHANGED <<metadata, lb, cattleFqdn, program, age, updatedFqdn,
                   readFailed, failed, changes>>

(* GetLBConfigs fails: nothing is changed, and main() only logs it.        *)
ListFails ==
    /\ pc = "list"
    /\ Fails
    /\ pc' = "apply"
    /\ UNCHANGED <<metadata, lb, cattleFqdn, program, age, work, history,
                   changes>>

(* One call of the provider that is to leave e with the configuration new. *)
(* It fails at some request of its own, or because e does not exist.       *)
ProviderCall(e, new) ==
    \/ /\ e \in LBs
       /\ Succeeds
       /\ lb' = [lb EXCEPT ![e] = new]
       /\ UNCHANGED failed
    \/ /\ e \in LBs
       /\ Fails
       /\ \E x \in Halfway(lb[e], new) : lb' = [lb EXCEPT ![e] = x]
       /\ failed' = failed \cup {e}
    \/ /\ e \notin LBs
       /\ Succeeds
       /\ UNCHANGED lb
       /\ failed' = failed \cup {e}

(* Planted bug: an empty FQDN is passed on like any other.                 *)
Fqdn_Empty(e) == {e}

(* The FQDN a successful call on e returns, if any.                        *)
Fqdn(e) == {e} \cap FqdnLBs

(* A successful call contributes the FQDN to updatedFqdn.                  *)
LearnFqdn(e) ==
    updatedFqdn' = updatedFqdn \cup (IF e \in failed' THEN {} ELSE Fqdn(e))

RemoveConfig(e) ==
    /\ pc = "apply"
    /\ e \in toRemove
    /\ toRemove' = toRemove \ {e}
    /\ ProviderCall(e, NoConfig)
    /\ UNCHANGED <<metadata, cattleFqdn, program, age, pc, toAdd, toUpdate,
                   updatedFqdn, readFailed, listed, touched, changes>>

AddConfig(e) ==
    /\ pc = "apply"
    /\ toRemove = {}
    /\ e \in toAdd
    /\ toAdd' = toAdd \ {e}
    /\ ProviderCall(e, Carry(metadataLBConfigs[e]))
    /\ LearnFqdn(e)
    /\ UNCHANGED <<metadata, cattleFqdn, program, age, pc, toRemove, toUpdate,
                   readFailed, listed, touched, changes>>

(* Planted bug: the FQDNs of updated balancers are not merged.             *)
UpdateConfig_FqdnLost(e) ==
    /\ pc = "apply"
    /\ toRemove = {} /\ toAdd = {}
    /\ e \in toUpdate
    /\ toUpdate' = toUpdate \ {e}
    /\ ProviderCall(e, Carry(metadataLBConfigs[e]))
    /\ UNCHANGED <<metadata, cattleFqdn, program, age, pc, toRemove, toAdd,
                   updatedFqdn, readFailed, listed, touched, changes>>

UpdateConfig(e) ==
    /\ pc = "apply"
    /\ toRemove = {} /\ toAdd = {}
    /\ e \in toUpdate
    /\ toUpdate' = toUpdate \ {e}
    /\ ProviderCall(e, Carry(metadataLBConfigs[e]))
    /\ LearnFqdn(e)
    /\ UNCHANGED <<metadata, cattleFqdn, program, age, pc, toRemove, toAdd,
                   readFailed, listed, touched, changes>>

Applied == toRemove = {} /\ toAdd = {} /\ toUpdate = {}

(* UpdateServiceFqdn: the event that fails is logged and dropped.          *)
Notify(e) ==
    /\ pc = "apply" /\ Applied
    /\ e \in updatedFqdn
    /\ updatedFqdn' = updatedFqdn \ {e}
    /\ \/ /\ Succeeds
          /\ LET s == ServiceOf[metadataLBConfigs[e].LBTargetPoolName]
             IN cattleFqdn' = [cattleFqdn EXCEPT ![s] = e]
       \/ Fails /\ UNCHANGED cattleFqdn
    /\ UNCHANGED <<metadata, lb, program, age, pc, toRemove, toAdd, toUpdate,
                   history, changes>>

(* Planted bug: the configurations that were pushed are not remembered.    *)
Record_NotCached ==
    /\ pc = "apply" /\ Applied /\ updatedFqdn = {}
    /\ age' = 0
    /\ pc' = "idle"
    /\ forced' = FALSE
    /\ listed' = FALSE /\ failed' = {} /\ touched' = {}
    /\ UNCHANGED <<metadata, lb, cattleFqdn, version, metadataLBConfigs,
                   metadataLBConfigsCached, work, readFailed, changes, failures>>

(* The pass is recorded as done, whichever of its calls have failed.  The  *)
(* local metadataLBConfigs keeps its value until the next Fetch.           *)
Record ==
    /\ pc = "apply" /\ Applied /\ updatedFqdn = {}
    /\ metadataLBConfigsCached' = metadataLBConfigs
    /\ age' = 0
    /\ pc' = "idle"
    /\ forced' = FALSE
    /\ listed' = FALSE /\ failed' = {} /\ touched' = {}
    /\ UNCHANGED <<metadata, lb, cattleFqdn, version, metadataLBConfigs, work,
                   readFailed, changes, failures>>

-----------------------------------------------------------------------------

World == ServicesChange \/ Flap \/ Drift \/ Elapse \/ Crash

Program ==
    \/ Poll \/ Fetch \/ ListProvider \/ ListFails
    \/ \E e \in Endpoints :
          RemoveConfig(e) \/ AddConfig(e) \/ UpdateConfig(e) \/ Notify(e)
    \/ Record

Next == World \/ PollFails \/ Program

Spec == Init /\ [][Next]_vars

(* Ticks keep coming, time passes and every request is answered, be it by  *)
(* an error.  Nothing is assumed of metadata, operators or failures.       *)
FairSpec == Spec /\ WF_vars(Program) /\ WF_vars(Elapse)

-----------------------------------------------------------------------------
(* Safety.                                                                 *)

(* No change of metadata is lost (main.go:102-104, 128, 145): the version  *)
(* is noted before the services are read and the cache is replaced after   *)
(* the provider was updated, but whenever the loop is idle at the current  *)
(* version, what it last pushed is what metadata asks for now.             *)
NoLostChange ==
    pc = "idle" /\ version = mdVersion /\ ~readFailed
        => metadataLBConfigsCached = mdConfigs

(* Load balancers this pass still has to change.                           *)
Pending == toRemove \cup toAdd \cup toUpdate

Agrees(configs, e) ==
    IF configs[e] = NoConfig THEN ~Ours(lb[e]) ELSE Matches(configs[e], lb[e])

(* A pass converges (external-lb.go:18-34): once its calls are made, every *)
(* balancer whose call did not fail and that nobody else edited since the  *)
(* snapshot carries what the pass was to bring about.  The three lists are *)
(* a case distinction nobody has to call: a balancer on none of them has   *)
(* to be right as it is.                                                   *)
PassConverges ==
    pc = "apply" /\ listed =>
        \A e \in LBs \ (Pending \cup failed \cup touched) :
            Agrees(metadataLBConfigs, e)

(* The pool a balancer carries belongs to this environment.                *)
InEnvironment(e) == lb[e] # NoConfig /\ lb[e].LBTargetPoolName \in OurPools

(* The program leaves balancers alone that carry another environment's     *)
(* configuration or none, unless metadata asks for them by name            *)
(* (external-lb.go:43-48); those an operator edits during a pass excepted. *)
ForeignUntouched ==
    [][\A e \in LBs : lb'[e] # lb[e] /\ e \notin touched'
          => InEnvironment(e) \/ metadataLBConfigs[e] # NoConfig]_vars

(* A balancer that carries what metadata asks for now is not called on     *)
(* (external-lb.go:97-123), so a failing call cannot take it down.         *)
InSyncUndisturbed ==
    [][\A e \in LBs :
          /\ version = mdVersion
          /\ ~readFailed
          /\ e \notin touched'
          /\ mdConfigs[e] # NoConfig
          /\ IsInjective(mdConfigs[e].LBTargets)
          /\ Ours(lb[e])
          /\ Agrees(mdConfigs, e)
          => lb'[e] = lb[e]]_vars

(* Liveness.                                                               *)

InSync == \A e \in LBs : Agrees(mdConfigs, e)

Quiescent == <>[][mdVersion' = mdVersion]_vars

(* Once metadata stops changing the balancers come in line and stay there, *)
(* whatever edits, failures and crashes came before (main.go:106-111).     *)
EventuallyInSync == Quiescent => <>[]InSync

(* As long as nothing fails, Cattle ends up with the FQDN of the balancer  *)
(* of every service that has one (main.go:135-143).  The event is sent     *)
(* only after a call that changed the balancer, so this needs every such   *)
(* call to be noticed.                                                     *)
FqdnEventually ==
    Quiescent /\ [](failures = 0) =>
        \A e \in FqdnLBs :
            <>[](mdConfigs[e] # NoConfig
                    => cattleFqdn[ServiceOf[mdConfigs[e].LBTargetPoolName]] = e)

-----------------------------------------------------------------------------
(* The inductive invariant behind the safety properties.                   *)

(* Between passes there is nothing to apply.                               *)
WorkInPass == pc # "apply" => Pending = {} /\ ~listed

(* The services of the noted version, as long as it is the current one.    *)
Fresh ==
    pc \in {"list", "apply"} /\ version = mdVersion /\ ~readFailed
        => metadataLBConfigs = mdConfigs

(* What puts a balancer on a list does not change before its turn comes,   *)
(* except by an operator's hand.                                           *)
PendingByReason ==
    /\ \A e \in toRemove :
          /\ metadataLBConfigs[e] = NoConfig
          /\ e \notin touched => Ours(lb[e])
    /\ \A e \in toAdd :
          /\ metadataLBConfigs[e] # NoConfig
          /\ e \in LBs \ touched => ~Ours(lb[e])
    /\ \A e \in toUpdate :
          /\ metadataLBConfigs[e] # NoConfig
          /\ e \notin touched => Ours(lb[e])
          /\ e \notin touched => NeedsUpdate(metadataLBConfigs[e], lb[e])
    /\ toAdd \cap toUpdate = {}

IInv ==
    /\ TypeOK
    /\ WorkInPass
    /\ Fresh
    /\ PendingByReason
    /\ NoLostChange
    /\ PassConverges

-----------------------------------------------------------------------------
(* What comments and documentation say and the code does not do.           *)

(* main.go:117-120: a pass whose services could not be read is given up.   *)
FailedReadChangesNothing ==
    [][readFailed => \A e \in LBs : lb'[e] = lb[e] \/ e \in touched']_vars

=============================================================================
