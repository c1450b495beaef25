------------------------------ MODULE Metadata ------------------------------
(***************************************************************************)
(* GetMetadataLBConfigs (metadata/metadata.go): from the services of the   *)
(* environment, in the order rancher-metadata lists them, to a map from    *)
(* endpoints to configurations.                                            *)
(*                                                                         *)
(* A port of a service, "80:8080/tcp", and of a container,                 *)
(* "10.1.1.1:80:8080/tcp", is a record of the parts that are looked at;    *)
(* valid says whether it splits into the expected number of them.          *)
(***************************************************************************)
EXTENDS LBConfig, SequencesExt

CONSTANTS
    Endpoints,      \* label values
    NoLabel,        \* the label is absent
    NoName,         \* the empty string for a name
    ServiceLists,   \* lists of services that metadata may answer with
    PoolName        \* PoolName[<<n, k>>]: pool name of service n in stack k

VARIABLES
    services,       \* what GetServices returns
    next,           \* the iteration over services
    lbConfigs,
    pc

vars == <<services, next, lbConfigs, pc>>

ContainerPorts == [valid : BOOLEAN, ip : {t[1] : t \in Targets}, port : Ports]

Containers == [ServiceName : STRING, StackName : STRING,
               State : STRING, HealthState : STRING, Ports : Seq(ContainerPorts)]

ServicePorts == [valid : BOOLEAN, port : Ports]

(* Names hold no underscore, so the parts of a pool name can be told apart,*)
(* and a service is known by its name and stack.  Any address may publish  *)
(* any port.                                                               *)
ASSUME MetadataAssumption ==
    /\ PoolName \in [DOMAIN PoolName -> OurPools]
    /\ IsInjective(PoolName)
    /\ \A l \in ServiceLists : \A i, j \in DOMAIN l :
          l[i].Name = l[j].Name /\ l[i].StackName = l[j].StackName => i = j
    /\ \A t \in Targets, port \in Ports : <<t[1], port>> \in Targets
    /\ NoConfig \notin LBConfigs

-----------------------------------------------------------------------------
(* Targets.                                                                *)

(* Planted bug: only the state is looked at.                               *)
containerStateOK_AnyHealth(c) == c.State = "running"

containerStateOK(c) ==
    /\ c.State = "running"
    /\ c.HealthState \in {"healthy", "updating-healthy", ""}

(* A container counts for a service if it is one of its own: the           *)
(* containers of a service include those of its sidekicks.                 *)
Counts(c, s) ==
    /\ c.ServiceName # NoName
    /\ containerStateOK(c)
    /\ s.Name # NoName => c.ServiceName = s.Name /\ c.StackName = s.StackName

(* The targets of one container on the port, in the order of its ports.    *)
ContainerTargets(c, port) ==
    FlattenSeq([i \in DOMAIN c.Ports |->
                  IF c.Ports[i].valid /\ c.Ports[i].port = port
                  THEN << <<c.Ports[i].ip, port>> >> ELSE << >>])

getContainerLBTargets(s, port) ==
    FlattenSeq([i \in DOMAIN s.Containers |->
                  IF Counts(s.Containers[i], s)
                  THEN ContainerTargets(s.Containers[i], port) ELSE << >>])

-----------------------------------------------------------------------------
(* Services.                                                               *)

(* The legacy label counts only where the other one is missing.            *)
EndpointOf(s) == IF s.Label # NoLabel THEN s.Label ELSE s.LegacyLabel

(* The service has a label and its first port is well-formed.              *)
Eligible(s) ==
    /\ EndpointOf(s) # NoLabel
    /\ s.Ports # << >>
    /\ s.Ports[1].valid

(* Planted bug: pool names do not tell stacks apart.                       *)
PoolNameOf_AnyStack(s) == PoolName[<<s.Name, "k1">>]

(* Planted bug: the name lacks the suffix of the environment.              *)
PoolNameOf_NoSuffix(s) == CHOOSE p \in Pools : p \notin OurPools

PoolNameOf(s) == PoolName[<<s.Name, s.StackName>>]

(* What rancher-metadata may answer with.                                  *)
ASSUME ServicesAssumption ==
    \A l \in ServiceLists :
        /\ l \in Seq(Range(l))
        /\ \A i \in DOMAIN l :
              /\ EndpointOf(l[i]) \in Endpoints \cup {NoLabel}
              /\ l[i].Ports \in Seq(ServicePorts)
              /\ l[i].Containers \in Seq(Containers)
              /\ Eligible(l[i]) => <<l[i].Name, l[i].StackName>> \in DOMAIN PoolName

LBConfigOf(s) ==
    [LBTargetPoolName |-> PoolNameOf(s),
     LBTargetPort     |-> s.Ports[1].port,
     LBTargets        |-> getContainerLBTargets(s, s.Ports[1].port)]

Init ==
    /\ services \in ServiceLists
    /\ next = 1
    /\ lbConfigs = [e \in Endpoints |-> NoConfig]
    /\ pc = "read"

(* GetServices, whose error leaves the map empty and is not passed on.     *)
GetServices ==
    /\ pc = "read"
    /\ pc' \in {"loop", "done"}
    /\ UNCHANGED <<services, next, lbConfigs>>

(* Planted bug: a later service takes an endpoint over.                    *)
ProcessService_TakesOver ==
    /\ pc = "loop"
    /\ next \in DOMAIN services
    /\ LET s == services[next]
           e == EndpointOf(s)
       IN  lbConfigs' = IF Eligible(s)
                        THEN [lbConfigs EXCEPT ![e] = LBConfigOf(s)]
                        ELSE lbConfigs
    /\ next' = next + 1
    /\ UNCHANGED <<services, pc>>

(* One iteration: an endpoint that is taken stays with its service.        *)
ProcessService ==
    /\ pc = "loop"
    /\ next \in DOMAIN services
    /\ LET s == services[next]
           e == EndpointOf(s)
       IN  lbConfigs' = IF Eligible(s) /\ lbConfigs[e] = NoConfig
                        THEN [lbConfigs EXCEPT ![e] = LBConfigOf(s)]
                        ELSE lbConfigs
    /\ next' = next + 1
    /\ UNCHANGED <<services, pc>>

Return ==
    /\ pc = "loop"
    /\ next \notin DOMAIN services
    /\ pc' = "done"
    /\ UNCHANGED <<services, next, lbConfigs>>

Next == GetServices \/ ProcessService \/ Return

Spec == Init /\ [][Next]_vars

-----------------------------------------------------------------------------
(* Properties.                                                             *)

TypeOK ==
    /\ next \in 1..(Len(services) + 1)
    /\ lbConfigs \in [Endpoints -> LBConfigs \cup {NoConfig}]
    /\ pc \in {"read", "loop", "done"}

(* The services seen so far that could have endpoint e.                    *)
Claims(e) ==
    {i \in 1..(next - 1) : Eligible(services[i]) /\ EndpointOf(services[i]) = e}

(* Every endpoint belongs to the first eligible service that names it, and *)
(* a service that is skipped takes no endpoint from a later one            *)
(* (metadata.go:79-123).                                                   *)
FirstClaimWins ==
    \A e \in Endpoints :
        IF Claims(e) = {} THEN lbConfigs[e] = NoConfig
        ELSE \E i \in Claims(e) :
                /\ \A j \in Claims(e) : i <= j
                /\ lbConfigs[e] = LBConfigOf(services[i])

(* The addresses a service can be reached at on the port: those its own    *)
(* running containers publish, those with a failing health check excepted. *)
Reachable(s, port) ==
    {<<p.ip, port>> : p \in
        UNION {{q \in Range(c.Ports) : q.valid /\ q.port = port} :
               c \in {d \in Range(s.Containers) :
                        /\ d.ServiceName # NoName
                        /\ s.Name = NoName \/ (d.ServiceName = s.Name /\ d.StackName = s.StackName)
                        /\ d.State = "running"
                        /\ d.HealthState \in {"", "healthy", "updating-healthy"}}}}

(* No target of the result is a container that is down, unhealthy or of    *)
(* another service, and no good one is missing (metadata.go:129-196).      *)
TargetsExact ==
    \A e \in Endpoints : lbConfigs[e] # NoConfig =>
        \E s \in Range(services) :
            /\ EndpointOf(s) = e
            /\ lbConfigs[e].LBTargetPoolName = PoolName[<<s.Name, s.StackName>>]
            /\ Range(lbConfigs[e].LBTargets) = Reachable(s, lbConfigs[e].LBTargetPort)

(* No two endpoints get the same pool name: the providers that keep one    *)
(* pool per name (F5, Avi) would serve both from one pool, and the loop    *)
(* takes the pool name for the service (metadata.go:115, main.go:138).     *)
PoolsDistinct ==
    \A d, e \in Endpoints :
        /\ lbConfigs[d] # NoConfig
        /\ lbConfigs[e] # NoConfig
        /\ lbConfigs[d].LBTargetPoolName = lbConfigs[e].LBTargetPoolName
        => d = e

=============================================================================
