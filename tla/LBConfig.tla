------------------------------ MODULE LBConfig ------------------------------
(***************************************************************************)
(* The data the service works on: model.LBConfig as rancher-metadata asks  *)
(* for it, the configuration a load balancer carries as a provider reports *)
(* it, and the comparison that decides which load balancers to change.     *)
(*                                                                         *)
(* Names are opaque: a pool name "service_stack_environment_suffix" is a   *)
(* member of Pools, those that end in "_<own environment>_<suffix>" are    *)
(* OurPools, and Canon maps a pool name to its case-folded form.  A target *)
(* stands for one HostIP:Port pair.                                        *)
(***************************************************************************)
EXTENDS Naturals, Sequences, FiniteSets, Functions

CONSTANTS
    Pools,      \* every pool name in sight
    OurPools,   \* those with the suffix of this environment
    Canon,      \* Canon[p] is p in lower case
    Ports,      \* service ports
    Targets,    \* HostIP:Port pairs
    Configs,    \* the configurations metadata may ask for
    NoConfig    \* no entry in a map of configurations

(* What metadata asks for.  The target list keeps its order and repeats.   *)
LBConfigs == [LBTargetPoolName : OurPools,
              LBTargetPort     : Ports,
              LBTargets        : Seq(Targets)]

(* What a load balancer carries.  A provider reports each target once.     *)
Carried == [LBTargetPoolName : Pools, LBTargets : SUBSET Targets]

ASSUME PoolsAssumption == OurPools \subseteq Pools /\ Canon \in [Pools -> Pools]

ASSUME TargetsAssumption == IsFiniteSet(Targets)

ASSUME ConfigsAssumption ==
    /\ Configs \subseteq LBConfigs
    /\ NoConfig \notin Configs
    /\ NoConfig \notin Carried

-----------------------------------------------------------------------------

(* strings.EqualFold on pool names.                                        *)
EqualFold(p, q) == Canon[p] = Canon[q]

(* Planted bug: only the lengths of the lists are compared.                *)
TargetsDiffer_LengthOnly(wanted, carried) ==
    Len(wanted.LBTargets) # Cardinality(carried.LBTargets)

(* The two target lists differ: by length, or because one of the wanted    *)
(* targets is not on the load balancer.  The converse inclusion is never   *)
(* tested.                                                                 *)
TargetsDiffer(wanted, carried) ==
    \/ Len(wanted.LBTargets) # Cardinality(carried.LBTargets)
    \/ \E i \in DOMAIN wanted.LBTargets :
          wanted.LBTargets[i] \notin carried.LBTargets

(* Planted bug: every load balancer is rewritten in every pass.            *)
NeedsUpdate_Always(wanted, carried) == TRUE

(* The variable `update` of updateExistingConfigs.                         *)
NeedsUpdate(wanted, carried) ==
    \/ ~EqualFold(wanted.LBTargetPoolName, carried.LBTargetPoolName)
    \/ TargetsDiffer(wanted, carried)

(* Planted bug: the suffix is not looked at.                               *)
Ours_AnySuffix(x) == x # NoConfig

(* getProviderLBConfigs keeps the configurations whose pool name has the   *)
(* suffix of this environment.                                             *)
Ours(x) == x # NoConfig /\ x.LBTargetPoolName \in OurPools

-----------------------------------------------------------------------------

(* The configuration a load balancer carries once c has been applied.      *)
Carry(c) == [LBTargetPoolName |-> c.LBTargetPoolName,
             LBTargets        |-> Range(c.LBTargets)]

PoolsOf(x) == IF x = NoConfig THEN {} ELSE {x.LBTargetPoolName}

(* What a provider call that moves a load balancer from old to new may     *)
(* leave behind when one of its requests fails: nothing that bears a pool  *)
(* name, or either pool name with any targets.                             *)
Halfway(old, new) ==
    {NoConfig} \cup [LBTargetPoolName : PoolsOf(old) \cup PoolsOf(new),
                     LBTargets : SUBSET Targets]

(* The reference the comparison is judged by: what it detects.  It sees    *)
(* that the targets match only while the wanted list has no repeats.       *)
Matches(c, x) ==
    /\ x # NoConfig
    /\ EqualFold(c.LBTargetPoolName, x.LBTargetPoolName)
    /\ Range(c.LBTargets) \subseteq x.LBTargets
    /\ IsInjective(c.LBTargets) => Range(c.LBTargets) = x.LBTargets

=============================================================================
