# Verification of external-lb

external-lb keeps external load balancers in line with the services of a
Rancher environment. Once a second it asks rancher-metadata for its version;
when the version is new, or a minute has gone by without an update, it computes
from the services which load balancer (*endpoint*) should carry which *pool* with
which *targets*, compares that with what the provider of the load balancers
reports, and adds, updates and removes what differs. The FQDNs the provider
returns go to Cattle, Rancher's API server.

This directory holds TLA+ models of that program, TLC configurations that check
them on small instances, and proofs that TLAPS checks.

## 1. Inventory

| component | code | state | operations | talks to |
|---|---|---|---|---|
| reconciliation loop | `main.go:85-153`, `external-lb.go` | `version`, `lastUpdated`, `metadataLBConfigsCached`; in a pass the fetched map, three lists of changes and `updatedFqdn` | tick: poll, fetch, list, remove, add, update, notify, record | metadata, provider, Cattle: one request after the other |
| data model | `model/lb.go` | - | `LBConfig`, `LBTarget` | - |
| metadata client | `metadata/metadata.go` | the environment's UUID, read at start | `GetVersion`, `GetMetadataLBConfigs` | rancher-metadata over HTTP |
| Cattle client | `cattle.go` | URL and keys | `UpdateServiceFqdn`, `TestConnect` | Cattle's API: an event, fire and forget |
| provider interface | `providers/external_lb_provider.go` | the registry | `AddLBConfig`, `RemoveLBConfig`, `UpdateLBConfig`, `GetLBConfigs` | - |
| AWS Classic ELB | `providers/elbv1` | none; at AWS: registered instances, two tags | the four above, three to five requests each | ELB and EC2 APIs |
| F5 BIG-IP | `providers/f5` | none; on the device: nodes, pools, members, a pool per virtual server | the four above, one request per node and member | iControl REST |
| Avi | `providers/avi` | none but the session; on the controller: virtual services, pools | the four above, read-modify-write | Avi REST API |
| Aliyun SLB | `providers/aliyunslb` | none; at Aliyun: backend servers, tags | as ELB | SLB and ECS APIs |
| Avi session | `providers/avi/avisession.go` | session id and CSRF token, shared by the loop and the health check | a request, repeated on 419 and after a log-in on 401; the log-in | Avi REST API |
| health check | `healthcheck.go` | - | `GET /`: asks metadata and provider whether they answer | its server runs in a goroutine of its own, each request in another |
| start-up | `main.go:40-89`, `metadata.go:27-65`, `cattle.go:14-50` | the three clients | flags, environment, waiting for metadata, clients, provider; ends the process on failure | all; Rancher restarts it |

What makes each correct, and what makes that hard:

* **Loop.** Every change of metadata must reach the provider, although it may
  come between the poll of the version and the fetch of the services, or while
  the pass runs; a pass must bring about what it set out to do although
  balancers are edited meanwhile, calls fail half-way and the process may die at
  any point; it must leave balancers alone that belong to another environment or
  that are right already; and in the end, when metadata has settled, everything
  must be in line, which only the forced update can bring about after a failure.
* **Metadata client.** Who gets an endpoint that several services name must not
  depend on anything but the order of services; the targets must be those of the
  service's own running containers; a pool name must identify a service.
* **Providers.** One call consists of many requests. After success the balancer
  must carry the configuration; after any failure it must still be found by the
  next listing, or carry nothing; and it should serve all the while.
* **Avi session.** Shared by the loop and by health checks without a lock. A request
  that is repeated, after a log-in or not, must be executed once and not twice, and
  must not be repeated for ever while goroutines overwrite each other's session ids.
* **Start-up and health check.** The process must not give up on metadata before its
  time, must come to run in the end however often it is restarted, and an answer to
  a health check must be true although services come and go while it is worked out.

`PROJECT.json` lists the hazards at their lines, with the properties that watch
over them and with a reason where none does yet.

## 2. Modules

| module | models | its state and actions in the code |
|---|---|---|
| `LBConfig` | `model/lb.go`, the comparison in `external-lb.go:88-125`, the ownership test `:43-48` | no state: configurations, `NeedsUpdate`, `Ours`, `Carry`, `Halfway` |
| `ExternalLB` | the loop | one action per request: `Poll` = `main.go:98-112`, `Fetch` = `:114-128`, `ListProvider` = `external-lb.go:18-125` up to the three lists, `RemoveConfig`/`AddConfig`/`UpdateConfig` = one iteration of `updateProvider`, `Notify` = `main.go:135-143`, `Record` = `:145-146`. `version`, `metadataLBConfigs(Cached)`, `toRemove`, `toAdd`, `toUpdate`, `updatedFqdn` have the code's names; `age` is the time since `lastUpdated`; `pc` says where in the tick the loop is |
| | its world | `ServicesChange`, `Flap` (metadata), `Drift` (operators at the provider), `Elapse` (time), `Crash` |
| `Metadata` | `GetMetadataLBConfigs` | `ProcessService` is one iteration over the services, `getContainerLBTargets` its inner loops |
| `LBProvider` | the contract of a provider call, abstractly | `Begin`, `Work`, `Return`, `Fail`; `List`; `Drift` |
| `ElbClassic` | `providers/elbv1` | one action per AWS request: `Describe`, `Lookup`, `Health`, `Register`, `Deregister`, `Tag`, `UntagPool`, `UntagPort` for the three calls (additions and updates make the same requests and are both `"put"`); `DescribeLoadBalancers`, one `DescribeTags` for each group of names, `ReadRegistered` and `GetInstancesByID` for each tagged balancer are `GetLBConfigs`; `FirstPage` is what the first of them answers; `Drained`, `Drift` and `Crash` around them |
| `F5BigIP` | `providers/f5` | one action per iControl request, in the order of the code: `GetVirtualServer` ... `AssignPool` for `AddLBConfig`, `FindVirtualServer` ... `Removed` for `RemoveLBConfig`, both for `UpdateLBConfig`, `ListVirtualServers` and `ReadPool` for `GetLBConfigs`; `nodes`, `pools`, `vsPool` are the device |
| `Avi` | `providers/avi` | one action per REST request: `GetVS`, `EnsurePool`, `AttachPool`, `CheckExistingPool`, `ConvergePoolMembers`, `UpdateVsMetadata` for the three calls, which differ in `Converged` and `NeedsPut`; `GetAllVses` and `ReadPool` for `GetLBConfigs`; `vs` and `pools` are the controller, `vsCopy` and `poolCopy` what the call has read of it |
| `AviSession` | `avisession.go`, used by several goroutines | `SetHeader`, `AddTokenCookie`, `AddSessionCookie` read the shared fields one after the other (`:160-185`), `Do` is the controller, `StoreToken` and `StoreSession` write them (`:190-205`), `Decide` is `:209-236` with `InitiateSession`; `rest_request` calls itself last, so `uri` and `pc` are all of its stack |
| `AliyunSLB` | `providers/aliyunslb` | one action per request, as in `ElbClassic`; `DescribeLoadBalancers`, then `DescribeTags`, `DescribeHealthStatus` and `DescribeInstances` for each balancer are `GetLBConfigs`; `Endpoints` holds ids and names of balancers, `NetworkLBs` the balancers a listing asks for, `FirstPage` what one request for instances returns |
| `Startup` | `setEnv`, `healthcheck.go` | `Connect`, `getEnvironmentUUID`, `NewCattleClientFromEnvironment`, `GetProvider` are the steps of `setEnv`, `Fatal` the end of the process; `ListenAndServe`, `CheckMetadata`, `CheckProvider` the health check; `Tick` a second of a wait, `Restart` Rancher |
| `...Proofs` | - | theorems about `ExternalLB`, `Metadata`, `ElbClassic`, `F5BigIP`, `Avi`, `AviSession`, `AliyunSLB` and `Startup`, one module each |
| `MC...` | - | values for TLC |

How they fit together. `ExternalLB` and the providers' modules extend
`LBConfig`. `ExternalLB` takes a provider call for one step, which on success
leaves `Carry(c)` and on failure anything in `Halfway(old, new)`. That step is
justified by `LBProvider`, which says the same of a call that takes a while, and
by the refinements `ElbClassic!ImplementsProvider` and `AliyunSLB!ImplementsProvider`,
which show that the requests of these providers keep to it. They do so for the part of a
configuration that is found: addresses without an instance in the VPC are dropped without an
error, and so are instances beyond the first page at Aliyun, so both refine `LBProvider` with
`Configs <- Range(Served)`, `Served` being what the look-up leaves. Where it leaves less than
was asked for, the loop sees a difference in every pass and updates the balancer to the same
again.

`LBProvider` speaks of what a balancer carries, that is of what its tags and backends say, for
every balancer that exists. Which of these a listing reports is each provider's own matter:
at ELB those of the first page that `DescribeLoadBalancers` answers (`ListsFirstPage`), at Aliyun
those of one network (`ListsNetwork`), each under its name. `ExternalLB` takes every
balancer to be listed under the name that the calls find it by. What is shown of the loop
therefore holds for balancers on the first page at ELB, and for balancers of the network
that are named by their ids at Aliyun; section 6 says what happens to the others.

`Metadata` produces the maps that `ExternalLB`
takes for `mdConfigs`: `TypeOK` there says they are of the right type with pools
of this environment, `PoolsDistinct` justifies `OneEndpointPerService`.

The other two providers do less than `LBProvider` says, so what is shown of
`ExternalLB` holds with the ELB provider, for what it lists, and not, without more, with
them. An F5 update passes through "no pool" and passes over errors, an F5 addition leaves
members in a pool it finds; an Avi removal leaves an empty pool that is still
listed, an Avi addition leaves servers in a pool it finds and loses an error.
`F5BigIP` and `Avi` therefore state what these calls do achieve
(`CallAchieves`, `UpdateIsExact`). In both modules the calls are those the loop can make
on the ground of the last listing, one for each endpoint at most, so a sequence of
passes with any choice of services is in the model; `EndList` hands the
endpoints to `Begin`. Every call of `Avi` is a series of requests, and `AviSession`
shows that such a request is executed once at most and once if it succeeds, which is
what `Avi` takes a request to be.

Abstractions. Names are opaque. A target is one HostIP:Port pair. Iteration
over Go maps, whose order is random, is a choice among the remaining elements.
Requests are atomic at the other side; a provider request that fails may or may
not have had its effect (a lost answer). Metadata versions are reused when
neither metadata nor the program remembers them, so they need no bound.

History variables (`readFailed`, `listed`, `failed`, `touched` in `ExternalLB`,
`disturbed`, `mishaps` in `ElbClassic`, `disturbed`, `swallowed` in `F5BigIP`,
`disturbed` in `Avi` and `AliyunSLB`, `executed`, `hurt` in `AviSession`, `seenUp`,
`seenDown`, `upFor`, `waited` in
`Startup`) are read by properties only, and by the
guards of no action.

## 3. What is checked

| run | shows | instance |
|---|---|---|
| `loop_safety` | no change is lost; a pass converges; foreign balancers and those in line are left alone | 2 endpoints with balancers, 3 configurations of 2 services (one scales), 4 pool names of which two differ in case and one is foreign, 2 changes, 1 failure or crash |
| `loop_liveness` | once metadata settles, the balancers come in line and stay so; as long as nothing fails, Cattle gets every FQDN | 2 balancers, 2 configurations, one of another environment, 3 changes, 1 failure or crash |
| `failed_read` | a disagreement between code and comments, see section 6 | 1 failure |
| `metadata` | first claim wins, pools are distinct, targets are exactly the reachable addresses | all lists of at most 2 out of 72 services; a service with any of 108 kinds of containers beside any of 36 |
| `elb_calls` | the ELB provider implements `LBProvider`; never empties a balancer it refills; leaves no orphans; a listing reports exactly the tagged balancers of the first page, or is an error | 3 balancers, of which the first page holds 2 and the third is found by name only, tags asked for one balancer at a time, a name without a balancer, 3 instances (one outside the VPC), 3 configurations (two name an address that is not found), 1 edit, 2 failures |
| `f5_calls` | successful calls leave the wanted pool and members; updates that passed over no error are exact; no node is left over; what broken-off calls leave behind makes no later call fail | 2 virtual servers, a name without one, 3 configurations of 2 services on 2 hosts (one repeats a target), a pool of others, 1 edit, 1 failure or crash |
| `f5_add` | a disagreement, see section 6 | 1 virtual server |
| `avi_calls` | successful calls leave the wanted servers; pools of other services and environments are left alone, and servers of others in additions and removals; a tagged virtual service has a pool; a listing is complete and right or an error | 2 virtual services, one in another cloud, a name without one, 3 configurations of 2 services (one repeats a target), pools of an operator and of another environment, shared pools, 1 edit, 1 failure or crash |
| `avi_session` | every call returns; its request is executed once at most, and once if it succeeds; an expiring session makes no call fail | the loop and 1 health check, 2 expiries, 1 answer 419, 1 failed request or crash, 6 session ids, of which one is always free |
| `aliyun_calls` | the Aliyun provider implements `LBProvider`; serves what fits a page whole; never empties a balancer it refills; a listing reports exactly the flagged balancers of the network, or is an error | 2 balancers named by their ids, one of another network, 3 instances (one without an address that a listing reads), pages of 2, 4 configurations (repeats, an unknown address, more than a page, a port without listener), 1 edit, 2 failures or crashes |
| `aliyun_names` | a disagreement, see section 6 | 1 balancer named otherwise |
| `startup` | the start gives up late; answers to health checks are true; the process runs in the end | 3 services, 3 outages, 2 health checks at a time, 1 failure to listen, the code's timeouts |

The bounds. Two changes suffice for a change that overtakes a pass, and for a
service that moves from one endpoint to the other, which is a removal and an
addition; with three the FQDN of a service that comes back is looked at. One failure
breaks a pass at any of its requests. In `ElbClassic` and `AliyunSLB` two failures let the
call that repairs a broken one break as well. In both, one balancer that a listing does not
report is enough to show what the calls do to it; at ELB two on the page in two requests for
tags let a listing fail between the requests and between the balancers. Two goroutines are the least that disturb each
other; with two expiries the session one of them has just fetched can end before the other
stores its older one, and a third goroutine is covered by the theorems. Three outages are one
for each service, or several of metadata within one start. In `F5BigIP` and
`Avi` one failure and one edit can fall anywhere in a call and all that comes after
it has to cope with what it left; passes go on for ever. Two virtual servers share nodes and
pools, which is where removing for one could harm the other. Two balancers are the least at which the order of a pass's calls and
partial failure matter. Everything the theorems of section 4 cover holds without
these bounds.

Fairness. `FairSpec` asks two things: that the program takes a step when it can
(`WF(Program)`: the ticker fires, and every request is answered, by an error if
need be) and that time passes between ticks (`WF(Elapse)`). The loop is a single
goroutine that never waits for anything else. That requests are answered is an
assumption on the HTTP clients: of those, F5's gives up after a minute
(`go-bigip`'s `APICallTimeout`), the others set no timeout that this repository shows. Nothing is assumed of
metadata, operators or failures, except that `MaxChanges` and `MaxFailures` bound
them. `EventuallyInSync` needs that the version stops changing (`Quiescent`), see section 6.

`AviSession` asks the same of every goroutine: it is scheduled, and a request it has sent is
answered (`WF(Step(g))`). `Startup` asks that `setEnv` and the server's goroutine are scheduled,
that time passes (`WF(Tick)`) and that Rancher restarts a process that has ended
(`WF(Restart)`), which is how the service is deployed: a container of a Rancher stack.
That services come up and stay up is the premise of `EventuallyRuns`, not an assumption; the
bounds on outages and failures to listen do the rest.

## 4. What is proved

Every invariant and every action property that a run checks is also a theorem, and so are
both refinements: they hold for all constants that satisfy the named assumptions, whatever the
number of balancers, services, instances, goroutines, edits and failures. Each proof module has an
inductive invariant `IInv`, a conjunction of named parts of which the checked invariants are
consequences; it was model-checked on the instance of the component's run before it was proved.
`InductiveInvariant` states it, and each action is a step of its proof.

| module | theorem | property |
|---|---|---|
| `ExternalLBProofs` | `TypeCorrect`, `NoChangeIsLost`, `PassesConverge` | `TypeOK`, `NoLostChange`, `PassConverges` |
| | `ForeignAreUntouched`, `InSyncIsUndisturbed` | `ForeignUntouched`, `InSyncUndisturbed` |
| | `CallsCompose` | none: any number of requests of a call that breaks off leave what one failing step of `ProviderCall` leaves |
| `MetadataProofs` | `TypeCorrect`, `FirstServiceKeepsEndpoint` | `TypeOK`, `FirstClaimWins` |
| | `NoTargetTooMuchOrTooFew`, `PoolNamesTellEndpointsApart` | `TargetsExact`, `PoolsDistinct` |
| `ElbClassicProofs` | `TypeCorrect`, `NothingLeftBehind`, `ListingIsExact` | `TypeOK`, `NoOrphans`, `ListsFirstPage` |
| | `NeverLeftEmpty`, `Refinement` | `NeverEmptied`, `ImplementsProvider` |
| | `ChunksPartition` | none: the groups of names concatenate to the list, for all lists and sizes |
| `F5BigIPProofs` | `TypeCorrect`, `NodesDoNotLeak` | `TypeOK`, `NoNodeLeaks` |
| | `CallsAchieve`, `UpdatesAreExact`, `RetriesGoThrough` | `CallAchieves`, `UpdateIsExact`, `RetriesSucceed` |
| `AviProofs` | `TypeCorrect`, `TagImpliesPool` | `TypeOK`, `TaggedHasPool` |
| | `CallsAchieve`, `OtherPoolsKept`, `ListingIsExact` | `CallAchieves`, `OthersKept`, `ListIsExact` |
| `AviSessionProofs` | `TypeCorrect`, `ExecutedAtMostOnce` | `TypeOK`, `AtMostOnce` |
| | `SuccessIsExecuted`, `ExpiriesAreMasked`, `RunsWithSession` | `OkIsExecuted`, `ExpiryIsMasked`; the last is checked by no run |
| `AliyunSLBProofs` | `TypeCorrect`, `NeverLeftEmpty`, `ListingIsOfNetwork` | `TypeOK`, `NeverEmptied`, `ListsNetwork` |
| | `WholeConfiguration`, `Refinement` | `ServedWhole`, `ImplementsProvider` |
| `StartupProofs` | `TypeCorrect`, `StartGivesUpLate`, `AnswersAreHonest` | `TypeOK`, `GivesUpLate`, `HealthIsHonest` |

The arguments, and why the checked invariants are not inductive alone:

* **Loop.** `NoLostChange` speaks of an idle loop; while a pass runs, `Fresh` carries it: the
  fetched map is metadata's as long as the noted version is current, since a version that
  changes is neither the current nor the noted one. `PassConverges` says that a
  balancer on none of the lists is right as it is; when a call takes one off its list
  the call itself makes it right, which needs to know why it was there and that the
  reason still holds: `PendingByReason`. `WorkInPass` says that there are no lists
  outside a pass. Two lemmas are about the comparison. `NoUpdateMatches`: if the code sees no
  need for an update then the balancer carries every wanted target, and exactly the wanted ones
  if the wanted list has no repeats, by counting, although the code tests one inclusion only.
  `MatchesNoUpdate` is the converse.
* **Metadata.** The map holds the first claims among the services so far (`FirstClaimWins`), so an
  entry once made stays. What the target lists hold is a fact about concatenations of any number of
  lists, proved by induction (`FlattenSeqHolds`, `ContainerTargetsHold`). Pool names differ because
  names of services do (`PoolNameOf` has no collisions) and a service names one endpoint.
* **ELB and Aliyun.** `Control` says what is in flight at each request and for which kind of call.
  `Swap` says how far instances have been exchanged: what was to be registered is there before
  anything goes, unless somebody else edits, from which `NeverEmptied` and the last step of the
  refinement follow. Each step of a call maps to a step of `LBProvider` or leaves its state alone:
  `Begin` to `Begin`, the request that changes what is carried to `Work`, the return to `Return` or
  `Fail`. `Listing` says what a listing has found out so far, in `ElbClassic` of the names in the
  requests for tags made so far, which together are the page (`ChunksPartition`, `PageAsked`), and in
  both of the balancers whose instances are read. An edit while a listing runs may make it
  report instances that have gone: both properties then promise only which balancers are reported.
  For the whole configuration at Aliyun no two instances may share an address (`AddressesUnique`, a
  hypothesis of `WholeConfiguration`); `Refinement` needs no hypothesis.
* **F5.** `Progress` says what the requests so far have achieved while nobody else edits: the pool
  is there, its members are those found and those added, the virtual server has no pool.
  `Rebuilt` adds that an update starts from an empty pool unless somebody uses it. That a retry
  succeeds is read off `Progress`: the only request that can be refused adds a member the call
  has added before. `NodesTight` says which nodes may be without a member at each request;
  lemmas about `InUse` say how the nodes in use follow the pools.
* **Avi.** The provider reads objects, changes its copy and writes it back. `Copies` says how the copies
  stand to the controller's objects at each request: who the pool belongs to holds whatever
  operators do, because names and uuids stay, and what is in it only until they edit. `Spent`
  counts the pools that are gone, so that an uuid is always left for a new one; `Listing` says
  how far `GetLBConfigs` has come.
* **Avi session.** `AtMostOnce` counts, and what it counts is only safe because of where a
  goroutine can be when its request has been executed: about to return, with an answer that is
  not repeated (`Executions`). `NeverWithoutSession` follows a session id from the controller's
  answer through the two assignments to the shared field (`Logins`), which are safe in any
  interleaving because a field that is set is overwritten and never cleared. An error at the end
  of a call needs its cause (`Faults`): a request that failed on its own, or one with two tokens;
  a 401 is neither, and never gets there because there is a session id.
* **Start-up.** `Seen` says which services a health check has seen up and down since it began,
  `Waits` bounds the time the waits so far have taken and the time metadata can have been up in them.

Assumptions, all named and evaluated by TLC on the instances:

* `LBConfig`: `Configs` are well-formed with pools of this environment; `Targets` is finite.
* `ExternalLB`: endpoints with balancers are endpoints; "init" is no metadata version.
* `Metadata`: a service is known by its name and stack, and these determine its pool name
  uniquely (names hold no underscore); any address may publish any port; services, their
  containers and their ports are lists of the types the client declares.
* `ElbClassic`, `AliyunSLB`: targets are address and port; every instance has an address that can
  be a target with any port; a configuration's targets are on its port; a request names at least
  one balancer, a page holds at least one instance. `FirstPage` is some list of balancers at ELB,
  and always the same; `NetworkLBs` is any set of them at Aliyun, where `Instances` is finite, since
  pages of instances are counted.
* `F5BigIP`: foreign pools are the only place of foreign targets. `NoNodeLeaks` has the hypothesis
  `RepeatsHideNoHost`, see section 6.
* `Avi`: the controller has an uuid left for each pool and each edit; before the service first runs its
  pools do not exist, and names of pools are unique.
* `AviSession`: the loop is no health check, and the empty string is no session id.
* `Startup`: the time-out for metadata is longer than the longest wait and shorter than two of
  them, that for the connection at most two of them, as in `metadata.go:27-42`.
* Values that stand for "none" are no members of the sets they are added to.

Induction over numbers is done on sets: a set with 0 that has with each number its successor
holds all of them (`NaturalInduction`, from the library's theorem that `<` is well-founded), which
needs no operator for a parameter. With it, facts about the recursive functions of the community
modules (`FlattenSeq`) are proved for lists of any length.

## 5. What is only model-checked, and what is not modelled

Only checked: liveness, which is out of the prover's reach: `EventuallyInSync`,
`FqdnEventually`, `CallsReturn`, `EventuallyRuns`. The three runs that show a disagreement are
counterexamples, so there is nothing to prove. That `ExternalLB` may take a
provider call for one step is proved for the data (`CallsCompose`, and `Refinement` of the
providers); that the loop waits for its calls, so that no step of its own comes in between, is
read off the code.

Not modelled: where the providers' credentials, regions and hosts come from (environment,
secrets, the AWS instance metadata; `Startup` has one Boolean and one request for all of a
provider's `Init`), the registry that init functions fill, logging, vendored code (but for `PoolMembers` of go-bigip and
the wait for a first connection to metadata), the retries
of the AWS SDK, and functions without callers: `TestConnect`, `GetVsFqdn`, `DeletePool`,
`AddPoolMember` and `RemovePoolMember` of Avi, `EnsureListenerInstancePort`,
`EnsureHealthCheckPort` and the subnets of ELB.

Assumptions on the world that are worth knowing:

* `ElbClassic`, `AliyunSLB`: nobody else writes the tags. Aliyun removes a tag by key and
  value; `DescribeInstances` returns the same first page for the same instances, and
  `DescribeLoadBalancers` of ELB the same first page as long as no balancers are created or
  deleted, which is not modelled. How Aliyun pages its list of balancers is not known from this
  repository.
* `F5BigIP`: looking for a node or pool and creating it are one step.
* `Avi`: operators neither rename pools nor write `service_metadata`, every server has a port,
  the answer to `/api/virtualservice` is one page, and a PUT replaces the object whatever
  happened since it was read. An operator's edit that falls between the reading and the writing
  is lost there; nothing in the repository promises otherwise.
* `AviSession`: the controller executes nothing that it answers by 401 or 419, keeps other
  sessions when one logs in, and gives out tokens and ids of one length, so that a string read
  while it is written is one or the other. A log-in that fails for ever makes the request that
  needed it repeat for ever, each time a stack frame deeper; `CallsReturn` holds because
  failures are bounded.
* `Startup`: requests take no time, so the waits are all there is to a timeout.

## 6. Where code and comments disagree

With a run that shows it:

* A failed `GetServices` is logged and becomes an empty map, so the pass removes all
  configurations; the branch at `main.go:117-120` that would skip the pass never runs
  (`failed_read`).
* F5: an update to another pool leaves the old one behind, whose stale members are served
  when its service comes back (`f5_add`).
* Aliyun: a listing names balancers by their names and every other call by their ids; unless an
  operator has made the two equal, nothing that is listed can be removed, and what is added is
  added again in every pass (`aliyun_names`).

The models contain these as well, at the actions named, and the properties that would
otherwise fail except them:

* The comparison of targets is one inclusion and a count: a wanted list with repeats
  hides a stale target (`LBConfig!NeedsUpdate`; `PassConverges` excepts it).
* The forced update runs only in a tick that finds the version unchanged: with a version that
  changes at every tick a failed call is never repeated (`Poll`; `EventuallyInSync` excepts it).
* The FQDN is sent once: a failure between the change and the event loses it for good.
  `FqdnEventually` therefore speaks of runs without failures (`Notify`, `Crash`).
* ELB: `GetLoadBalancers` "returns all" (`elb_classic.go:39-40`) and `GetLBConfigs` "returns all
  endpoint configurations" (`external_lb_provider.go:24`), but one request is made and no marker
  followed, so with more balancers in the region than one answer holds (400, says the SDK at
  `elb/api.go:2800`) the others are never listed. The calls find them all the same: one that is
  added is added again in every full pass, and never removed (`ListsFirstPage`).
* Aliyun: a listing asks for the balancers of the service's VPC, or of the classic network
  (`slb.go:209-217`), while the calls look a balancer up by its id alone (`slb.go:309-323`). One of
  another network is filled, flagged and answered with success, and never listed, against
  `external_lb_provider.go:24`: it is added again in every full pass and never removed
  (`ListsNetwork`).
* Only the first port of a service is balanced, although `providers/elbv1/README.md:14` speaks of
  several (`Metadata!LBConfigOf`).
* F5: an error while the pools are listed leaves virtual servers out or empties their
  target lists, and the listing succeeds (`F5BigIP!ReadPool`). A configuration for a virtual
  server that does not exist counts as added, although the message at `f5_bigip.go:69` says it
  cannot be (`GetVirtualServer`). A repeated target ends an addition with an error at its second
  occurrence; nodes made before for the targets after it stay without a member (`NoNodeLeaks` excepts lists in which a host comes after a repeat only; the
  exception was found when its proof failed there).
* Avi: a pool that has all the targets already is not renamed, although `aviutils.go:60` says
  so, and its virtual service is never this environment's (`NeedsPut`). An addition loses the
  error of its main request (`MembersFailed`). A removal leaves the configuration in the
  listing, without targets, and the endpoint can go to no other service.
* Avi session: the CSRF token is read once for the header and once for the cookie; a log-in of
  another goroutine in between makes the controller refuse a writing request
  (`ExpiryIsMasked` excepts it). The error of a log-in after a 401 is dropped.
* Aliyun: a listing reads the first address of every instance without looking whether there is
  one. With private addresses in a VPC, which ECS lists outside `InnerIpAddress`, that is the
  normal case, and the process panics at every listing (`DescribeInstances`). A removal leaves the tag
  with the port behind (`RemoveTags`).
* Start-up: a failed attempt is logged as "will retry" (`metadata.go:34`) and waited for, after
  the last attempt too; a service that comes up in these 16 seconds is not noticed
  (`GivesUpLate` says so).

## 7. Plan

Done: 1. `LBConfig`, `ExternalLB` with its runs; 2. `Metadata`; 3. `LBProvider`, `ElbClassic`;
4. `F5BigIP`; 5. `Avi`; 6. `AviSession`; 7. `AliyunSLB`; 8. `Startup`; 9. theorems for every safety
property and both refinements.

Next, in this order:

10. A behaviour of `LBProvider` as a whole against `ExternalLB`'s provider call: with the report at
    `Begin` remembered, a call in flight is half-way (`CallsCompose` is the step), whatever
    operators edit at other balancers meanwhile.
11. That the data abstractions are sound: `NeedsUpdate` on the lists of the code, with repeats, against
    the sets a provider reports, for every list.
12. The loop over the weaker providers: which of its properties survive with what F5 and Avi
    calls achieve. Expected: with a repeated target F5 updates oscillate; an Avi endpoint does not
    change services; a balancer whose configuration is found in part is updated in every pass; one
    that is not listed is added in every full pass.
