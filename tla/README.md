# TLA+ models of toby

toby runs coding tools in Bubblewrap sandboxes. This directory models the parts
of it in which several goroutines, processes or clients meet: the launch of a
sandbox, the per-user agent with the resources it shares between launches, the
streams between them, the actions a sandbox asks its host to perform, and the
volumes and images that every process opens. The modules are checked with TLC on
small instances; every safety invariant that is checked is also proved with TLAPS,
for every instance.

1. [The system](#1-the-system)
2. [The modules](#2-the-modules)
3. [The runs](#3-the-runs)
4. [Fairness](#4-fairness)
5. [The proofs](#5-the-proofs)
6. [Where the code and its documentation disagree](#6-where-the-code-and-its-documentation-disagree)
7. [What is not modelled](#7-what-is-not-modelled)
8. [Plan](#8-plan)

## 1. The system

Three binaries share one source tree. `toby` is the command a user starts: it
prepares a launch, runs the sandbox and tears it down. `tobyd` is the per-user
agent, elected through a private Unix socket, started by the first client that
needs it and stopped when nobody does. `tobys` is the helper inside the sandbox
that reaches the resources of its launch through a gateway socket.

| Component | State | Operations | Meets |
|---|---|---|---|
| Launch (`session/run`, `lifecycle`) | what it has open, deferred calls | open each part, run commands and the tool, unwind | everything below |
| Shutdown service (`shutdown`) | pending signal, pause, grace, forced cancellation | signal, checkpoint, attach, cancel | launch and foreground run |
| Bubblewrap executor (`sandbox/bwrap`, `pasta`) | processes, gate and status pipes, terminal, run directories and their locks | start, gate, signal, suspend, retry, wait, recover | kernel; other Tobys |
| Mount plan (`sandbox/bwrap`, `toolfiles`) | declarations, opened sources, mounts | declare, open, check, write, render, mount | symbolic links, overlaps |
| Agent election (`agent/socket`, `agent/client`) | socket file, flock, shared start state | elect, replace, serve, close, dial, start | other processes, which may die |
| Agent server (`agent/server`, `agent/service.go`) | sessions, observed activity, streams, stopping state | session, acquire, release, stream and stop RPCs, idle check, graceful stop | clients; lease registry; handlers |
| Resource lease registry (`agent/resourcelease`) | entries by digest and by identity, the digest each identity was issued for | acquire, release, look up, shutdown | the agent server, and the handlers it notifies |
| Resource registry (`agent/resource`) | entries by key, generations, leases, connectors, timers, failure counts | acquire, release, connect, start/watch/stop workers, timer callbacks, shutdown | its workers and timers; the pools built on it |
| MCP resource handler (`mcpgateway/resourcehandler`) | one runtime per resource: state, starting channel, streams, timers | open, close, lease notifications, idle expiry, shutdown | backends; lease registry |
| MCP targets, sidecars, bridge (`mcpgateway`) | plans per key, service leases, sidecar processes, HTTP session | acquire, serve, replace, revoke, release, shutdown | resource registry; servers |
| Models resource handler (`providergateway/modelresource`) | one runtime per resource and a cache with a flight | open, list, flush, expiry, shutdown | routes of the proxy; lease registry |
| Provider gateway, Caddy (`providergateway`) | desired routes with revisions, proxy generations, relayed connections | acquire, reconcile, load, publish, revoke, release, shutdown | the proxy process |
| Session stream and host-action calls (`agent/server`, `agent/client`) | pending calls, running actions, the stopping handshake | call, cancel, answer, stop, close | both ends of one stream |
| Approvals and git (`approval`, `hostaction`) | held requests, binding to a launch, executions, the supervised processes | authorize, wait, decide, execute, cancel, close | users at other terminals; teardown |
| Sandbox gateway, socket relay (`sandboxgateway`, `socketrelay`) | connections, half-closed directions, permits | accept, open, copy, end, revoke | tools, agent streams, host sockets |
| Volumes and images (`storage`, `oci`) | directories, references, objects and their flocks | launch, prepare, create, inspect, remove, recover | other processes, which may die |
| Image preparations (`oci/resourcehandler`, `oci/prepareclient`) | one operation per reference with its log | create, record, follow, finish, shut down | followers that come late |

`PROJECT.json` lists all components with their files, the ones that are left out
(section 7) too.

What is hard in this code, and what correctness means for it:

- *Unlocked middles.* Starting a process, acquiring a route, discovering models
  and notifying a handler happen outside the mutex; what was read before is
  checked again afterwards. Two processes must never serve one key, no backend,
  plan or route may be dropped without being closed, a configuration that was
  overtaken must not confirm what came after it, and nobody may wait on a channel
  that nobody will close.
- *Timers that fire late.* `Timer.Stop` returning false means that the callback
  is running or about to: idle, retention and expiry callbacks find a state they
  were not armed for. They must not stop what is in use or shorten a period.
- *Cancellation.* A caller gives up in the moment its wish is granted; what it
  was given must go back, and its private failure must not become everyone's.
- *Stopping.* The agent decides that it is idle from state under several locks,
  then refuses new sessions, asks the old ones to leave, waits, cuts the transport
  and shuts its resources down while handlers still run.
- *Signals.* One that arrives while a launch starts up may not tear a half-opened
  sandbox, and one that arrives between two phases may not be lost.
- *Streams that end by halves.* A tool closes its input before it has read the
  answer; a server breaks its event stream between two events; an endpoint is
  revoked under both.
- *Several users.* Requests are decided from several terminals while the launch
  ends; a denied request must never run, and an approved one once, with every
  process it has forked.
- *Processes that die.* Sockets, volumes, images and run directories are published
  and removed with nothing but directory entries and flocks to coordinate by.

## 2. The modules

Every definition carries the name of the code it stands for where there is one,
and `PROJECT.json` maps it to the lines. An action is one critical section of the
component's mutex, or one step of a goroutine between two of them. Data that no
property distinguishes (payloads, names, error texts, durations) is left out: a
period is a timer that may fire at any time while armed, a check of data is an
outcome.

### The agent and its registries

**ResourceRegistry** models `Registry` of `agent/resource`. `entries` is the map of
the same name; `lease` and `connector` are the handles given out; `starter`,
`watcher` and `stopper` hold the phase of the three goroutines a generation may
have, and `process` what `Done()` of its process would show. `staleCallbacks` are
timer callbacks that were already running when their timer was stopped.
`AcquireStarting`, `AcquireReady` and `AcquireJoining` are the three outcomes of
`reserveLocked`; `AcquireReturns` and `AcquireCancelled` are the two branches of
the select that follows. `StartReturns` and `StarterStep` follow `startGeneration`
through success, failure, a partial start whose process must be stopped, and a
process that outlives even its kill. `MaxGeneration` and `MaxFailures` bound the
generations and the saturating failure counter, `LateTimers` says which timers may
leave a stale callback.

**LeasePool** is the abstract specification of that registry: what the callers of
`AcquireWithPolicy`, `Lease` and `Connector` may rely on. A key has at most one
generation that starts, serves or goes away; a lease waits, uses the ready
generation or is closed, and loses its generation only to its own release, the exit
of the process or the end of the pool. Timers, workers, backoff and failures are
hidden. **RegistryRefinement** has the refinement mapping
(`Pool == INSTANCE LeasePool WITH ...`): the state of a key and its generation are
read from the entries, that of a lease and a connector from the handles.

**LeaseRegistry** models `Service` of `agent/resourcelease`. A resolved
configuration is a record of identity, digest and configuration, so that truncated
identities and digests may collide. Notifications of the handlers are steps of
their own, because the code makes them without the mutex; `demand` is what a
handler has counted.

**AgentServer** *extends LeaseRegistry*: its actions conjoin the lease operations
with the RPCs, sessions and goroutines of `agent/server` and the shutdown order of
`agent/service.go`. `idle` is the goroutine `stopWhenIdle`, whose check reads
sessions, leases and runtimes one after the other; `stop` is `gracefulStop`. A stream
passes the steps of `connectBytes`, each with its own hold of a mutex: `CheckLease`,
`StreamBegins`, `OpenResource`, the handler, `CheckAgain`, `Ready`.

**AgentElection** models `agent/socket`, the part of `agent/service.go` that serves
and closes the listener, and `Connect` of `agent/client`. `path` is the inode at the
socket path, `flock` the holder of the election lock; an agent probes, unlinks and
listens under the lock and unlinks at the end only the inode it created. Inodes are
used again once they are free, and the agent of the first state is serving, dead or
gone. `starting` is the start state that the callers of one process share.

### The backends

**McpResources** and **ModelResources** model the two handlers. Each caller is an
element of `opener` or `caller` with its position in `Open` or `ListModels`;
`backend` and `route` are the external resources, which start, fail for
now or for good, and must be closed once. `late` counts idle callbacks in flight.
`revoked` says that the agent has cancelled the lifetimes of all leases, which
happens before `Shutdown` of the handlers. They take from the lease registry only
the two notifications, in an order LeaseRegistry allows.

**McpTargets** *extends LeasePool*: the targets behind the MCP handler, over the
promises of the registry and not its implementation. `plans` is the map of the pool
with one plan and a count per key, `pinned` the targets whose mounts are open,
`reads` the plan a start has taken. A connection (`serve`) looks for the lease of its
target, replaces it when its generation is gone, and opens a connector of it. All
kinds of target (HTTP, stdio, remote and builtin) go through `Revoke`, `Release` and
the shutdown of their resolvers.

**Sidecar** models what a stdio target runs: the lazily opened runtime of
`mcpgateway/sidecar`, the run directories with their two locks, the start of
Bubblewrap and Pasta behind the block gate with its unwinding, the wait for both,
and another Toby that recovers abandoned runs. A crash of the agent takes effect in
steps of any order: the kernel closes its files (`AgentFilesClosed`), which frees its
locks and opens the gate, and the parent-death signal reaches the monitors
(`AgentReaped`).

**HttpBridge** models `mcpgateway/httpbridge`: the three workers of `Serve`, one
goroutine per message of the tool with its dispatch receipt, the call tracker, and
the event stream with cursor and reconnects. The MCP SDK and the server are external.
The server numbers its events and writes the id of one before its data, and a stream
ends between two lines. If it ends between the two, the scan dispatches what it has
(`sse.go:130`) and the cursor passes an event without data; `events.cut` records it.

**ProviderGateway** models the resolver, the gateway with its route store, the one
reconcile goroutine, the relay and the release of a route. A configuration is the
set of routes it serves, a revision the number of changes to it; routes of `Bad` make
Caddy reject it. An acquire checks that the gateway is open, adds its route and signals
the loop in three steps (`AcquireChecked`, `AcquireRoute`, `AcquireSignals`). `caddy`
is the generation the pool gives out, which may die at any
time. **CaddyProcess** models that pool: the runtime, the factory, and the instance
whose loads, dials, stop and wait share its directories.

**ImageStore** models references, objects and their flocks in `oci`: `Prepare`
publishes an object and its reference and passes from the exclusive lock to a shared
lease; sandboxes hold leases, removals check and unlink, processes die.
**OciOperations** models `oci/resourcehandler` with its followers: one operation
with a bounded log of numbered records, the snapshot a late follower starts from,
and the shutdown.

**VolumeStore** models volumes as inodes that have, lose or never get a name, with
their flocks. A process performs one command at a time, each beginning with the
recovery of `NewStore`. `Publish` follows `PublishDirectory` step by step, `Remove`
follows `RemoveVolumes` and the recursive removal, and `Crash` ends a process
anywhere, leaving its files and none of its flocks.

### The launch

**Shutdown** models `shutdown/service.go`: a signal is remembered while start-up is
paused, passed on to the foreground run when there is one, and cancels the context
otherwise. **ForegroundExecution** *extends Shutdown* with one command in the
sandbox: the launch gate, the status events, the exact payload and its terminal, job
control, termination with grace, and the retry of a mount that failed before the
payload ran. **Launch** *extends ForegroundExecution* with `NativeRunner.Run`: `pc`
is the step it is at, `held` what it has open, `defers` the deferred calls in order;
every step may fail. The three together are one specification.

**SandboxPlan** models the way from what tools declare to what the sandbox shows:
collecting requests, opening their sources, the checks by name and by descriptor,
writing tool files, attaching, rendering, and the mounts in order. A path is the
sequence of its components; a host source has the path it was declared under and the
place its descriptor really is. `PlanAssumption` says what launches are given: tools are
built in, so that no tool names a volume as one of its files, and the assets of a launch
are in the runtime directory of the run or of the user.

### Streams and host actions

**SandboxGateway** models a byte stream from the connector in the sandbox through
the gateway of the launch to the agent, with two copies on either side; chunks are
counted at each point of the way. **SocketRelay** models the relay of one host
socket: accept loop, dial, two copies per connection, failure and revocation.

**HostActionCalls** models both ends of one session stream with the two ordered
message queues between them: `hostActionCaller` and the stopping handshake on the
side of the agent, `AgentSession` with its reader, its action handlers, its permits
and `CloseContext` on the side of the client. The stream may break at any time.

**Approvals** models the approval registry, the `approvals.*` methods with the
executor they start on a decision, the part of the git methods that asks, and the
order in which a launch installs and removes them. `Resolve` is the permission
policy. The variables `decision` and `runs` only record history.

**GitSupervisor** models what an approved request runs: `runGit` in the launch, the
supervisor that is a child subreaper, Git, and helpers that fork and detach. The
kernel is there as far as the code relies on it: adoption, zombies, and the lifetime
pipe that ends with its writer.

### Conventions

A definition whose comment begins with *Mutant* is a plausible mistake in the code:
putting it in place of the definition after it makes TLC find the property it belongs
to violated, which shows that the property depends on that piece of code. Properties
of one subject are conjunctions of named parts (`BackendsAreShared` is
`StreamsKeepTheirBackend`, `StartsAreCoalesced` and `NoBackendIsLost`), and each part
has its own comment.

The modules `MC...` give the constants of the runs. Some hold several components that
do not share variables: `scene` says, in the initial state, which one moves, and the
others rest in their initial state. Fairness is assumed only of the components whose
liveness a run checks, and a component at rest owes no step: all its fair actions are
disabled initially. The agent server is the exception, as its idle check can always
run; in its scene `leases` only safety is checked. Scenes also split one
component where two independent dimensions together are too large, such as two
sessions and two RPCs of the agent.

## 3. The runs

All bounds are given in the `.cfg` of a run. Deadlock is checked for the launch, which
must end; everywhere else the system may stop, after its shutdown or because no client
wants anything.

| Run | Instance | Properties |
|---|---|---|
| `registry` | one key, two leases, one connector, two generations, idle and retention callbacks that run late | `TypeOK`, `OneGenerationPerKey`, `UsersAreServed`, `ShutdownReapsAll`, `ImplementsLeasePool`, `TimersAreHonoured`, `RegistryProgresses` |
| `agent` | one lease with one session and two RPCs (`calls`) or two sessions and one RPC (`clients`); three leases of four configurations with a shared identity and a shared digest (`leases`) | `StopsAreOrderly`, `OwnersAreUnique`, `LeasesAreAccounted`, `DecisionsAreCurrent`, `AgentProgresses` |
| `mcp` | two callers, two leases, two backends and a late callback (`handler`); two targets of each kind that share a key (`share`); two streams of one target, three leases, two generations (`replace`) | `BackendsAreShared`, `TargetsOwnTheirLaunch`, `ReleasesComplete` |
| `shared` | two listings with a flush (`flush`) or with two routes and a late callback (`late`); two users and a remover of two references and objects, one crash (`images`); three volumes, five binds, two projects, two assets, three files and five binds of a service, in every order (`plan`) | `ListingsAreSound`, `ImagesAreSound`, `MountsAreAsPlanned` |
| `hostactions` | two requests, two deciders, one record, every policy (`approval`); two calls and one permit (`calls`); one call and a stopping agent (`stopping`); Git and two helpers (`git`) | `ActionsAreAuthorised`, `CloseLeavesNoAction`, `GitAnswersAreFinal`, `TeardownIsComplete`, `CancelledGitEnds` |
| `storage` | one volume, two processes, two inodes, one crash (`volumes`); two followers, two operations, a log of one record (`operations`) | `PublicationIsSafe`, `OperationsAreShared`, `FollowersLearnTheOutcome` |
| `launch` | one signal, one retry, one suspension, one command before the tool | `SandboxKeepsItsLeases`, `RetriesAreSafe`, `TerminalIsReturned`, `SignalsAreHandled` |
| `streams` | one connector with a chunk each way (`gateway`); two connections and room for one (`relay`); one sidecar, another Toby (`sidecar`); initialization, two calls, two events, one reconnect (`bridge`) | `AnswersAreComplete`, `RelayIsComplete`, `SidecarIsContained`, `ExchangeIsOrdered`, `RevocationReturns` |
| `services` | two routes, one of them bad, two generations (`acquire`); one route and a connection through the shutdown (`shutdown`); two dials, a load and a stop (`caddy`) | `RoutesAreCurrent`, `GatewaySettles`, `CaddyIsContained` |
| `election` | three agents, two clients of one process, two inodes | `ListenersAreReachable`, `ClientsConnect` |
| `volume_removal`, `launch_unwind` | | `LeasedVolumesStay`, `FailureUnwinds`: violated, section 6 |

What they show:

- *registry.* A key never has two live processes; active leases and open connectors
  belong to the ready generation; completed shutdown has reaped every process; the
  backoff of a failed key is forgotten only by its retention period and only a full
  idle period stops a resource (`TimersAreHonoured`); every acquire is answered and a
  failed one holds nothing, every unused resource is reclaimed, every shutdown
  completes (`RegistryProgresses`); and every step is a step of LeasePool or none.
- *agent.* No session misses the stop and every one keeps its grace; every live lease
  has one owner; an identity given to a client never names a second digest and a
  handler's count is the number of leases between their notifications, and a lease opens
  the configuration it was acquired for; a stream passes its second check under a lease
  that is held, and one that is announced without it lost it to its own session after
  that check; the agent is idle only when it is unused; stops complete and an unused
  agent stops.
- *mcp.* Streams keep their backend, starts are coalesced, no backend is lost. A start
  has the plan of its key with its mounts open, nothing of a target is left once it is
  done, and shutdown leaves no launch; releases complete.
- *shared.* No listing after a flush returns what was discovered before it, no joiner
  is stranded, no route lost. A held image stays, a published object is there, and a
  reference resolves. A sandbox shows every declaration at its place, not covered by
  another, and nothing of Toby's own storage, whichever links lead there.
- *hostactions.* Nothing runs that was not approved, nothing runs that was denied, a
  close leaves no action of its session running, and no process that Git forked
  outlives the report of its end, which tells the outcome. Teardown of launch and
  session leaves nobody waiting, and a cancelled Git ends.
- *storage.* A published volume is complete and recovery never takes a publisher's
  stage; a follower reads each record once, also when the log is full, and learns the
  outcome; preparations of a reference are one.
- *launch.* The leases of volumes and image are held while anything of the sandbox
  runs; no payload runs twice and a retry is invisible; the terminal comes back; a
  signal does not interrupt start-up and ends the launch.
- *streams.* A tool that has closed its input still gets the whole answer, and a relay
  ends one direction without cutting the other; the directory of a sidecar is not
  recovered under it, its payload waits for its network unless the agent dies, and a
  failed start leaves nothing; messages reach the server in order, the event stream
  joins the session, and events arrive in order and once, all that the cursor has passed
  but those whose stream ended between id and data; a revocation returns, with the
  exception of section 6.
- *services.* A route that was acquired is in the configuration of the published
  generation, a released one is not; acquires are answered and shutdown completes;
  Caddy, its directories and its runtime go in that order, and it is always reaped.
- *election.* No agent unlinks the socket of another that listens, also when inodes are
  used again, and every client is connected or told why not.

Why these bounds reach the interesting cases. The components coordinate through one
object at a time (one key, one resource, one session, one volume), and entries of
different keys meet only in shutdown, which the proofs cover for any number. Two
users suffice for every race of a user with another, with a worker or with a timer,
and two generations or backends for a successor that meets the remains of its
predecessor. Three agents are an old one and two that race to replace it. One crash
suffices because a dead process leaves no lock and its files are those of a publisher
or a remover in some step, which another process then meets in any state. A log of one
record overflows with the second. The limits of permits and connections are one, and
two want them. `shared` is checked up to permutations of callers, references, objects
and users, which no definition tells apart, and has no liveness property;
`hostactions` names the first requester, request and decider that appear instead,
because liveness is checked.

Too large to be checked along with the rest, and therefore not claimed: that abandoned
stages of volumes are reclaimed, that streams through gateway, sidecar and bridge end
after their peers, and that the MCP handler returns from a cancelled open and closes
idle backends. Safety of all of them is checked.

## 4. Fairness

Fairness is only assumed of what the code or its environment owes:

- goroutines that can take a step take one, and armed timers fire;
- `Factory.Start` returns once its context is cancelled, and a process that was
  killed is reaped (`ResourceRegistry`, `CaddyProcess`, `Launch`, `GitSupervisor`);
- a handler returns once it is cancelled (`HostActionCalls`), Recv and Serve fail
  once the transport is cut (`AgentServer`), git commands end and a teardown that
  has begun goes on (`Approvals`);
- requests and dials to Caddy end at their timeouts; a load and a start of a generation
  that are tried again and again succeed in the end (`ProviderGateway`, strong
  fairness), without which an acquire waits for its own deadline;
- a flock that is free again and again is obtained, as both sides poll for it
  (`AgentElection`, strong fairness);
- the supervisor's list of its children is complete in the end although helpers fork
  (`GitSupervisor`, strong fairness; their number is bounded);
- streams of a revoked target end and waits for its resources return (`McpTargets`),
  copies end when their descriptors are closed (`SocketRelay`).

Nothing is assumed of clients, users and uncancelled work: nobody has to release,
decide, acknowledge, answer, open a store, send a signal, crash or fail.

## 5. The proofs

The proofs hold for every value of the constants, on the named assumptions of the
modules (`RegistryAssumption`, `LeaseAssumption`, `AgentAssumption`,
`TargetsAssumption` and so on), which TLC evaluates in the runs: sets of clients,
leases or calls are finite where something is counted, a bound is a natural number,
the value for "none" is not a member, a limit of the code is not zero. They are laid
out alike: an inductive invariant, a lemma that it holds initially, one lemma per
action or group of actions with a step for every conjunct the action can disturb, and
short theorems that draw the properties from it. The inductive invariants were checked
with TLC on small instances before they were proved. Two or more components share
a module of proofs; their theorems are about the specification of each.

| Proofs | Of | Properties of the runs proved |
|---|---|---|
| ResourceRegistryProofs | ResourceRegistry, RegistryRefinement | `TypeOK`, `OneGenerationPerKey`, `UsersAreServed`, `ShutdownReapsAll`, `TimersAreHonoured`, `ImplementsLeasePool` |
| AgentServerProofs | LeaseRegistry, AgentServer | `LeasesAreAccounted`, `StopsAreOrderly`, `DecisionsAreCurrent`, `OwnersAreUnique` |
| McpProofs | McpResources, McpTargets | `BackendsAreShared`, `TargetsOwnTheirLaunch` |
| StorageProofs | VolumeStore, OciOperations | `PublicationIsSafe`, `OperationsAreShared` |
| HostActionProofs | Approvals, HostActionCalls, GitSupervisor | `ActionsAreAuthorised`, `CloseLeavesNoAction`, `GitAnswersAreFinal` |
| LaunchProofs | AgentElection, ImageStore, Launch, SandboxPlan | `ListenersAreReachable`, `ImagesAreSound`, `MountsAreAsPlanned`, `SandboxKeepsItsLeases`, `RetriesAreSafe`, `TerminalIsReturned`, the safety part of `SignalsAreHandled` |
| StreamsProofs | SandboxGateway, SocketRelay, Sidecar, HttpBridge | `AnswersAreComplete`, `RelayIsComplete`, `SidecarIsContained`, `ExchangeIsOrdered` |
| BackendProofs | ProviderGateway, CaddyProcess, ModelResources | `RoutesAreCurrent`, the safety part of `CaddyIsContained`, `ListingsAreSound` |

**ResourceRegistryProofs.** `OneGenerationPerKey` is not inductive: whether a start may
replace the generation of an entry depends on which workers can still have its
process. `IInv` says in `EntriesShaped` what an entry of each state looks like
(which timers are armed, which generation, whether it has users); in
`StarterOwnsStart` that a starter which has not settled its generation has the
pending start of its entry; in `OccupantIsCurrent` and `OccupantIsAwaited` that a
generation which is not reaped is the one its entry names, and that a worker waits
for it; in `LeasesLinked`, `ConnectorsLinked` and `UsersAreServed` how users, entries
and generations refer to each other; in `GenerationsInOrder` that generations are
numbered as they start; and in `ShutdownSettled` that shutdown is done only when no
worker is left. `RegistryHonoursTimers` needs no more. `RegistryFailedAcquires` says
that an acquire that failed holds nothing. `RegistryImplementsPool` is the refinement:
`SimInv` adds to `IInv` that the generation of a key is owned by its entry
(`GenerationsOwned`), that an acquire under way is attached to the start it waits for
(`OpeningsAttached`) and that what rests is unused (`RestingUnused`), and every action
of the registry is then one action of LeasePool, or a stutter.

**AgentServerProofs.** The properties of the lease registry need `IdentitiesOnRecord`
(the digest of every issued lease is on record under its identity), `EntriesOfLeases`
(a live lease and the entry of its digest have the same configuration) and `LivesOK`
(while the agent serves, a lease is closed exactly from its removal on), because a
release finds by digest what an acquire stored by digest and by identity; and
`HandlersCountLeases` needs finite sets of leases, for its cardinalities. So: whatever
collides, a lease opens the configuration it was acquired for
(`LeasesAlwaysOpenTheirs`). `AgentRunsLeases` shows that the agent server uses the
registry only through its operations (`Spec => LeaseSpec`), so that all of this holds
in the agent. On top of it, `AgentInv` says who is responsible for a lease at each
stage of an RPC and of the teardown of a session (`OneHolder`, `EveryLeaseHeld`), that
the agent stops exactly when its `gracefulStop` runs (`StopKnown`, `TransportEnds`),
that streams are counted, and that what the idle check saw still holds as long as no
activity was counted in between (`IdleSees`), which makes the check of three locks one
after the other safe. `AgentDecisionsCurrent` is an action property from it.
`OwnersAreAlwaysUnique` is about the composition that the run checks.

**McpProofs.** `McpInv`: a runtime counts the callers in `Open` and the streams
(`DemandIsCounted`), and every backend that lives is owned by one runtime, starter or
stopper (`OwnersAreApart`, `NoBackendIsLost`). The start that finishes late, when its
runtime was revoked or replaced, is the case that needs them. `TargetsInv`: the pool
below has one occupant per key and every start in it is awaited (`PoolInv`); leases and
connectors are in somebody's hands until they are closed; the users of a plan are the
targets registered for its key (`PlansAreCounted`, a cardinality); mounts stay open
while a target needs them. A start that reads the plan of its key therefore finds it:
the start has a waiting lease, whose holder is one of the targets counted, so the plan
cannot have been given back (`ReadsAreCurrent`).

**StorageProofs.** `VolumeInv` relates the step of every process to the flocks it holds
(`Locked`) and to the stage it fills (`Filling`): until a stage is locked, no recovery
can have read its name, because the publisher has the directory; afterwards its own
flock keeps recovery out. Hence no two publishers fill one stage and what is published
is whole. `OciInv` says in `InStep` that a client is one record behind its stream at
most, and in `AtWork` that the active operation has a worker and a store that is open.

**HostActionProofs.** `GitInv` has the shape of the process tree (`Adopted`: a process
that lives descends from the supervisor, whatever dies in between) and follows Git's
end through the supervisor's report to the answer. `ApprovalInv` follows the order of
installation and teardown (`LaunchKept`, `AskedFirst`), says that an approved request
has one executor (`ExecutedOnce`) and counts executions, for which Close waits.
`CallsInv` counts permits and has the order in which a session's reader is joined, after
which no request arrives.

**LaunchProofs.** `ElectionInv`: an agent that listens owns the path, and whoever is
between its refused probe and its unlink has the lock while nobody listens.
`ImageInv`: what preparations and removals hold at each stage and what a removal's
count has told it, so that an object being unlinked has one remover and no holder.
`LaunchInv`: what a launch has acquired at each stage, and what the sandbox of each
attempt holds. `TerminalIsReturned` is proved from a stronger form, that a call which
has returned has left the terminal to no one but a payload that claimed it.
`PlanInv` says which checks a plan has passed by its phase, and that the mounts carried
out and those to come are the ones rendered from it. Lemmas below it say what it means
that paths lie apart, what a list of mounts shows at a place (the last one above it),
and, for each group of mounts, why no later group covers it: by a check of the assembly
or by the layout. A generated file is seen where it was written because the longest
backing above it is the last mount above it.

**StreamsProofs.** Each invariant says what a stage of a stream has seen: for the
gateway (`GatewayKept`) and the relay (`ConnKept`) which bytes are where once one end of
a direction is closed, for any number of bytes and connections; for the bridge that
only the last message may be unwritten and that the server has only what was
dispatched, and which events the cursor has passed (`EventIsCut`); for the sidecar what
its processes and its agent hold, also while a dead agent still has its files (`ProcessesKept`,
`HoldingsKept`) and who has the mutation lock that recovery takes.

**BackendProofs.** `ProviderInv` orders the revisions the reconcile loop goes through,
from the snapshot over what is loaded to what is served. `CaddyInv` orders the exit of
Caddy, the end of its dials and the removal of its directories. `ModelInv` has two
halves that share the callers. `ListInv`: whatever a cache holds began after the last
flush, and the flight it names is a caller that lists the models of this resource and,
if it is of the generation of the cache, began after that flush too; a flush therefore
has to advance the generation, not only to empty the cache. Who has joined waits for
the flight of the cache. `RouteInv`: the caller that starts a route is the one its
runtime names, and that runtime has no route yet, so that storing one overwrites none;
after shutdown there is no runtime, and a starter drops what it got.

The proofs found faults of the models. Three CASE expressions (in `Reconcile` and
`RevisionState` of ProviderGateway and `Cancel` of SandboxGateway) had guards that
overlap, which leaves the value open where TLC takes the first one; they now test in
the order of the code. And one property said too much: the binds of a sidecar or a
service are checked by name only, so that one whose name is a symbolic link into Toby's
storage shows it. `ProtectedStorageStaysPrivate` now says so, and the instance has one.

Only model-checked is what needs fairness or `ENABLED`, which are out of reach of the
prover: `RegistryProgresses`, `AgentProgresses`, `ReleasesComplete`,
`TeardownIsComplete`, `CancelledGitEnds`, `FollowersLearnTheOutcome`,
`RevocationReturns`, `GatewaySettles`, `ClientsConnect`, the second half of
`SignalsAreHandled` (a signal ends the launch) and the reaping in `CaddyIsContained`.

None of the modules uses recursion.

## 6. Where the code and its documentation disagree

Two runs check what a document says and are violated:

- `volume_removal`. A removal that opened a volume which another removal then deleted
  takes no lease, because `_data` is gone, and deletes by name the volume that a
  launch has published and leased since. `docs/management.md` says that a volume with
  an active lease is refused.
- `launch_unwind`. When the preparation of the storage fails, its named result is set
  to its zero value before the deferred close looks at it: what was opened until then
  stays open. `docs/architecture.md` says that every failure unwinds. The process ends
  soon after, which limits the harm.

Deviations that the models show or that were met on the way, and no run states:

- *Documents and comments.* A caller that is cancelled while it starts an MCP backend
  makes its cancellation the remembered failure of the resource
  (`resourcehandler/service.go:279`); the comment at `mcpgateway/start.go:41` promises a
  retry. A session can be called and asked to stop before the answer to its open is on
  the stream (`session_stream.go:77`, `docs/protocols.md:171`). A failed relay leaves
  its active streams alone (`relay_linux.go:213`), `set.go:65` says that it interrupts
  them. A tool that writes after its resource has ended gets success without the rest
  of the output (`sandboxgateway/service.go:195`, `docs/protocols.md:94`). The payload
  of a sidecar may run without its network for the moment between the end of a crashed
  agent's files and the kill of the sandbox: the gate is a pipe that its end releases
  (`background_process_linux.go:163`; `docs/architecture.md:584`).
- *Approvals and git.* `startExecution` reads its binding before it counts itself, so
  `Close` can return while an execution is still to come; `ActionsAreAuthorised` holds
  all the same. `runGit` reports 130 when its context ends after Git has finished,
  although the commit happened.
- *Volumes and images.* A launch that waits for the lease of a removal gets it on a
  directory that has lost its name. An image is removed in place: an interrupted removal
  leaves a root that is accepted as it is, or a directory that a later rename does not
  replace; directories `tmp/prepare-*` are never cleaned. `lockRecoveryParent` is said to
  exclude publishers until their final rename; they release the directory as soon as
  their stage has its own lock, which suffices (`PublicationIsSafe`).
- *Agent.* A late idle callback of the MCP handler may end a second idle period early; a
  byte stream may outlive its session; a session may be accepted between the decision
  that the agent is idle and its change of state, and is then asked to stop like any
  other. An agent that was launched while an old one was dying may take it for alive and
  exit; its client polls until its timeout.
- *Streams.* A connection that `fail` of the socket relay closes before its handler has
  published the upstream (`relay_linux.go:218`) keeps it open, and `Close` waits until the
  host ends it. An event stream that ends after the id of an event and before its data
  loses the event: the resume asks for what follows. A byte stream may be announced
  although its lease was released after the last check (`byte_stream.go:327`).
- *Gateways.* A rejected route that a newer revision overtakes is never reported to its
  waiter, a configuration that is too large is loaded again for ever, and the error of
  the caller that opens the gateway is that of everyone who joined it. Caddy's
  directories are closed one second after a failed `newInstance`, whatever its process
  does. `Lazy.get` of the sidecars returns neither a runtime nor an error when `Close`
  races the opening. The wait for another creator of an image operation ignores the
  context of its caller.
- *Launch.* The terminal is not taken back if the shim dies between claiming it and
  publishing its payload. Models with no usable endpoint call their once-only clean-up
  during start-up. A bind of a file is judged by the lineage of its parent.

## 7. What is not modelled

- *Pure data*: configuration parsing, merging and patching, tool descriptions, rendering
  of proxy configurations, canonical keys and hashes, encoding and validation of
  messages and arguments, formatting of the status display and of the command line.
- *Input and output*: pulling, building and extracting images, HTTP to providers and
  proxies, logging, the path safety of `safefs` (no symbolic links, no mount crossing)
  except where `SandboxPlan` depends on it, descriptor passing to Bubblewrap, seccomp.
- *Status display* and *Toby MCP server*: the one draws what it is given, the other
  translates tool calls into the host actions of Approvals.
- Within modelled components: `Close` of the agent server, which only tests call; the
  RPCs that only read; correlation identifiers; the tools of the built-in MCP server;
  I/O errors of the stores other than those that leave something behind; the order in
  which two entries of a directory are removed is any order; a Git supervisor that is
  itself killed, whose descendants go to init.

## 8. Plan

Done: every component of section 1, each with the run of its subject; the refinement
of the abstract pool; the proofs of all safety invariants of the runs. What is left is
type correctness of the modules whose invariants only type what their proofs need
(ModelResources counts callers and streams without bounding them below).
