--------------------------- MODULE ProviderGateway ---------------------------
(***************************************************************************)
(* The models gateway of the agent (internal/providergateway): acquires    *)
(* and releases of routes, the store of desired routes with its revisions, *)
(* the one reconcile goroutine that brings Caddy up to them, the relay     *)
(* that carries connections to the published Caddy generation, and the     *)
(* resolver that creates and shuts down the gateway.                       *)
(*                                                                         *)
(* Each backend asks for one route.  A route of Bad makes every            *)
(* configuration that contains it one Caddy rejects.  The condition        *)
(* variable `changed' is closed under the mutex with every change, so a    *)
(* wait is the guard it re-evaluates; the wake channel loses a signal only *)
(* when it holds one already.                                              *)
(***************************************************************************)
EXTENDS Naturals, FiniteSets

CONSTANTS Backends,
          Bad,              \* backends whose route Caddy rejects
          Conns,            \* connections to the relay
          MaxGenerations    \* Caddy processes started

ASSUME ProviderAssumption ==
  Bad \subseteq Backends /\ IsFiniteSet(Backends) /\ MaxGenerations \in Nat \ {0}

VARIABLES resolver,  \* gateway and its flight, closing, the shutdown
          gateway,   \* applied and failed revision, closing, terminal error, lifetime, wake
          routes,    \* routeStore: revision, token and a record per route
          loop,      \* the reconcile goroutine
          caddy,     \* the pool's Caddy generation and what it has loaded
          relay,     \* the published generation, closed
          request,   \* Backends -> an acquire
          backend,   \* Backends -> the acquired value
          link       \* Conns -> a relayed connection

providerVars == <<resolver, gateway, routes, loop, caddy, relay, request, backend, link>>

NewResolver == [gateway |-> "none", creator |-> {}, closing |-> FALSE, shutdown |-> "no"]
NewGateway ==
  [applied |-> 0, failed |-> 0, closing |-> FALSE, terminal |-> FALSE, lifetime |-> TRUE, wake |-> FALSE]
NewRoutes ==
  [revision |-> 0, token |-> 0,
   of |-> [b \in Backends |-> [state |-> "none", active |-> FALSE, removal |-> 0]]]
NewLoop == [pc |-> "none", revision |-> 0, snapshot |-> {}, gen |-> 0, loaded |-> 0, delay |-> FALSE]
NoGeneration == [gen |-> 0, alive |-> FALSE, config |-> {}, token |-> 0, shut |-> FALSE]
NewRelay == [target |-> 0, closed |-> FALSE]
NoRequest == [step |-> "idle", revision |-> 0, removal |-> 0, result |-> "none"]
NoBackend == [state |-> "none", removal |-> 0, result |-> "none"]
NoLink == [step |-> "none", gen |-> 0]

ProviderInit ==
  /\ resolver = NewResolver /\ gateway = NewGateway /\ routes = NewRoutes
  /\ loop = NewLoop /\ caddy = NoGeneration /\ relay = NewRelay
  /\ request = [b \in Backends |-> NoRequest]
  /\ backend = [b \in Backends |-> NoBackend]
  /\ link = [n \in Conns |-> NoLink]

----------------------------------------
(* The route store.                                                        *)

RouteDesired(b) == routes.of[b].state = "desired"
Desired == {b \in Backends : RouteDesired(b)}

AddRoute(b) ==
  routes' = [routes EXCEPT !.revision = @ + 1,
               !.of[b] = [state |-> "desired", active |-> FALSE, removal |-> 0]]

\* revoke returns the revision that removes the route, or the current one when
\* it is no longer desired.
RevokedRoute(b) ==
  IF RouteDesired(b)
    THEN [routes EXCEPT !.revision = @ + 1,
            !.of[b] = [state |-> "revoked", active |-> FALSE, removal |-> routes.revision + 1]]
    ELSE routes

\* confirm forgets the routes removed up to this revision; the store's own
\* confirmed revision is the gateway's applied one.
ConfirmedRoutes(revision) ==
  IF revision <= gateway.applied THEN routes
  ELSE [routes EXCEPT !.of = [b \in Backends |->
                    IF @[b].state = "revoked" /\ @[b].removal <= revision
                      THEN [@[b] EXCEPT !.state = "gone"] ELSE @[b]]]

\* A token that differs from the last one.
NewToken == (routes.token % 2) + 1

----------------------------------------
(* The reconcile goroutine.                                                *)

GenerationDone(g) == g # 0 /\ ~(caddy.alive /\ caddy.gen = g)
Unpublished(g) == [relay EXCEPT !.target = IF @ = g THEN 0 ELSE @]
Dropped(pc, delay) ==
  [pc |-> pc, revision |-> 0, snapshot |-> {}, gen |-> 0, loaded |-> 0, delay |-> delay]
Waits(delay) == [loop EXCEPT !.pc = "wait", !.revision = 0, !.snapshot = {}, !.delay = delay]

Exit ==
  /\ loop' = Dropped("done", FALSE)
  /\ relay' = Unpublished(loop.gen)

\* One turn up to the first blocking call: the lifetime, the generation, the
\* snapshot and the revision that failed.
Reconcile ==
  /\ loop.pc = "top"
  /\ \/ /\ ~gateway.lifetime /\ Exit
     \/ /\ gateway.lifetime
        /\ LET gone == GenerationDone(loop.gen)
               gen == IF gone THEN 0 ELSE loop.gen
               loaded == IF gone THEN 0 ELSE loop.loaded
               behind == routes.revision > gateway.applied \/ loaded # gen
               next ==
                 IF gateway.failed # 0 /\ gateway.failed = routes.revision THEN "wait"
                 ELSE IF Desired = {} THEN IF gen # 0 /\ behind THEN "unload" ELSE "empty"
                 ELSE IF gen = 0 THEN "acquire"
                 ELSE IF behind THEN "load" ELSE "wait"
               turn == [pc |-> next, revision |-> IF next = "wait" THEN 0 ELSE routes.revision,
                        snapshot |-> IF next = "wait" THEN {} ELSE Desired,
                        gen |-> gen, loaded |-> loaded, delay |-> FALSE]
           IN /\ loop' = turn
              /\ relay' = IF gone THEN Unpublished(loop.gen) ELSE relay
  /\ UNCHANGED <<resolver, gateway, routes, caddy, request, backend, link>>

\* waitReconcileEvent.
WaitEvent ==
  /\ loop.pc = "wait"
  /\ \/ ~gateway.lifetime /\ Exit /\ UNCHANGED gateway
     \/ /\ gateway.wake
        /\ gateway' = [gateway EXCEPT !.wake = FALSE]
        /\ loop' = [loop EXCEPT !.pc = "top"] /\ UNCHANGED relay
     \/ /\ GenerationDone(loop.gen) \/ loop.delay
        /\ loop' = [loop EXCEPT !.pc = "top"] /\ UNCHANGED <<relay, gateway>>
  /\ UNCHANGED <<resolver, routes, caddy, request, backend, link>>

\* Pool.Acquire gives a lease on the live generation or starts one; the new
\* generation gets a token of its own.
AcquireGeneration ==
  /\ loop.pc = "acquire" /\ gateway.lifetime /\ ~caddy.shut
  /\ caddy.alive \/ caddy.gen < MaxGenerations
  /\ caddy' = IF caddy.alive THEN caddy
              ELSE [caddy EXCEPT !.gen = @ + 1, !.alive = TRUE, !.config = {}, !.token = 0]
  /\ routes' = [routes EXCEPT !.token = NewToken]
  /\ loop' = [loop EXCEPT !.pc = "load", !.gen = caddy'.gen, !.loaded = 0]
  /\ UNCHANGED <<resolver, gateway, relay, request, backend, link>>

AcquireFails ==
  /\ loop.pc = "acquire"
  /\ loop' = Waits(TRUE)
  /\ UNCHANGED <<resolver, gateway, routes, caddy, relay, request, backend, link>>

Loading == loop.pc \in {"load", "unload"}
Loaded == [caddy EXCEPT !.config = loop.snapshot, !.token = routes.token]

LoadConfig ==
  /\ Loading /\ gateway.lifetime /\ ~GenerationDone(loop.gen) /\ loop.snapshot \cap Bad = {}
  /\ caddy' = Loaded
  /\ loop' = [loop EXCEPT !.pc = IF @ = "load" THEN "publish" ELSE "empty"]
  /\ UNCHANGED <<resolver, gateway, routes, relay, request, backend, link>>

\* ErrConfigurationRejected: recordReconcileFailure.
ConfigRejected ==
  /\ Loading /\ gateway.lifetime /\ ~GenerationDone(loop.gen) /\ loop.snapshot \cap Bad # {}
  /\ gateway' = [gateway EXCEPT !.failed = IF loop.revision >= @ THEN loop.revision ELSE @]
  /\ loop' = Waits(FALSE)
  /\ UNCHANGED <<resolver, routes, caddy, relay, request, backend, link>>

\* Any other failure is retried; Caddy may have taken the configuration.  A
\* generation that has loaded nothing yet is given up.
LoadFails ==
  /\ Loading
  /\ caddy' \in {caddy} \cup (IF ~GenerationDone(loop.gen) /\ loop.snapshot \cap Bad = {} THEN {Loaded} ELSE {})
  /\ IF loop.pc = "load" /\ loop.loaded # loop.gen
       THEN loop' = Dropped("wait", TRUE) /\ relay' = Unpublished(loop.gen)
       ELSE loop' = Waits(TRUE) /\ UNCHANGED relay
  /\ UNCHANGED <<resolver, gateway, routes, request, backend, link>>

\* relay.publish, which refuses a closed relay.
Publish ==
  /\ loop.pc = "publish"
  /\ IF loop.loaded # loop.gen /\ relay.closed
       THEN /\ gateway' = [gateway EXCEPT !.failed = IF loop.revision >= @ THEN loop.revision ELSE @]
            /\ loop' = Dropped("top", FALSE) /\ UNCHANGED relay
       ELSE /\ relay' = IF loop.loaded # loop.gen THEN [relay EXCEPT !.target = loop.gen] ELSE relay
            /\ loop' = [loop EXCEPT !.pc = "confirm", !.loaded = loop.gen]
            /\ UNCHANGED gateway
  /\ UNCHANGED <<resolver, routes, caddy, request, backend, link>>

\* Mutant: what is confirmed is the newest revision and not the one loaded.
ConfirmNewest(revision) ==
  /\ routes' = ConfirmedRoutes(routes.revision)
  /\ gateway' = [gateway EXCEPT !.applied = routes.revision, !.failed = 0]

Confirm(revision) ==
  /\ routes' = ConfirmedRoutes(revision)
  /\ gateway' = [gateway EXCEPT !.applied = IF revision > @ THEN revision ELSE @,
                                !.failed = IF @ <= revision THEN 0 ELSE @]

ConfirmLoad ==
  /\ loop.pc = "confirm"
  /\ Confirm(loop.revision)
  /\ loop' = Waits(FALSE)
  /\ UNCHANGED <<resolver, caddy, relay, request, backend, link>>

\* Without routes the generation is unpublished and its lease released.
ConfirmEmpty ==
  /\ loop.pc = "empty"
  /\ Confirm(loop.revision)
  /\ loop' = Dropped("wait", FALSE)
  /\ relay' = Unpublished(loop.gen)
  /\ UNCHANGED <<resolver, caddy, request, backend, link>>

\* The generation's process exits, or its idle period ends.
CaddyDies ==
  /\ caddy.alive /\ caddy.gen < MaxGenerations
  /\ caddy' = [caddy EXCEPT !.alive = FALSE]
  /\ UNCHANGED <<resolver, gateway, routes, loop, relay, request, backend, link>>

----------------------------------------
(* Resolver.gatewayFor.                                                    *)

Answer(b, result) ==
  request' = [request EXCEPT ![b] = [step |-> "returned", revision |-> 0, removal |-> 0, result |-> result]]

GatewayFor(b) ==
  /\ request[b].step \in {"idle", "out"}
  /\ \/ /\ resolver.closing /\ Answer(b, "error") /\ UNCHANGED resolver
     \/ /\ ~resolver.closing /\ resolver.gateway = "ready"
        /\ request' = [request EXCEPT ![b].step = "adding"] /\ UNCHANGED resolver
     \/ /\ ~resolver.closing /\ resolver.gateway = "none" /\ resolver.creator = {}
        /\ request' = [request EXCEPT ![b].step = "creating"]
        /\ resolver' = [resolver EXCEPT !.creator = {b}]
     \/ /\ ~resolver.closing /\ resolver.creator # {}
        /\ request' = [request EXCEPT ![b].step = "joining"] /\ UNCHANGED resolver
  /\ UNCHANGED <<gateway, routes, loop, caddy, relay, backend, link>>

\* The factory ends.  The gateway is kept even when the resolver is closing,
\* for the shutdown to find it; the flight's error is every joiner's error.
FlightEnds(b) ==
  /\ request[b].step = "creating"
  /\ \E created \in BOOLEAN :
       LET failed == ~created \/ resolver.closing
       IN /\ resolver' = [resolver EXCEPT !.creator = {}, !.gateway = IF created THEN "ready" ELSE @]
          /\ loop' = IF created THEN [loop EXCEPT !.pc = "top"] ELSE loop
          /\ request' = [c \in Backends |->
               CASE (c = b \/ request[c].step = "joining") /\ failed ->
                      [request[c] EXCEPT !.step = "returned", !.result = "error"]
                 [] c = b /\ ~failed -> [request[c] EXCEPT !.step = "adding"]
                 [] c # b /\ request[c].step = "joining" /\ ~failed -> [request[c] EXCEPT !.step = "out"]
                 [] OTHER -> request[c]]
  /\ UNCHANGED <<gateway, routes, caddy, relay, backend, link>>

----------------------------------------
(* Gateway.acquire.                                                        *)

AcquireChecked(b) ==
  /\ request[b].step = "adding"
  /\ IF gateway.closing THEN Answer(b, "error") ELSE request' = [request EXCEPT ![b].step = "routing"]
  /\ UNCHANGED <<resolver, gateway, routes, loop, caddy, relay, backend, link>>

\* The route is added although the gateway may be closing by now.
AcquireRoute(b) ==
  /\ request[b].step = "routing"
  /\ AddRoute(b)
  /\ request' = [request EXCEPT ![b].step = "signalling", ![b].revision = routes.revision + 1]
  /\ UNCHANGED <<resolver, gateway, loop, caddy, relay, backend, link>>

\* Mutant: the reconcile goroutine is not woken.
Unsignalled(b) ==
  /\ request[b].step = "signalling"
  /\ request' = [request EXCEPT ![b].step = "waiting"]
  /\ UNCHANGED <<resolver, gateway, routes, loop, caddy, relay, backend, link>>

AcquireSignals(b) ==
  /\ request[b].step = "signalling"
  /\ gateway' = [gateway EXCEPT !.wake = TRUE]
  /\ request' = [request EXCEPT ![b].step = "waiting"]
  /\ UNCHANGED <<resolver, routes, loop, caddy, relay, backend, link>>

\* What waitRevision finds for a revision; "wait" until something changes.
RevisionState(revision) ==
  IF gateway.applied >= revision THEN "applied"
  ELSE IF gateway.terminal THEN "error"
  ELSE IF gateway.failed = revision THEN "failed"
  ELSE IF gateway.closing THEN "error" ELSE "wait"

\* waitRevision, activate; every failure rolls the route back.
WaitRevision(b) ==
  /\ request[b].step = "waiting"
  /\ RevisionState(request[b].revision) # "wait"
  /\ IF RevisionState(request[b].revision) = "applied" /\ RouteDesired(b)
       THEN /\ routes' = [routes EXCEPT !.of[b].active = TRUE]
            /\ request' = [request EXCEPT ![b].step = "activated"]
       ELSE /\ request' = [request EXCEPT ![b].step = "rollback"] /\ UNCHANGED routes
  /\ UNCHANGED <<resolver, gateway, loop, caddy, relay, backend, link>>

CancelAcquire(b) ==
  /\ request[b].step = "waiting"
  /\ request' = [request EXCEPT ![b].step = "rollback"]
  /\ UNCHANGED <<resolver, gateway, routes, loop, caddy, relay, backend, link>>

Register(b) ==
  /\ request[b].step = "activated"
  /\ IF gateway.closing
       THEN request' = [request EXCEPT ![b].step = "rollback"] /\ UNCHANGED backend
       ELSE /\ Answer(b, "ok")
            /\ backend' = [backend EXCEPT ![b].state = "held"]
  /\ UNCHANGED <<resolver, gateway, routes, loop, caddy, relay, link>>

Rollback(b) ==
  /\ request[b].step = "rollback"
  /\ routes' = RevokedRoute(b)
  /\ gateway' = [gateway EXCEPT !.wake = TRUE]
  /\ request' = [request EXCEPT ![b].step = "removing", ![b].revision = 0, ![b].removal = RevokedRoute(b).revision]
  /\ UNCHANGED <<resolver, loop, caddy, relay, backend, link>>

\* waitRemoval: the removal of a rejected revision is tried again.
RemovalRetries(revision) ==
  /\ RevisionState(revision) = "failed" /\ ~gateway.closing
  /\ gateway' = [gateway EXCEPT !.failed = 0, !.wake = TRUE]

RemovalEnds(revision) ==
  \/ RevisionState(revision) \in {"applied", "error"}
  \/ RevisionState(revision) = "failed" /\ gateway.closing

\* The rollback returns when the removal has been applied, or gives up after
\* the cleanup timeout.
RolledBack(b) ==
  /\ request[b].step = "removing"
  /\ \/ RemovalRetries(request[b].removal) /\ UNCHANGED request
     \/ RemovalEnds(request[b].removal) /\ Answer(b, "error") /\ UNCHANGED gateway
  /\ UNCHANGED <<resolver, routes, loop, caddy, relay, backend, link>>

RollbackTimesOut(b) ==
  /\ request[b].step = "removing"
  /\ Answer(b, "error")
  /\ UNCHANGED <<resolver, gateway, routes, loop, caddy, relay, backend, link>>

----------------------------------------
(* acquired.Revoke and Release.                                            *)

Revoke(b) ==
  /\ backend[b].state = "held"
  /\ routes' = RevokedRoute(b)
  /\ gateway' = [gateway EXCEPT !.wake = TRUE]
  /\ backend' = [backend EXCEPT ![b].state = "revoked", ![b].removal = RevokedRoute(b).revision]
  /\ UNCHANGED <<resolver, loop, caddy, relay, request, link>>

ReleaseBackend(b) ==
  /\ backend[b].state = "revoked"
  /\ backend' = IF gateway.closing
                  THEN [backend EXCEPT ![b].state = "released", ![b].removal = 0, ![b].result = "closing"]
                  ELSE [backend EXCEPT ![b].state = "releasing"]
  /\ UNCHANGED <<resolver, gateway, routes, loop, caddy, relay, request, link>>

FinishRelease(b) ==
  /\ backend[b].state = "releasing"
  /\ \/ RemovalRetries(backend[b].removal) /\ UNCHANGED backend
     \/ /\ RemovalEnds(backend[b].removal)
        /\ backend' = [backend EXCEPT ![b].state = "released", ![b].removal = 0,
             ![b].result = IF RevisionState(backend[b].removal) = "applied" THEN "ok" ELSE "error"]
        /\ UNCHANGED gateway
  /\ UNCHANGED <<resolver, routes, loop, caddy, relay, request, link>>

ReleaseTimesOut(b) ==
  /\ backend[b].state = "releasing"
  /\ backend' = [backend EXCEPT ![b].state = "released", ![b].removal = 0, ![b].result = "error"]
  /\ UNCHANGED <<resolver, gateway, routes, loop, caddy, relay, request, link>>

----------------------------------------
(* The relay's connections.                                                *)

\* relay.serve accepts with the target of the moment, or closes the client.
AcceptLink(n) ==
  /\ link[n].step = "none" /\ ~relay.closed /\ relay.target # 0
  /\ link' = [link EXCEPT ![n] = [step |-> "accepted", gen |-> relay.target]]
  /\ UNCHANGED <<resolver, gateway, routes, loop, caddy, relay, request, backend>>

\* OpenConnector needs the lease of the gateway, the dial a live process, the
\* registration an open relay.
ConnectLink(n) ==
  /\ link[n].step = "accepted"
  /\ link' = [link EXCEPT ![n].step =
       IF loop.gen = link[n].gen /\ ~GenerationDone(link[n].gen) /\ ~relay.closed THEN "relaying" ELSE "closed"]
  /\ UNCHANGED <<resolver, gateway, routes, loop, caddy, relay, request, backend>>

\* A peer ends, the connector's generation is done or the relay is closed.
CloseLink(n) ==
  /\ link[n].step = "relaying"
  /\ link' = [link EXCEPT ![n].step = "closed"]
  /\ UNCHANGED <<resolver, gateway, routes, loop, caddy, relay, request, backend>>

LinkMustClose(n) == GenerationDone(link[n].gen) \/ relay.closed

----------------------------------------
(* Failure and shutdown.                                                   *)

\* watchRelay and watchAuthorization: the accept loop or the authorization
\* server has stopped on its own.
GatewayFails ==
  /\ resolver.gateway = "ready" /\ ~gateway.closing
  /\ gateway' = [gateway EXCEPT !.closing = TRUE, !.terminal = TRUE, !.lifetime = FALSE, !.wake = TRUE]
  /\ UNCHANGED <<resolver, routes, loop, caddy, relay, request, backend, link>>

Goes(step) == resolver' = [resolver EXCEPT !.shutdown = step]

ShutdownResolver ==
  /\ resolver.shutdown = "no"
  /\ resolver' = [resolver EXCEPT !.closing = TRUE, !.shutdown = "joining"]
  /\ UNCHANGED <<gateway, routes, loop, caddy, relay, request, backend, link>>

\* finishShutdown waits for the flight; Gateway.Shutdown then sets closing.
ShutdownGateway ==
  /\ resolver.shutdown = "joining" /\ resolver.creator = {}
  /\ IF resolver.gateway = "ready"
       THEN /\ Goes("revoking") /\ gateway' = [gateway EXCEPT !.closing = TRUE]
       ELSE Goes("done") /\ UNCHANGED gateway
  /\ UNCHANGED <<routes, loop, caddy, relay, request, backend, link>>

\* Every active value is revoked; then the lifetime ends.  The releases that
\* follow do not wait, for the gateway is closing.
CancelLifetime ==
  /\ resolver.shutdown = "revoking"
  /\ \A b \in Backends : backend[b].state # "held"
  /\ gateway' = [gateway EXCEPT !.lifetime = FALSE, !.wake = TRUE]
  /\ Goes("closing")
  /\ UNCHANGED <<routes, loop, caddy, relay, request, backend, link>>

CloseRelay ==
  /\ resolver.shutdown = "closing" /\ ~relay.closed
  /\ relay' = [target |-> 0, closed |-> TRUE]
  /\ UNCHANGED <<resolver, gateway, routes, loop, caddy, request, backend, link>>

\* After the reconcile goroutine the pool is shut down and the authorization
\* server closed.
ShutdownPool ==
  /\ resolver.shutdown = "closing" /\ relay.closed /\ loop.pc = "done"
  /\ caddy' = [caddy EXCEPT !.alive = FALSE, !.shut = TRUE]
  /\ Goes("done")
  /\ UNCHANGED <<gateway, routes, loop, relay, request, backend, link>>

----------------------------------------
LoopStep == Reconcile \/ WaitEvent \/ AcquireFails \/ ConfigRejected \/ LoadFails \/ Publish
            \/ ConfirmLoad \/ ConfirmEmpty
AcquireStep(b) == (GatewayFor(b) /\ request[b].step = "out") \/ FlightEnds(b) \/ AcquireChecked(b)
                  \/ AcquireRoute(b) \/ AcquireSignals(b) \/ WaitRevision(b) \/ Register(b)
                  \/ Rollback(b) \/ RolledBack(b)
TimeoutStep(b) == RollbackTimesOut(b) \/ ReleaseTimesOut(b)
ReleaseStep(b) == ReleaseBackend(b) \/ FinishRelease(b)
LinkStep(n) == ConnectLink(n) \/ (CloseLink(n) /\ LinkMustClose(n))
ShutdownStep == ShutdownGateway \/ CancelLifetime \/ CloseRelay \/ ShutdownPool

ProviderNext ==
  \/ LoopStep \/ AcquireGeneration \/ LoadConfig \/ CaddyDies \/ GatewayFails
  \/ ShutdownResolver \/ ShutdownStep
  \/ \E b \in Backends : GatewayFor(b) \/ AcquireStep(b) \/ CancelAcquire(b) \/ ReleaseStep(b) \/ TimeoutStep(b) \/ Revoke(b)
  \/ \E n \in Conns : AcceptLink(n) \/ ConnectLink(n) \/ CloseLink(n)

\* The goroutines run, timeouts elapse, and Caddy starts and takes a
\* configuration it does not reject when it is asked often enough.  Nobody has
\* to acquire, cancel, revoke, connect or shut down.
ProviderFairness ==
  /\ WF_providerVars(LoopStep) /\ SF_providerVars(AcquireGeneration) /\ SF_providerVars(LoadConfig)
  /\ WF_providerVars(ShutdownStep)
  /\ \A b \in Backends :
       /\ WF_providerVars(AcquireStep(b)) /\ WF_providerVars(ReleaseStep(b)) /\ WF_providerVars(TimeoutStep(b))
       /\ WF_providerVars(resolver.shutdown = "revoking" /\ Revoke(b))
  /\ \A n \in Conns : WF_providerVars(LinkStep(n))

ProviderSpec == ProviderInit /\ [][ProviderNext]_providerVars /\ ProviderFairness

----------------------------------------
(* Properties.                                                             *)

Serving == relay.target # 0 /\ ~GenerationDone(relay.target)

\* While a backend holds its route, a connection the relay would carry now is
\* answered: the published Caddy has the route in its configuration, asks with
\* the current token and the authorization knows the route as active.
HeldRoutesAreServed ==
  Serving => \A b \in Backends : backend[b].state = "held" =>
    b \in caddy.config /\ caddy.token = routes.token /\ routes.of[b].active

\* A release that has succeeded leaves no trace: the published Caddy no longer
\* holds the route, nor the upstream credentials in it.
ReleasedRoutesAreUnloaded ==
  Serving => \A b \in Backends : backend[b].result = "ok" => b \notin caddy.config

\* What the published Caddy serves is what is held: no more and no less, over
\* loads that are overtaken, rejected or repeated (Confirm, apply).
RoutesAreCurrent == HeldRoutesAreServed /\ ReleasedRoutesAreUnloaded

\* An acquire is answered unless a configuration Caddy rejects stays desired.
AcquiresAreAnswered ==
  \A b \in Backends :
    request[b].step \notin {"idle", "returned"} ~>
      request[b].step = "returned" \/ \E c \in Bad : RouteDesired(c)

\* Shutdown ends whatever the gateway is doing - creating, loading, retrying,
\* rolling back, or failed already - and leaves no Caddy, no active route and
\* no relayed connection.
ProviderShutdownCompletes ==
  resolver.shutdown = "joining" ~>
    /\ resolver.shutdown = "done" /\ ~caddy.alive
    /\ \A b \in Backends : ~routes.of[b].active
    /\ \A n \in Conns : link[n].step # "relaying"

\* Nobody waits for the gateway for ever: acquires are answered and Shutdown
\* returns, whatever loads, retries or hangs at that time.
GatewaySettles == AcquiresAreAnswered /\ ProviderShutdownCompletes
=============================================================================
