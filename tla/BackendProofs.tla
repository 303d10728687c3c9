---------------------------- MODULE BackendProofs ----------------------------
(***************************************************************************)
(* Proofs about the models gateway: what the published Caddy serves is     *)
(* what the routes say, Caddy's directories stay as long as it does, and   *)
(* the handler in front of them loses no route and lists nothing stale.    *)
(***************************************************************************)
EXTENDS ProviderGateway, CaddyProcess, ModelResources, Integers, TLAPS

----------------------------------------
(* The routes.                                                             *)

RouteLife == {"none", "desired", "revoked", "gone"}
Route == [state : RouteLife, active : BOOLEAN, removal : Nat]
LoopSteps == {"none", "top", "wait", "acquire", "load", "unload", "publish", "confirm", "empty",
              "done"}
Requesting == {"idle", "out", "creating", "joining", "adding", "routing"}
RequestSteps ==
  Requesting \cup {"signalling", "waiting", "activated", "rollback", "removing", "returned"}
Request == [step : RequestSteps, revision : Nat, removal : Nat,
            result : {"none", "ok", "error"}]
Value == [state : {"none", "held", "revoked", "releasing", "released"}, removal : Nat,
          result : {"none", "ok", "error", "closing"}]

GatewayType == [applied : Nat, failed : Nat, closing : BOOLEAN, terminal : BOOLEAN,
                lifetime : BOOLEAN, wake : BOOLEAN]
RoutesType == [revision : Nat, token : Nat, of : [Backends -> Route]]
LoopType == [pc : LoopSteps, revision : Nat, snapshot : SUBSET Backends, gen : Nat,
             loaded : Nat, delay : BOOLEAN]
CaddyType == [gen : Nat, alive : BOOLEAN, config : SUBSET Backends, token : Nat,
              shut : BOOLEAN]
RelayType == [target : Nat, closed : BOOLEAN]

ProviderTypeOK ==
  /\ gateway \in GatewayType
  /\ routes \in RoutesType
  /\ loop \in LoopType
  /\ caddy \in CaddyType
  /\ relay \in RelayType
  /\ request \in [Backends -> Request]
  /\ backend \in [Backends -> Value]

\* The steps of the loop that work on a snapshot.
Working == {"acquire", "load", "unload", "publish", "confirm", "empty"}

\* The revisions and generations the loop goes through are in order.
LoopInOrder ==
  /\ gateway.applied <= routes.revision
  /\ loop.pc \in Working =>
       gateway.applied <= loop.revision /\ loop.revision <= routes.revision
  /\ loop.pc = "acquire" => loop.gen = 0
  /\ loop.pc \in {"load", "unload", "publish", "confirm"} => loop.gen # 0
  /\ relay.target # 0 => loop.gen = relay.target /\ loop.loaded = relay.target
  /\ caddy.alive => caddy.gen # 0

\* A set of routes has every route that was desired at a revision and still is,
\* and none that was removed by then.
Reflects(set, revision) ==
  \A b \in Backends :
    /\ RouteDesired(b) /\ request[b].revision <= revision => b \in set
    /\ routes.of[b].state \in {"revoked", "gone"} /\ routes.of[b].removal <= revision
         => b \notin set

Configured(revision) == Reflects(caddy.config, revision) /\ caddy.token = routes.token

SnapshotIsCurrent == loop.pc \in Working => Reflects(loop.snapshot, loop.revision)
LoadedIsCurrent ==
  loop.pc \in {"publish", "confirm"} /\ ~GenerationDone(loop.gen) => Configured(loop.revision)
ServedIsCurrent == Serving => Configured(gateway.applied)

\* A route is its backend's: who holds it or is about to has it active, and who
\* gave it back knows the revision that removed it.
Owned(b) ==
  /\ request[b].step \in Requesting =>
       routes.of[b].state = "none" /\ backend[b].state = "none"
  /\ request[b].step = "activated" =>
       RouteDesired(b) /\ routes.of[b].active /\ request[b].revision <= gateway.applied
  /\ request[b].step = "removing" => ~RouteDesired(b)
  /\ backend[b].state # "none" => request[b].step = "returned"
  /\ backend[b].state = "held" =>
       RouteDesired(b) /\ routes.of[b].active /\ request[b].revision = 0
  /\ backend[b].state \in {"revoked", "releasing"} =>
       /\ routes.of[b].state \in {"revoked", "gone"}
       /\ routes.of[b].removal = backend[b].removal
  /\ backend[b].result = "ok" =>
       /\ backend[b].state = "released" /\ routes.of[b].state \in {"revoked", "gone"}
       /\ routes.of[b].removal <= gateway.applied

RoutesOwned == \A b \in Backends : Owned(b)

ProviderInv ==
  /\ ProviderTypeOK /\ LoopInOrder
  /\ SnapshotIsCurrent /\ LoadedIsCurrent /\ ServedIsCurrent /\ RoutesOwned

----------------------------------------
(* Caddy.                                                                  *)

\* A process belongs to an instance once its start has made one, and the
\* instance closes the directories when the process is gone and nobody reads.
CaddyInv ==
  /\ inst \in [proc : {"none", "running", "exited"}, dirs : {"none", "open", "closed"},
               wait : {"none", "waiting", "closing", "locking", "done"}, gaveUp : BOOLEAN]
  /\ dial \in [Dialers -> {"none", "locking", "dialing", "ended", "failed"}]
  /\ inst.wait # "none" <=> start \in {"probing", "ready", "unready"}
  /\ inst.wait \in {"closing", "locking", "done"} => inst.proc = "exited"
  /\ inst.dirs = "closed" => inst.wait = "done" \/ start = "failed"
  /\ start = "failed" => inst.proc # "running" \/ inst.gaveUp
  /\ start \in {"none", "assembling"} => inst.proc = "none"
  /\ load # "none" \/ (\E d \in Dialers : dial[d] # "none") => start = "ready"
  /\ stop # "none" => start \in {"unready", "ready"}
  /\ inst.wait = "done" => load # "verifying" /\ \A d \in Dialers : dial[d] # "dialing"

\* Acquires, revokes and releases: a route that is added or removed is so at a
\* revision the loop has not seen.
RouteKept(b) ==
  /\ RouteDesired(b)' =>
       \/ /\ RouteDesired(b)
          /\ request[b]'.revision = request[b].revision \/ request[b].revision <= gateway.applied
       \/ request[b]'.revision > routes.revision
  /\ routes'.of[b].state \in {"revoked", "gone"} =>
       \/ /\ routes.of[b].state \in {"revoked", "gone"}
          /\ routes'.of[b].removal = routes.of[b].removal
       \/ routes'.of[b].removal > routes.revision

LEMMA RequestsGo ==
  ASSUME ProviderInv, ProviderTypeOK', UNCHANGED <<caddy, relay>>,
         loop' = loop \/ loop' = [loop EXCEPT !.pc = "top"],
         gateway'.applied = gateway.applied,
         routes'.token = routes.token, routes'.revision >= routes.revision,
         \A b \in Backends : RouteKept(b) /\ Owned(b)'
  PROVE  ProviderInv'
<1>a. loop \in LoopType BY DEF ProviderInv, ProviderTypeOK
<1>b. /\ loop'.gen = loop.gen /\ loop'.loaded = loop.loaded
      /\ loop'.pc # "top" => loop' = loop
  BY <1>a DEF LoopType
<1>0. /\ gateway.applied \in Nat /\ routes.revision \in Nat /\ routes'.revision \in Nat
      /\ loop.revision \in Nat
      /\ \A b \in Backends : request[b].revision \in Nat /\ routes.of[b].removal \in Nat
      /\ \A b \in Backends : request'[b].revision \in Nat /\ routes'.of[b].removal \in Nat
  BY DEF ProviderInv, ProviderTypeOK, Request, Route, GatewayType, RoutesType, LoopType
<1>1. LoopInOrder'
  BY <1>0, <1>b DEF ProviderInv, LoopInOrder, Working
<1>2. ASSUME NEW set, NEW r \in Nat, gateway.applied <= r, r <= routes.revision, Reflects(set, r)
      PROVE  \A b \in Backends :
               /\ RouteDesired(b)' /\ request'[b].revision <= r => b \in set
               /\ routes'.of[b].state \in {"revoked", "gone"} /\ routes'.of[b].removal <= r
                    => b \notin set
  BY <1>0, <1>2 DEF Reflects, RouteKept
<1>3. SnapshotIsCurrent'
  BY <1>0, <1>2, <1>b DEF ProviderInv, SnapshotIsCurrent, LoopInOrder, Reflects, Working
<1>4. LoadedIsCurrent'
  BY <1>0, <1>2, <1>b DEF ProviderInv, LoadedIsCurrent, LoopInOrder, Configured, Reflects,
    GenerationDone, Working
<1>5. ServedIsCurrent'
  <2> SUFFICES ASSUME Serving' PROVE Configured(gateway.applied)'
    BY DEF ServedIsCurrent
  <2>1. Serving
    BY DEF Serving, GenerationDone
  <2>2. Configured(gateway.applied)
    BY <2>1 DEF ProviderInv, ServedIsCurrent
  <2>3. gateway.applied <= routes.revision /\ gateway.applied <= gateway.applied
    BY <1>0 DEF ProviderInv, LoopInOrder
  <2> QED BY <1>0, <1>2, <2>2, <2>3 DEF Configured, Reflects
<1> QED BY <1>1, <1>3, <1>4, <1>5 DEF ProviderInv, RoutesOwned

\* A step of one of them leaves the others as they are.
LEMMA RequestGoes ==
  ASSUME ProviderInv, ProviderTypeOK', UNCHANGED <<caddy, relay>>,
         loop' = loop \/ loop' = [loop EXCEPT !.pc = "top"],
         gateway'.applied = gateway.applied,
         routes'.token = routes.token, routes'.revision >= routes.revision,
         NEW b \in Backends,
         \A c \in Backends \ {b} :
           request'[c] = request[c] /\ backend'[c] = backend[c] /\ routes'.of[c] = routes.of[c],
         RouteKept(b), Owned(b)'
  PROVE  ProviderInv'
<1>1. ASSUME NEW c \in Backends \ {b} PROVE RouteKept(c) /\ Owned(c)'
  BY <1>1 DEF ProviderInv, RoutesOwned, Owned, RouteKept, RouteDesired
<1> QED BY <1>1, RequestsGo

----------------------------------------
(* The requests and the backends, action by action.                        *)

\* An answer is a request of its own shape.
LEMMA AnswerTyped ==
  ASSUME request \in [Backends -> Request], NEW b \in Backends,
         NEW result \in {"none", "ok", "error"}, Answer(b, result)
  PROVE  /\ request' \in [Backends -> Request]
         /\ request'[b] = [step |-> "returned", revision |-> 0, removal |-> 0, result |-> result]
         /\ \A c \in Backends \ {b} : request'[c] = request[c]
  BY DEF Answer, Request, RequestSteps

\* A revocation changes a desired route, at a revision of its own, or nothing.
LEMMA RouteRevoked ==
  ASSUME routes \in RoutesType, NEW b \in Backends, routes' = RevokedRoute(b)
  PROVE  /\ routes' \in RoutesType /\ ~RouteDesired(b)'
         /\ routes'.token = routes.token
         /\ \A c \in Backends \ {b} : routes'.of[c] = routes.of[c]
         /\ \/ ~RouteDesired(b) /\ routes' = routes
            \/ /\ RouteDesired(b) /\ routes'.revision = routes.revision + 1
               /\ routes'.of[b].state = "revoked" /\ routes'.of[b].removal = routes'.revision
<1>1. CASE RouteDesired(b)
  <2> DEFINE gone == [state |-> "revoked", active |-> FALSE, removal |-> routes.revision + 1]
  <2>1. routes.revision + 1 \in Nat BY DEF RoutesType
  <2>2. gone \in Route BY <2>1 DEF Route, RouteLife
  <2>3. routes' = [routes EXCEPT !.revision = @ + 1, !.of[b] = gone]
    BY <1>1 DEF RevokedRoute
  <2>4. gone.state = "revoked" /\ gone.removal = routes.revision + 1
    OBVIOUS
  <2> HIDE DEF gone
  <2>5. /\ routes'.of = [routes.of EXCEPT ![b] = gone] /\ routes'.revision = routes.revision + 1
        /\ routes'.token = routes.token
    BY <2>3 DEF RoutesType
  <2>a. routes.of \in [Backends -> Route] BY DEF RoutesType
  <2>b. routes'.of \in [Backends -> Route] BY <2>2, <2>5, <2>a
  <2>7. routes' \in RoutesType BY <2>1, <2>3, <2>5, <2>b DEF RoutesType
  <2>6. routes'.of[b] = gone /\ \A c \in Backends \ {b} : routes'.of[c] = routes.of[c]
    BY <2>5 DEF RoutesType
  <2> QED BY <1>1, <2>4, <2>5, <2>6, <2>7 DEF RouteDesired
<1>2. CASE ~RouteDesired(b)
  BY <1>2 DEF RevokedRoute, RouteDesired
<1> QED BY <1>1, <1>2

\* A removal that is tried again forgets the failure and wakes the loop.
LEMMA RetryTyped ==
  ASSUME gateway \in GatewayType, NEW r, RemovalRetries(r)
  PROVE  gateway' \in GatewayType /\ gateway'.applied = gateway.applied
  BY DEF RemovalRetries, GatewayType

\* gatewayFor: an answer, a flight or a wait for it.
LEMMA GatewayForKeeps ==
  ASSUME ProviderInv, NEW b \in Backends, GatewayFor(b)
  PROVE  ProviderInv'
<1> USE DEF ProviderInv
<1>1. /\ request' \in [Backends -> Request]
      /\ request'[b].step \in Requesting \cup {"returned"}
      /\ \A c \in Backends \ {b} : request'[c] = request[c]
  <2>1. CASE Answer(b, "error")
    BY <2>1, AnswerTyped DEF ProviderTypeOK
  <2>2. CASE \E step \in Requesting : request' = [request EXCEPT ![b].step = step]
    BY <2>2 DEF ProviderTypeOK, Request, RequestSteps
  <2> QED BY <2>1, <2>2 DEF GatewayFor, Requesting
<1>2. UNCHANGED <<gateway, routes, loop, caddy, relay, backend>>
  BY DEF GatewayFor
<1>3. ProviderTypeOK'
  BY <1>1, <1>2 DEF ProviderTypeOK
<1>4. request[b].step \in Requesting /\ routes.of[b].state = "none" /\ backend[b].state = "none"
  BY DEF GatewayFor, Requesting, RoutesOwned, Owned
<1>5. RouteKept(b)
  BY <1>2, <1>4 DEF RouteKept, RouteDesired
<1>6. Owned(b)'
  BY <1>1, <1>2, <1>4 DEF RoutesOwned, Owned, Requesting
<1>7. routes'.revision >= routes.revision
  BY <1>2 DEF ProviderTypeOK, RoutesType
<1> QED BY <1>1, <1>2, <1>3, <1>5, <1>6, <1>7, RequestGoes

\* The flight's end: the creator, and those who joined it, go on or give up.
LEMMA FlightEndsKeeps ==
  ASSUME ProviderInv, NEW b \in Backends, FlightEnds(b)
  PROVE  ProviderInv'
<1> USE DEF ProviderInv
<1>1. /\ UNCHANGED <<gateway, routes, caddy, relay, backend>>
      /\ loop' = loop \/ loop' = [loop EXCEPT !.pc = "top"]
  BY DEF FlightEnds
<1>2. ASSUME NEW c \in Backends
      PROVE  \/ request'[c] = request[c]
             \/ /\ request[c].step \in Requesting
                /\ \/ request'[c] = [request[c] EXCEPT !.step = "returned", !.result = "error"]
                   \/ request'[c] = [request[c] EXCEPT !.step = "adding"]
                   \/ request'[c] = [request[c] EXCEPT !.step = "out"]
  BY DEF FlightEnds, Requesting
<1>3. ASSUME NEW c \in Backends
      PROVE  /\ request'[c] \in Request /\ request'[c].revision = request[c].revision
             /\ \/ request'[c] = request[c]
                \/ request[c].step \in Requesting /\ request'[c].step \in Requesting \cup {"returned"}
  <2>1. request[c] \in Request BY DEF ProviderTypeOK
  <2> QED BY ZenonT(60), <1>2, <2>1 DEF Request, RequestSteps, Requesting
<1>4. \E f : request' = [c \in Backends |-> f[c]]
  <2>1. PICK created \in BOOLEAN :
          LET failed == ~created \/ resolver.closing
          IN  request' = [c \in Backends |->
             CASE (c = b \/ request[c].step = "joining") /\ failed ->
                    [request[c] EXCEPT !.step = "returned", !.result = "error"]
               [] c = b /\ ~failed -> [request[c] EXCEPT !.step = "adding"]
               [] c # b /\ request[c].step = "joining" /\ ~failed -> [request[c] EXCEPT !.step = "out"]
               [] OTHER -> request[c]]
    BY DEF FlightEnds
  <2>2. request' = [c \in Backends |-> request'[c]]
    BY <2>1
  <2> QED BY <2>2
<1>5. request' \in [Backends -> Request]
  BY <1>3, <1>4
<1>6. loop' \in LoopType
  BY <1>1 DEF ProviderTypeOK, LoopType, LoopSteps
<1>7. ProviderTypeOK'
  BY <1>1, <1>5, <1>6 DEF ProviderTypeOK
<1>8. ASSUME NEW c \in Backends PROVE RouteKept(c) /\ Owned(c)'
  BY <1>1, <1>3 DEF RoutesOwned, Owned, RouteKept, RouteDesired, Requesting
<1>9. routes'.revision >= routes.revision
  BY <1>1 DEF ProviderTypeOK, RoutesType
<1> QED BY <1>1, <1>7, <1>8, <1>9, RequestsGo

\* acquire: the check and the signal around the route.
LEMMA AcquireCheckedKeeps ==
  ASSUME ProviderInv, NEW b \in Backends, AcquireChecked(b)
  PROVE  ProviderInv'
<1> USE DEF ProviderInv
<1>1. /\ UNCHANGED <<gateway, routes, loop, caddy, relay, backend>>
      /\ routes.of[b].state = "none" /\ backend[b].state = "none"
  BY DEF AcquireChecked, Requesting, RoutesOwned, Owned
<1>2. /\ request' \in [Backends -> Request] /\ request'[b].step \in {"returned", "routing"}
      /\ \A c \in Backends \ {b} : request'[c] = request[c]
  <2>1. CASE Answer(b, "error")
    BY <2>1, AnswerTyped DEF ProviderTypeOK
  <2>2. CASE request' = [request EXCEPT ![b].step = "routing"]
    BY <2>2 DEF ProviderTypeOK, Request, RequestSteps, Requesting
  <2> QED BY <2>1, <2>2 DEF AcquireChecked
<1>3. ProviderTypeOK' /\ routes'.revision >= routes.revision
  BY <1>1, <1>2 DEF ProviderTypeOK, RoutesType
<1>4. RouteKept(b) /\ Owned(b)'
  BY <1>1, <1>2 DEF RouteKept, RouteDesired, RoutesOwned, Owned, Requesting
<1> QED BY <1>1, <1>2, <1>3, <1>4, RequestGoes

LEMMA AcquireSignalsKeeps ==
  ASSUME ProviderInv, NEW b \in Backends, AcquireSignals(b)
  PROVE  ProviderInv'
<1> USE DEF ProviderInv
<1>1. /\ UNCHANGED <<routes, loop, caddy, relay, backend>>
      /\ request[b].step = "signalling" /\ backend[b].state = "none"
      /\ gateway' = [gateway EXCEPT !.wake = TRUE]
  BY DEF AcquireSignals, RoutesOwned, Owned
<1>2. /\ request' \in [Backends -> Request] /\ request'[b].step = "waiting"
      /\ request'[b].revision = request[b].revision
      /\ \A c \in Backends \ {b} : request'[c] = request[c]
  BY DEF AcquireSignals, ProviderTypeOK, Request, RequestSteps
<1>3. gateway' \in GatewayType /\ gateway'.applied = gateway.applied
  BY <1>1 DEF ProviderTypeOK, GatewayType
<1>4. ProviderTypeOK' /\ routes'.revision >= routes.revision
  BY <1>1, <1>2, <1>3 DEF ProviderTypeOK, RoutesType
<1>5. RouteKept(b) /\ Owned(b)'
  BY <1>1, <1>2, <1>3 DEF RouteKept, RouteDesired, RoutesOwned, Owned, Requesting
<1> QED BY <1>1, <1>2, <1>3, <1>4, <1>5, RequestGoes

\* acquire adds the route at a revision of its own.
LEMMA AcquireRouteKeeps ==
  ASSUME ProviderInv, NEW b \in Backends, AcquireRoute(b)
  PROVE  ProviderInv'
<1> USE DEF ProviderInv
<1>1. UNCHANGED <<gateway, loop, caddy, relay, backend>>
  BY DEF AcquireRoute
<1>2. routes.of[b].state = "none" /\ backend[b].state = "none"
  BY DEF AcquireRoute, Requesting, RoutesOwned, Owned
<1>3. /\ AddRoute(b)
      /\ request' = [request EXCEPT ![b].step = "signalling", ![b].revision = routes.revision + 1]
  BY DEF AcquireRoute
<1> DEFINE new == [state |-> "desired", active |-> FALSE, removal |-> 0]
<1>4. /\ new \in Route /\ new.state = "desired"
      /\ routes.revision \in Nat /\ routes.revision + 1 \in Nat
  BY DEF Route, RouteLife, ProviderTypeOK, RoutesType
<1>5. routes' = [routes EXCEPT !.revision = @ + 1, !.of[b] = new]
  BY <1>3 DEF AddRoute
<1> HIDE DEF new
<1>6. /\ routes'.of = [routes.of EXCEPT ![b] = new] /\ routes'.revision = routes.revision + 1
      /\ routes'.token = routes.token
  BY <1>5 DEF ProviderTypeOK, RoutesType
<1>7. routes.of \in [Backends -> Route] BY DEF ProviderTypeOK, RoutesType
<1>8. routes'.of \in [Backends -> Route] BY <1>4, <1>6, <1>7
<1>9. routes' \in RoutesType BY <1>4, <1>5, <1>6, <1>8 DEF ProviderTypeOK, RoutesType
<1>10. /\ routes'.of[b] = new
       /\ \A c \in Backends \ {b} : routes'.of[c] = routes.of[c]
  BY <1>6, <1>7
<1>11. /\ routes' \in RoutesType /\ routes'.of[b] = new
       /\ \A c \in Backends \ {b} : routes'.of[c] = routes.of[c]
  BY <1>9, <1>10
<1>12. /\ request' \in [Backends -> Request] /\ request'[b].step = "signalling"
       /\ request'[b].revision = routes.revision + 1
       /\ \A c \in Backends \ {b} : request'[c] = request[c]
  <2> DEFINE r == [request[b] EXCEPT !.step = "signalling", !.revision = routes.revision + 1]
  <2>1. request[b] \in Request BY DEF ProviderTypeOK
  <2>2. r \in Request /\ r.step = "signalling" /\ r.revision = routes.revision + 1
    <3>1. r \in Request BY <1>4, <2>1 DEF Request, RequestSteps
    <3>2. r.step = "signalling" /\ r.revision = routes.revision + 1 BY <2>1 DEF Request
    <3> QED BY <3>1, <3>2
  <2>3. request' = [request EXCEPT ![b] = r]
    BY <1>3
  <2> HIDE DEF r
  <2> QED BY <2>2, <2>3 DEF ProviderTypeOK
<1>13. ProviderTypeOK' /\ routes'.revision >= routes.revision
  BY <1>1, <1>4, <1>6, <1>11, <1>12 DEF ProviderTypeOK
<1>14. RouteKept(b) /\ Owned(b)'
  BY <1>1, <1>2, <1>4, <1>6, <1>11, <1>12 DEF RouteKept, RouteDesired, RoutesOwned, Owned, Requesting
<1> QED BY <1>1, <1>6, <1>11, <1>12, <1>13, <1>14, RequestGoes

\* waitRevision: the route is activated once its revision is applied.
LEMMA WaitRevisionKeeps ==
  ASSUME ProviderInv, NEW b \in Backends, WaitRevision(b) \/ CancelAcquire(b)
  PROVE  ProviderInv'
<1> USE DEF ProviderInv
<1>1. /\ UNCHANGED <<gateway, loop, caddy, relay, backend>>
      /\ request[b].step = "waiting" /\ backend[b].state = "none"
  BY DEF WaitRevision, CancelAcquire, RoutesOwned, Owned
<1>2. ASSUME NEW step \in {"activated", "rollback"}, request' = [request EXCEPT ![b].step = step]
      PROVE  /\ request' \in [Backends -> Request] /\ request'[b].step = step
             /\ request'[b].revision = request[b].revision
             /\ \A c \in Backends \ {b} : request'[c] = request[c]
  BY <1>2 DEF ProviderTypeOK, Request, RequestSteps
<1>3. CASE request' = [request EXCEPT ![b].step = "rollback"] /\ UNCHANGED routes
  <2>1. ProviderTypeOK' /\ routes'.revision >= routes.revision
    BY <1>1, <1>2, <1>3 DEF ProviderTypeOK, RoutesType
  <2>2. RouteKept(b) /\ Owned(b)'
    BY <1>1, <1>2, <1>3 DEF RouteKept, RouteDesired, RoutesOwned, Owned, Requesting
  <2> QED BY <1>1, <1>2, <1>3, <2>1, <2>2, RequestGoes
<1>4. CASE /\ RevisionState(request[b].revision) = "applied" /\ RouteDesired(b)
           /\ routes' = [routes EXCEPT !.of[b].active = TRUE]
           /\ request' = [request EXCEPT ![b].step = "activated"]
  <2>1. gateway.applied >= request[b].revision
    BY <1>4 DEF RevisionState
  <2>2. /\ routes' \in RoutesType /\ routes'.revision = routes.revision
        /\ routes'.token = routes.token
        /\ routes'.of[b].state = routes.of[b].state /\ routes'.of[b].removal = routes.of[b].removal
        /\ routes'.of[b].active
        /\ \A c \in Backends \ {b} : routes'.of[c] = routes.of[c]
    <3>1. /\ routes'.of = [routes.of EXCEPT ![b].active = TRUE]
          /\ routes'.revision = routes.revision /\ routes'.token = routes.token
          /\ routes.of \in [Backends -> Route] /\ routes.of[b] \in Route
      BY <1>4 DEF ProviderTypeOK, RoutesType
    <3> DEFINE r == [routes.of[b] EXCEPT !.active = TRUE]
    <3>2. r \in Route /\ r.state = routes.of[b].state /\ r.removal = routes.of[b].removal /\ r.active
      BY <3>1 DEF Route
    <3>3. routes'.of = [routes.of EXCEPT ![b] = r]
      BY <3>1
    <3> HIDE DEF r
    <3>4. /\ routes'.of \in [Backends -> Route] /\ routes'.of[b] = r
          /\ \A c \in Backends \ {b} : routes'.of[c] = routes.of[c]
      BY <3>1, <3>2, <3>3
    <3>5. routes' = [routes EXCEPT !.of = routes'.of]
      BY <1>4, <3>1 DEF ProviderTypeOK, RoutesType
    <3>6. routes' \in RoutesType
      BY <3>4, <3>5 DEF ProviderTypeOK, RoutesType
    <3> QED BY <3>1, <3>2, <3>4, <3>6
  <2>a. routes'.revision >= routes.revision
    BY <2>2 DEF ProviderTypeOK, RoutesType
  <2>3. ProviderTypeOK' /\ routes'.revision >= routes.revision
    BY <1>1, <1>2, <1>4, <2>2, <2>a DEF ProviderTypeOK
  <2>4. RouteDesired(b)'
    BY <1>4, <2>2 DEF RouteDesired
  <2>5. RouteKept(b)
    BY <1>1, <1>2, <1>4, <2>2 DEF RouteKept, RouteDesired
  <2>6. request[b].revision <= gateway.applied
    BY <2>1 DEF ProviderTypeOK, Request, GatewayType
  <2>7. Owned(b)'
    BY <1>1, <1>2, <1>4, <2>2, <2>4, <2>6 DEF RoutesOwned, Owned, Requesting
  <2> QED BY <1>1, <1>2, <1>4, <2>2, <2>3, <2>5, <2>7, RequestGoes
<1> QED BY <1>3, <1>4 DEF WaitRevision, CancelAcquire

\* register: the acquire has its value, or rolls back.
LEMMA RegisterKeeps ==
  ASSUME ProviderInv, NEW b \in Backends, Register(b)
  PROVE  ProviderInv'
<1> USE DEF ProviderInv
<1>1. /\ UNCHANGED <<gateway, routes, loop, caddy, relay>>
      /\ request[b].step = "activated" /\ backend[b].state = "none"
      /\ RouteDesired(b) /\ routes.of[b].active /\ request[b].revision <= gateway.applied
  BY DEF Register, RoutesOwned, Owned
<1>2. routes'.revision >= routes.revision
  BY <1>1 DEF ProviderTypeOK, RoutesType
<1>3. CASE request' = [request EXCEPT ![b].step = "rollback"] /\ UNCHANGED backend
  <2>1. /\ request' \in [Backends -> Request] /\ request'[b].step = "rollback"
        /\ request'[b].revision = request[b].revision
        /\ \A c \in Backends \ {b} : request'[c] = request[c]
    BY <1>3 DEF ProviderTypeOK, Request, RequestSteps
  <2>2. ProviderTypeOK'
    BY <1>1, <1>3, <2>1 DEF ProviderTypeOK
  <2>3. RouteKept(b) /\ Owned(b)'
    BY <1>1, <1>3, <2>1 DEF RouteKept, RouteDesired, RoutesOwned, Owned, Requesting
  <2> QED BY <1>1, <1>2, <1>3, <2>1, <2>2, <2>3, RequestGoes
<1>4. CASE Answer(b, "ok") /\ backend' = [backend EXCEPT ![b].state = "held"]
  <2>1. /\ request' \in [Backends -> Request] /\ request'[b].step = "returned"
        /\ request'[b].revision = 0
        /\ \A c \in Backends \ {b} : request'[c] = request[c]
    BY <1>4, AnswerTyped DEF ProviderTypeOK
  <2>2. /\ backend' \in [Backends -> Value] /\ backend'[b].state = "held"
        /\ backend'[b].result = backend[b].result
        /\ \A c \in Backends \ {b} : backend'[c] = backend[c]
    BY <1>4 DEF ProviderTypeOK, Value
  <2>3. ProviderTypeOK'
    BY <1>1, <2>1, <2>2 DEF ProviderTypeOK
  <2>4. RouteKept(b)
    BY <1>1, <2>1 DEF RouteKept, RouteDesired
  <2>5. Owned(b)'
    BY <1>1, <2>1, <2>2 DEF RouteDesired, RoutesOwned, Owned, Requesting
  <2> QED BY <1>1, <1>2, <2>1, <2>2, <2>3, <2>4, <2>5, RequestGoes
<1> QED BY <1>3, <1>4 DEF Register

\* rollback revokes the route the acquire has added.
LEMMA RollbackKeeps ==
  ASSUME ProviderInv, NEW b \in Backends, Rollback(b)
  PROVE  ProviderInv'
<1> USE DEF ProviderInv
<1> DEFINE removal == RevokedRoute(b).revision
           r == [request[b] EXCEPT !.step = "removing", !.revision = 0, !.removal = removal]
<1>1. /\ UNCHANGED <<loop, caddy, relay, backend>> /\ routes' = RevokedRoute(b)
      /\ gateway' = [gateway EXCEPT !.wake = TRUE] /\ request' = [request EXCEPT ![b] = r]
      /\ request[b].step = "rollback" /\ backend[b].state = "none"
  BY DEF Rollback, RoutesOwned, Owned
<1>2. /\ routes' \in RoutesType /\ ~RouteDesired(b)' /\ routes'.token = routes.token
      /\ \A c \in Backends \ {b} : routes'.of[c] = routes.of[c]
      /\ \/ ~RouteDesired(b) /\ routes' = routes
         \/ /\ RouteDesired(b) /\ routes'.revision = routes.revision + 1
            /\ routes'.of[b].state = "revoked" /\ routes'.of[b].removal = routes'.revision
  BY <1>1, RouteRevoked DEF ProviderTypeOK
<1>3. removal \in Nat
  BY <1>1, <1>2 DEF RoutesType
<1>4. r \in Request /\ r.step = "removing"
  BY <1>3 DEF ProviderTypeOK, Request, RequestSteps
<1> HIDE DEF r, removal
<1>5. /\ request' \in [Backends -> Request] /\ request'[b].step = "removing"
      /\ \A c \in Backends \ {b} : request'[c] = request[c]
  BY <1>1, <1>4 DEF ProviderTypeOK
<1>6. gateway' \in GatewayType /\ gateway'.applied = gateway.applied
  BY <1>1 DEF ProviderTypeOK, GatewayType
<1>7. ProviderTypeOK'
  BY <1>1, <1>2, <1>5, <1>6 DEF ProviderTypeOK
<1>8. routes'.revision >= routes.revision /\ routes.revision \in Nat
  BY <1>2 DEF ProviderTypeOK, RoutesType
<1>9. RouteKept(b)
  BY <1>2, <1>8 DEF RouteKept
<1>10. Owned(b)'
  BY <1>1, <1>2, <1>5 DEF RoutesOwned, Owned, Requesting
<1> QED BY <1>1, <1>2, <1>5, <1>6, <1>7, <1>8, <1>9, <1>10, RequestGoes

\* waitRemoval of a rollback: its end, or another try.
LEMMA RolledBackKeeps ==
  ASSUME ProviderInv, NEW b \in Backends, RolledBack(b) \/ RollbackTimesOut(b)
  PROVE  ProviderInv'
<1> USE DEF ProviderInv
<1>1. /\ UNCHANGED <<routes, loop, caddy, relay, backend>>
      /\ request[b].step = "removing" /\ backend[b].state = "none" /\ ~RouteDesired(b)
  BY DEF RolledBack, RollbackTimesOut, RoutesOwned, Owned
<1>2. gateway' \in GatewayType /\ gateway'.applied = gateway.applied
  <2>1. UNCHANGED gateway \/ RemovalRetries(request[b].removal)
    BY DEF RolledBack, RollbackTimesOut
  <2> QED BY <2>1, RetryTyped DEF ProviderTypeOK
<1>3. /\ request' \in [Backends -> Request] /\ request'[b].step \in {"removing", "returned"}
      /\ \A c \in Backends \ {b} : request'[c] = request[c]
  <2>1. CASE UNCHANGED request BY <1>1, <2>1 DEF ProviderTypeOK
  <2>2. CASE Answer(b, "error") BY <2>2, AnswerTyped DEF ProviderTypeOK
  <2> QED BY <2>1, <2>2 DEF RolledBack, RollbackTimesOut
<1>4. ProviderTypeOK' /\ routes'.revision >= routes.revision
  BY <1>1, <1>2, <1>3 DEF ProviderTypeOK, RoutesType
<1>5. RouteKept(b) /\ Owned(b)'
  BY <1>1, <1>2, <1>3 DEF RouteKept, RouteDesired, RoutesOwned, Owned, Requesting
<1> QED BY <1>1, <1>2, <1>3, <1>4, <1>5, RequestGoes

\* Revoke: the value is given back at the revision that removes its route.
LEMMA RevokeKeeps ==
  ASSUME ProviderInv, NEW b \in Backends, Revoke(b)
  PROVE  ProviderInv'
<1> USE DEF ProviderInv
<1> DEFINE removal == RevokedRoute(b).revision
           v == [backend[b] EXCEPT !.state = "revoked", !.removal = removal]
<1>1. /\ UNCHANGED <<loop, caddy, relay, request>> /\ routes' = RevokedRoute(b)
      /\ gateway' = [gateway EXCEPT !.wake = TRUE] /\ backend' = [backend EXCEPT ![b] = v]
      /\ request[b].step = "returned" /\ backend[b].state = "held" /\ RouteDesired(b)
  BY DEF Revoke, RoutesOwned, Owned
<1>2. /\ routes' \in RoutesType /\ ~RouteDesired(b)' /\ routes'.token = routes.token
      /\ \A c \in Backends \ {b} : routes'.of[c] = routes.of[c]
      /\ routes'.revision = routes.revision + 1
      /\ routes'.of[b].state = "revoked" /\ routes'.of[b].removal = routes'.revision
  BY <1>1, RouteRevoked DEF ProviderTypeOK
<1>3. removal = routes'.revision /\ removal \in Nat
  BY <1>1, <1>2 DEF RoutesType
<1>4. v \in Value /\ v.state = "revoked" /\ v.removal = removal /\ v.result = backend[b].result
  BY <1>3 DEF ProviderTypeOK, Value
<1> HIDE DEF v, removal
<1>5. /\ backend' \in [Backends -> Value] /\ backend'[b] = v
      /\ \A c \in Backends \ {b} : backend'[c] = backend[c]
  BY <1>1, <1>4 DEF ProviderTypeOK
<1>6. gateway' \in GatewayType /\ gateway'.applied = gateway.applied
  BY <1>1 DEF ProviderTypeOK, GatewayType
<1>7. ProviderTypeOK'
  BY <1>1, <1>2, <1>5, <1>6 DEF ProviderTypeOK
<1>8. routes'.revision >= routes.revision /\ routes.revision \in Nat
  BY <1>2 DEF ProviderTypeOK, RoutesType
<1>9. RouteKept(b)
  BY <1>2, <1>8 DEF RouteKept
<1>10. Owned(b)'
  BY <1>1, <1>2, <1>3, <1>4, <1>5 DEF RoutesOwned, Owned, Requesting
<1> QED BY <1>1, <1>2, <1>5, <1>6, <1>7, <1>8, <1>9, <1>10, RequestGoes

\* Release: it succeeds only when the removal has been applied.
LEMMA ReleaseKeeps ==
  ASSUME ProviderInv, NEW b \in Backends,
         ReleaseBackend(b) \/ FinishRelease(b) \/ ReleaseTimesOut(b)
  PROVE  ProviderInv'
<1> USE DEF ProviderInv
<1>1. /\ UNCHANGED <<routes, loop, caddy, relay, request>>
      /\ backend[b].state \in {"revoked", "releasing"} /\ request[b].step = "returned"
      /\ routes.of[b].state \in {"revoked", "gone"} /\ routes.of[b].removal = backend[b].removal
      /\ backend[b].result # "ok"
  BY DEF ReleaseBackend, FinishRelease, ReleaseTimesOut, RoutesOwned, Owned
<1>2. gateway' \in GatewayType /\ gateway'.applied = gateway.applied
  <2>1. UNCHANGED gateway \/ RemovalRetries(backend[b].removal)
    BY DEF ReleaseBackend, FinishRelease, ReleaseTimesOut
  <2> QED BY <2>1, RetryTyped DEF ProviderTypeOK
<1>3. RevisionState(backend[b].removal) = "applied" => backend[b].removal <= gateway.applied
  BY DEF RevisionState, ProviderTypeOK, GatewayType, Value
<1>4. PICK v : /\ backend' = [backend EXCEPT ![b] = v]
               /\ \/ v = backend[b]
                  \/ v = [backend[b] EXCEPT !.state = "releasing"]
                  \/ \E result \in {"ok", "error", "closing"} :
                       /\ v = [backend[b] EXCEPT !.state = "released", !.removal = 0, !.result = result]
                       /\ result = "ok" => RevisionState(backend[b].removal) = "applied"
  <2> DEFINE released(result) ==
        [backend[b] EXCEPT !.state = "released", !.removal = 0, !.result = result]
  <2>1. CASE UNCHANGED backend
    <3>1. backend' = [backend EXCEPT ![b] = backend[b]] BY <2>1 DEF ProviderTypeOK
    <3> QED BY <3>1
  <2>2. CASE ReleaseBackend(b)
    <3>1. \/ backend' = [backend EXCEPT ![b] = released("closing")]
          \/ backend' = [backend EXCEPT ![b] = [backend[b] EXCEPT !.state = "releasing"]]
      BY <2>2 DEF ReleaseBackend
    <3> QED BY <3>1
  <2>3. CASE FinishRelease(b) /\ ~UNCHANGED backend
    <3>1. PICK result \in {"ok", "error"} :
            /\ result = "ok" => RevisionState(backend[b].removal) = "applied"
            /\ backend' = [backend EXCEPT ![b] = released(result)]
      BY <2>3 DEF FinishRelease
    <3> QED BY <3>1
  <2>4. CASE ReleaseTimesOut(b)
    <3>1. backend' = [backend EXCEPT ![b] = released("error")]
      BY <2>4 DEF ReleaseTimesOut
    <3> QED BY <3>1
  <2> QED BY <2>1, <2>2, <2>3, <2>4
<1>5. /\ v \in Value /\ v.state \in {"revoked", "releasing", "released"}
      /\ v.state # "released" => v.removal = backend[b].removal /\ v.result # "ok"
      /\ v.result = "ok" => v.state = "released" /\ backend[b].removal <= gateway.applied
  <2>1. backend[b] \in Value BY DEF ProviderTypeOK
  <2>2. CASE v = backend[b]
    BY <1>1, <2>1, <2>2
  <2>3. CASE v = [backend[b] EXCEPT !.state = "releasing"]
    BY <1>1, <2>1, <2>3 DEF Value
  <2>4. CASE \E result \in {"ok", "error", "closing"} :
               /\ v = [backend[b] EXCEPT !.state = "released", !.removal = 0, !.result = result]
               /\ result = "ok" => RevisionState(backend[b].removal) = "applied"
    <3>1. PICK result \in {"ok", "error", "closing"} :
               /\ v = [backend[b] EXCEPT !.state = "released", !.removal = 0, !.result = result]
               /\ result = "ok" => RevisionState(backend[b].removal) = "applied"
      BY <2>4
    <3>2. v \in Value /\ v.state = "released" /\ v.result = result
      BY <2>1, <3>1 DEF Value
    <3> QED BY <1>3, <3>1, <3>2
  <2> QED BY <1>4, <2>2, <2>3, <2>4
<1>6. /\ backend' \in [Backends -> Value] /\ backend'[b] = v
      /\ \A c \in Backends \ {b} : backend'[c] = backend[c]
  BY <1>4, <1>5 DEF ProviderTypeOK
<1>7. ProviderTypeOK' /\ routes'.revision >= routes.revision
  BY <1>1, <1>2, <1>6 DEF ProviderTypeOK, RoutesType
<1>8. RouteKept(b)
  BY <1>1 DEF RouteKept, RouteDesired
<1>9. Owned(b)'
  BY <1>1, <1>2, <1>5, <1>6 DEF RoutesOwned, Owned, Requesting
<1> QED BY <1>1, <1>2, <1>6, <1>7, <1>8, <1>9, RequestGoes

----------------------------------------
(* The loop, action by action.                                             *)

\* What reflects a revision reflects the ones before it.
LEMMA ReflectsEarlier ==
  ASSUME ProviderTypeOK, NEW set, NEW r \in Nat, NEW q \in Nat, q <= r, Reflects(set, r)
  PROVE  Reflects(set, q)
<1>1. \A b \in Backends : request[b].revision \in Nat /\ routes.of[b].removal \in Nat
  BY DEF ProviderTypeOK, Request, RoutesType, Route
<1> QED BY <1>1 DEF Reflects

\* The target published is the loop's own, so giving that up leaves none.
LEMMA NothingPublished ==
  ASSUME ProviderInv, relay' = Unpublished(loop.gen)
  PROVE  relay' \in RelayType /\ relay'.target = 0
<1>1. relay \in RelayType /\ (relay.target = 0 \/ loop.gen = relay.target)
  BY DEF ProviderInv, ProviderTypeOK, LoopInOrder
<1> QED BY <1>1 DEF Unpublished, RelayType

\* The loop loads the snapshot it has taken.
LEMMA SnapshotLoaded ==
  ASSUME ProviderInv, Loading, caddy' = Loaded
  PROVE  /\ caddy' \in CaddyType
         /\ caddy'.alive = caddy.alive /\ caddy'.gen = caddy.gen
         /\ caddy'.config = loop.snapshot /\ caddy'.token = routes.token
         /\ Reflects(loop.snapshot, loop.revision)
         /\ Reflects(loop.snapshot, gateway.applied)
<1>1. /\ caddy \in CaddyType /\ loop.snapshot \in SUBSET Backends /\ routes.token \in Nat
      /\ loop.revision \in Nat /\ gateway.applied \in Nat
  BY DEF ProviderInv, ProviderTypeOK, LoopType, RoutesType, GatewayType
<1>2. /\ caddy' \in CaddyType
      /\ caddy'.alive = caddy.alive /\ caddy'.gen = caddy.gen
      /\ caddy'.config = loop.snapshot /\ caddy'.token = routes.token
  BY <1>1 DEF Loaded, CaddyType
<1>3. Reflects(loop.snapshot, loop.revision) /\ gateway.applied <= loop.revision
  BY DEF ProviderInv, SnapshotIsCurrent, LoopInOrder, Loading, Working
<1>4. Reflects(loop.snapshot, gateway.applied)
  BY <1>1, <1>3, ReflectsEarlier DEF ProviderInv
<1> QED BY <1>2, <1>3, <1>4

\* A step of the loop leaves the routes to their backends.
LEMMA OwnersStay ==
  ASSUME ProviderInv, UNCHANGED <<request, backend, routes>>, gateway'.applied = gateway.applied
  PROVE  RoutesOwned'
  BY DEF ProviderInv, RoutesOwned, Owned, RouteDesired

\* A step that ends the work on a snapshot and publishes nothing new.
LEMMA LoopRests ==
  ASSUME ProviderInv, ProviderTypeOK', UNCHANGED <<request, backend, routes>>,
         gateway'.applied = gateway.applied,
         caddy' = caddy \/ (Loading /\ caddy' = Loaded),
         loop'.pc \notin Working,
         \/ relay'.target = 0
         \/ relay'.target = relay.target /\ loop'.gen = loop.gen /\ loop'.loaded = loop.loaded
  PROVE  ProviderInv'
<1>1. /\ caddy'.alive = caddy.alive /\ caddy'.gen = caddy.gen
      /\ \/ caddy'.config = caddy.config /\ caddy'.token = caddy.token
         \/ /\ Reflects(caddy'.config, gateway.applied) /\ caddy'.token = routes.token
  BY SnapshotLoaded
<1>2. LoopInOrder'
  BY <1>1 DEF ProviderInv, LoopInOrder, Working
<1>3. SnapshotIsCurrent' /\ LoadedIsCurrent'
  BY DEF SnapshotIsCurrent, LoadedIsCurrent, Working
<1>4. ServedIsCurrent'
  <2> SUFFICES ASSUME Serving' PROVE Configured(gateway.applied)'
    BY DEF ServedIsCurrent
  <2>1. Serving
    BY <1>1 DEF Serving, GenerationDone
  <2>2. Configured(gateway.applied)
    BY <2>1 DEF ProviderInv, ServedIsCurrent
  <2> QED BY <1>1, <2>2 DEF Configured, Reflects, RouteDesired
<1>5. RoutesOwned'
  BY OwnersStay
<1> QED BY <1>2, <1>3, <1>4, <1>5 DEF ProviderInv

\* The loop without a generation, and the loop that waits, are loops.
LEMMA RestsTyped ==
  ASSUME loop \in LoopType,
         NEW delay \in BOOLEAN, NEW pc \in {"wait", "top", "done"}
  PROVE  /\ Dropped(pc, delay) \in LoopType /\ Dropped(pc, delay).pc = pc
         /\ Dropped(pc, delay).gen = 0
         /\ Waits(delay) \in LoopType /\ Waits(delay).pc = "wait"
         /\ Waits(delay).gen = loop.gen /\ Waits(delay).loaded = loop.loaded
  BY DEF Dropped, Waits, LoopType, LoopSteps

\* One turn: a snapshot of what is desired now, or a wait.
LEMMA ReconcileKeeps ==
  ASSUME ProviderInv, Reconcile
  PROVE  ProviderInv'
<1>a. UNCHANGED <<gateway, routes, caddy, request, backend>>
  BY DEF Reconcile
<1>t. /\ loop \in LoopType /\ relay \in RelayType /\ routes \in RoutesType
      /\ gateway \in GatewayType
  BY DEF ProviderInv, ProviderTypeOK
<1>1. CASE Exit
  <2>1. /\ loop' \in LoopType /\ loop'.pc = "done"
        /\ relay' \in RelayType /\ relay'.target = 0
    BY <1>1, <1>t, NothingPublished, RestsTyped DEF Exit
  <2>2. ProviderTypeOK'
    BY <1>a, <2>1 DEF ProviderInv, ProviderTypeOK
  <2>3. /\ UNCHANGED <<request, backend, routes>> /\ gateway'.applied = gateway.applied
        /\ caddy' = caddy
    BY <1>a
  <2>4. loop'.pc \notin Working
    BY <2>1 DEF Working
  <2> QED BY <2>1, <2>2, <2>3, <2>4, LoopRests
<1>2. CASE ~Exit
  <2> DEFINE gone == GenerationDone(loop.gen)
             gen == IF gone THEN 0 ELSE loop.gen
             loaded == IF gone THEN 0 ELSE loop.loaded
             behind == routes.revision > gateway.applied \/ loaded # gen
             next ==
               IF gateway.failed # 0 /\ gateway.failed = routes.revision THEN "wait"
               ELSE IF Desired = {} THEN IF gen # 0 /\ behind THEN "unload" ELSE "empty"
               ELSE IF gen = 0 THEN "acquire"
               ELSE IF behind THEN "load" ELSE "wait"
             turn == [pc |-> next, revision |-> IF next = "wait" THEN 0 ELSE routes.revision,
                      snapshot |-> IF next = "wait" THEN {} ELSE Desired,
                      gen |-> gen, loaded |-> loaded, delay |-> FALSE]
  <2>1. loop' = turn /\ relay' = IF gone THEN Unpublished(loop.gen) ELSE relay
    BY <1>2 DEF Reconcile
  <2>3. gen \in Nat /\ loaded \in Nat /\ Desired \in SUBSET Backends
    BY <1>t DEF LoopType, Desired
  <2>2. /\ next \in {"wait", "unload", "empty", "acquire", "load"}
        /\ next = "acquire" => gen = 0
        /\ next \in {"unload", "load"} => gen # 0
    <3>1. \/ next \in {"wait", "empty"}
          \/ next = "acquire" /\ gen = 0
          \/ next \in {"unload", "load"} /\ gen # 0
      <4> HIDE DEF gen, loaded, behind
      <4> QED OBVIOUS
    <3> HIDE DEF next
    <3> QED BY <3>1
  <2>5. /\ relay' \in RelayType
        /\ relay'.target = 0 \/ (~gone /\ relay' = relay)
    <3> HIDE DEF turn, gone
    <3> QED BY <2>1, <1>t, NothingPublished
  <2>6. relay'.target # 0 => relay'.target = relay.target /\ gen = relay.target /\ loaded = relay.target
    <3>1. CASE gone
      BY <2>5, <3>1
    <3>2. CASE ~gone
      <4>1. gen = loop.gen /\ loaded = loop.loaded /\ relay' = relay
        BY <2>1, <3>2
      <4> QED BY <4>1 DEF ProviderInv, LoopInOrder
    <3> QED BY <3>1, <3>2
  <2> HIDE DEF next, gone, gen, loaded
  <2>7. /\ loop'.pc = next /\ loop'.gen = gen /\ loop'.loaded = loaded
        /\ next # "wait" => loop'.revision = routes.revision /\ loop'.snapshot = Desired
    BY <2>1
  <2>8. loop' \in LoopType
    BY <2>1, <2>2, <2>3, <1>t DEF LoopType, LoopSteps, RoutesType
  <2>9. ProviderTypeOK'
    BY <1>a, <2>5, <2>8 DEF ProviderInv, ProviderTypeOK
  <2>10. LoopInOrder'
    <3>1. routes.revision \in Nat /\ gateway.applied \in Nat
      BY <1>t DEF RoutesType, GatewayType
    <3> QED BY <1>a, <2>2, <2>6, <2>7, <3>1 DEF ProviderInv, LoopInOrder, Working
  <2>11. SnapshotIsCurrent'
    <3>1. loop'.pc \in Working => loop'.revision = routes.revision /\ loop'.snapshot = Desired
      BY <2>2, <2>7 DEF Working
    <3>2. Reflects(Desired, routes.revision)
      BY DEF Reflects, Desired, RouteDesired
    <3> QED BY <1>a, <3>1, <3>2 DEF SnapshotIsCurrent, Reflects, RouteDesired
  <2>12. LoadedIsCurrent'
    BY <2>2, <2>7 DEF LoadedIsCurrent
  <2>13. ServedIsCurrent'
    BY <1>a, <2>6 DEF ProviderInv, ServedIsCurrent, Serving, GenerationDone, Configured, Reflects,
      RouteDesired
  <2>14. RoutesOwned'
    BY <1>a, OwnersStay
  <2> QED BY <2>9, <2>10, <2>11, <2>12, <2>13, <2>14 DEF ProviderInv
<1> QED BY <1>1, <1>2

\* Steps that end in a wait, at the top or in the end of the loop.
LEMMA RestingKeeps ==
  ASSUME ProviderInv, WaitEvent \/ AcquireFails \/ ConfigRejected \/ LoadFails
  PROVE  ProviderInv'
<1>t. /\ loop \in LoopType /\ relay \in RelayType /\ gateway \in GatewayType
      /\ caddy \in CaddyType
  BY DEF ProviderInv, ProviderTypeOK
<1>1. UNCHANGED <<request, backend, routes>>
  BY DEF WaitEvent, AcquireFails, ConfigRejected, LoadFails
<1>2. gateway' \in GatewayType /\ gateway'.applied = gateway.applied
  <2>1. CASE UNCHANGED gateway
    BY <1>t, <2>1
  <2>2. CASE gateway' = [gateway EXCEPT !.wake = FALSE]
    BY <1>t, <2>2 DEF GatewayType
  <2>3. CASE ConfigRejected
    BY <1>t, <2>3 DEF ConfigRejected, GatewayType, LoopType
  <2> QED BY <2>1, <2>2, <2>3 DEF WaitEvent, AcquireFails, LoadFails
<1>3. caddy' = caddy \/ (Loading /\ caddy' = Loaded)
  <2>1. CASE LoadFails BY <2>1 DEF LoadFails
  <2>2. CASE ~LoadFails BY <2>2 DEF WaitEvent, AcquireFails, ConfigRejected
  <2> QED BY <2>1, <2>2
<1>4. caddy' \in CaddyType
  BY <1>t, <1>3, SnapshotLoaded
<1>5. \/ loop' = [loop EXCEPT !.pc = "top"] /\ relay' = relay
      \/ (\E delay \in BOOLEAN : loop' = Waits(delay)) /\ relay' = relay
      \/ /\ \E delay \in BOOLEAN, pc \in {"wait", "done"} : loop' = Dropped(pc, delay)
         /\ relay' = Unpublished(loop.gen)
  <2>1. CASE WaitEvent BY <2>1 DEF WaitEvent, Exit
  <2>2. CASE AcquireFails BY <2>2 DEF AcquireFails
  <2>3. CASE ConfigRejected BY <2>3 DEF ConfigRejected
  <2>4. CASE LoadFails BY <2>4 DEF LoadFails
  <2> QED BY <2>1, <2>2, <2>3, <2>4
<1>6. /\ loop' \in LoopType /\ loop'.pc \notin Working /\ relay' \in RelayType
      /\ \/ relay'.target = 0
         \/ relay'.target = relay.target /\ loop'.gen = loop.gen /\ loop'.loaded = loop.loaded
  <2>1. CASE loop' = [loop EXCEPT !.pc = "top"] /\ relay' = relay
    BY <1>t, <2>1 DEF LoopType, LoopSteps, Working
  <2>2. CASE (\E delay \in BOOLEAN : loop' = Waits(delay)) /\ relay' = relay
    BY <1>t, <2>2, RestsTyped DEF Working
  <2>3. CASE /\ \E delay \in BOOLEAN, pc \in {"wait", "done"} : loop' = Dropped(pc, delay)
             /\ relay' = Unpublished(loop.gen)
    BY <1>t, <2>3, RestsTyped, NothingPublished DEF Working
  <2> QED BY <1>5, <2>1, <2>2, <2>3
<1>7. ProviderTypeOK'
  BY <1>1, <1>2, <1>4, <1>6 DEF ProviderInv, ProviderTypeOK
<1> QED BY <1>1, <1>2, <1>3, <1>6, <1>7, LoopRests

\* A new lease gives the loop a live generation it has loaded nothing into.
LEMMA AcquireGenerationKeeps ==
  ASSUME ProviderInv, AcquireGeneration
  PROVE  ProviderInv'
<1>t. /\ loop \in LoopType /\ caddy \in CaddyType /\ routes \in RoutesType
      /\ gateway \in GatewayType /\ loop.gen = 0 /\ relay.target = 0
  BY DEF ProviderInv, ProviderTypeOK, LoopInOrder, AcquireGeneration
<1>a. /\ UNCHANGED <<gateway, relay, request, backend>>
      /\ routes' = [routes EXCEPT !.token = NewToken]
      /\ loop' = [loop EXCEPT !.pc = "load", !.gen = caddy'.gen, !.loaded = 0]
      /\ loop.pc = "acquire"
  BY DEF AcquireGeneration
<1>1. caddy' \in CaddyType /\ caddy'.gen # 0
  <2>1. CASE caddy.alive
    BY <1>t, <2>1 DEF AcquireGeneration, ProviderInv, LoopInOrder
  <2>2. CASE ~caddy.alive
    <3>1. /\ caddy' = [caddy EXCEPT !.gen = @ + 1, !.alive = TRUE, !.config = {}, !.token = 0]
          /\ caddy.gen \in Nat /\ caddy.gen + 1 \in Nat
      BY <1>t, <2>2 DEF AcquireGeneration, CaddyType
    <3>2. caddy'.gen = caddy.gen + 1
      BY <1>t, <3>1 DEF CaddyType
    <3>3. caddy' \in CaddyType
      BY <1>t, <3>1 DEF CaddyType
    <3> QED BY <3>1, <3>2, <3>3
  <2> QED BY <2>1, <2>2
<1>2. routes' \in RoutesType /\ routes'.of = routes.of /\ routes'.revision = routes.revision
  BY <1>a, <1>t DEF NewToken, RoutesType
<1>3. /\ loop' \in LoopType /\ loop'.pc = "load" /\ loop'.gen # 0
      /\ loop'.revision = loop.revision /\ loop'.snapshot = loop.snapshot
  BY <1>a, <1>t, <1>1 DEF LoopType, LoopSteps, CaddyType
<1>4. ProviderTypeOK'
  BY <1>a, <1>1, <1>2, <1>3 DEF ProviderInv, ProviderTypeOK
<1>5. LoopInOrder'
  BY <1>a, <1>t, <1>1, <1>2, <1>3 DEF ProviderInv, LoopInOrder, Working
<1>6. SnapshotIsCurrent'
  BY <1>a, <1>2, <1>3 DEF ProviderInv, SnapshotIsCurrent, Reflects, RouteDesired, Working
<1>7. LoadedIsCurrent' /\ ServedIsCurrent'
  BY <1>a, <1>t, <1>3 DEF LoadedIsCurrent, ServedIsCurrent, Serving
<1>8. RoutesOwned'
  BY <1>a, <1>2 DEF ProviderInv, RoutesOwned, Owned, RouteDesired
<1> QED BY <1>4, <1>5, <1>6, <1>7, <1>8 DEF ProviderInv

\* A loaded snapshot serves what the one before served, and more.
LEMMA LoadConfigKeeps ==
  ASSUME ProviderInv, LoadConfig
  PROVE  ProviderInv'
<1>t. loop \in LoopType
  BY DEF ProviderInv, ProviderTypeOK
<1>a. /\ UNCHANGED <<gateway, routes, relay, request, backend>>
      /\ loop' = [loop EXCEPT !.pc = IF @ = "load" THEN "publish" ELSE "empty"]
      /\ loop.pc \in {"load", "unload"}
  BY DEF LoadConfig, Loading
<1>1. /\ caddy' \in CaddyType
      /\ caddy'.alive = caddy.alive /\ caddy'.gen = caddy.gen
      /\ caddy'.config = loop.snapshot /\ caddy'.token = routes.token
      /\ Reflects(loop.snapshot, loop.revision) /\ Reflects(loop.snapshot, gateway.applied)
  BY SnapshotLoaded DEF LoadConfig
<1>2. /\ loop' \in LoopType /\ loop'.pc \in {"publish", "empty"}
      /\ loop'.gen = loop.gen /\ loop'.loaded = loop.loaded
      /\ loop'.revision = loop.revision /\ loop'.snapshot = loop.snapshot
  BY <1>a, <1>t DEF LoopType, LoopSteps
<1>3. ProviderTypeOK'
  BY <1>a, <1>1, <1>2 DEF ProviderInv, ProviderTypeOK
<1>4. LoopInOrder'
  BY <1>a, <1>1, <1>2 DEF ProviderInv, LoopInOrder, Working
<1>5. SnapshotIsCurrent'
  BY <1>a, <1>1, <1>2 DEF SnapshotIsCurrent, Reflects, RouteDesired
<1>6. LoadedIsCurrent' /\ ServedIsCurrent'
  BY <1>a, <1>1, <1>2 DEF LoadedIsCurrent, ServedIsCurrent, Configured, Reflects, RouteDesired
<1>7. RoutesOwned'
  BY <1>a, OwnersStay
<1> QED BY <1>3, <1>4, <1>5, <1>6, <1>7 DEF ProviderInv

\* publish: the relay carries to the generation that has loaded the snapshot.
LEMMA PublishKeeps ==
  ASSUME ProviderInv, Publish
  PROVE  ProviderInv'
<1>t. /\ loop \in LoopType /\ relay \in RelayType /\ gateway \in GatewayType
  BY DEF ProviderInv, ProviderTypeOK
<1>a. UNCHANGED <<routes, caddy, request, backend>> /\ loop.pc = "publish"
  BY DEF Publish
<1>1. CASE loop.loaded # loop.gen /\ relay.closed
  <2>1. /\ gateway' = [gateway EXCEPT !.failed = IF loop.revision >= @ THEN loop.revision ELSE @]
        /\ loop' = Dropped("top", FALSE) /\ UNCHANGED relay
    BY <1>1 DEF Publish
  <2>2. gateway' \in GatewayType /\ gateway'.applied = gateway.applied
    BY <1>t, <2>1 DEF GatewayType, LoopType
  <2>3. loop' \in LoopType /\ loop'.pc = "top"
    BY <1>t, <2>1, RestsTyped
  <2>4. ProviderTypeOK'
    BY <1>a, <2>1, <2>2, <2>3 DEF ProviderInv, ProviderTypeOK
  <2>5. relay'.target = 0
    BY <1>1, <2>1 DEF ProviderInv, LoopInOrder
  <2>6. /\ UNCHANGED <<request, backend, routes>> /\ caddy' = caddy
        /\ loop'.pc \notin Working
    BY <1>a, <2>3 DEF Working
  <2> QED BY <2>2, <2>4, <2>5, <2>6, LoopRests
<1>2. CASE ~(loop.loaded # loop.gen /\ relay.closed)
  <2>1. /\ relay' = IF loop.loaded # loop.gen THEN [relay EXCEPT !.target = loop.gen] ELSE relay
        /\ loop' = [loop EXCEPT !.pc = "confirm", !.loaded = loop.gen]
        /\ UNCHANGED gateway
    BY <1>2 DEF Publish
  <2>2. /\ loop' \in LoopType /\ loop'.pc = "confirm"
        /\ loop'.gen = loop.gen /\ loop'.loaded = loop.gen
        /\ loop'.revision = loop.revision /\ loop'.snapshot = loop.snapshot
    BY <1>t, <2>1 DEF LoopType, LoopSteps
  <2>3. relay' \in RelayType /\ (relay'.target = loop.gen \/ relay'.target = 0)
    <3>1. CASE loop.loaded # loop.gen
      BY <1>t, <2>1, <3>1 DEF RelayType, LoopType
    <3>2. CASE loop.loaded = loop.gen
      BY <1>t, <2>1, <3>2 DEF ProviderInv, LoopInOrder
    <3> QED BY <3>1, <3>2
  <2>4. ProviderTypeOK'
    BY <1>a, <2>1, <2>2, <2>3 DEF ProviderInv, ProviderTypeOK
  <2>5. LoopInOrder'
    BY <1>a, <2>1, <2>2, <2>3 DEF ProviderInv, LoopInOrder, Working
  <2>6. SnapshotIsCurrent'
    BY <1>a, <2>2 DEF ProviderInv, SnapshotIsCurrent, Reflects, RouteDesired, Working
  <2>7. LoadedIsCurrent'
    BY <1>a, <2>2 DEF ProviderInv, LoadedIsCurrent, Configured, Reflects, RouteDesired,
      GenerationDone
  <2>8. ServedIsCurrent'
    <3> SUFFICES ASSUME Serving' PROVE Configured(gateway.applied)'
      BY DEF ServedIsCurrent
    <3>1. Configured(loop.revision)
      BY <1>a, <2>3 DEF ProviderInv, LoadedIsCurrent, Serving, GenerationDone
    <3>2. /\ loop.revision \in Nat /\ gateway.applied \in Nat
          /\ gateway.applied <= loop.revision
      BY <1>a, <1>t DEF ProviderInv, LoopInOrder, Working, LoopType, GatewayType
    <3>3. Configured(gateway.applied)
      BY <3>1, <3>2, ReflectsEarlier DEF Configured, ProviderInv
    <3> QED BY <1>a, <2>1, <3>3 DEF Configured, Reflects, RouteDesired
  <2>9. RoutesOwned'
    BY <1>a, <2>1, OwnersStay
  <2> QED BY <2>4, <2>5, <2>6, <2>7, <2>8, <2>9 DEF ProviderInv
<1> QED BY <1>1, <1>2

\* confirm: the revision of the snapshot is applied, and the routes removed by
\* then are gone.
LEMMA Confirmed ==
  ASSUME ProviderInv, Confirm(loop.revision), loop.pc \in {"confirm", "empty"}
  PROVE  /\ gateway' \in GatewayType /\ gateway'.applied = loop.revision
         /\ routes' \in RoutesType /\ routes'.revision = routes.revision
         /\ routes'.token = routes.token
         /\ \A b \in Backends :
              /\ routes'.of[b].active = routes.of[b].active
              /\ routes'.of[b].removal = routes.of[b].removal
              /\ \/ routes'.of[b].state = routes.of[b].state
                 \/ routes.of[b].state = "revoked" /\ routes'.of[b].state = "gone"
<1>t. /\ loop \in LoopType /\ routes \in RoutesType /\ gateway \in GatewayType
      /\ loop.revision \in Nat /\ gateway.applied \in Nat /\ gateway.applied <= loop.revision
  BY DEF ProviderInv, ProviderTypeOK, LoopInOrder, Working, LoopType, GatewayType
<1>1. /\ gateway' \in GatewayType
      /\ gateway'.applied = IF loop.revision > gateway.applied THEN loop.revision ELSE gateway.applied
  BY <1>t DEF Confirm, GatewayType
<1>2. gateway'.applied = loop.revision
  BY <1>t, <1>1
<1>3. CASE routes' = routes
  BY <1>t, <1>1, <1>2, <1>3
<1>4. CASE routes' # routes
  <2> DEFINE of == [b \in Backends |->
                  IF routes.of[b].state = "revoked" /\ routes.of[b].removal <= loop.revision
                    THEN [routes.of[b] EXCEPT !.state = "gone"] ELSE routes.of[b]]
  <2>1. routes' = [routes EXCEPT !.of = of]
    BY <1>4 DEF Confirm, ConfirmedRoutes
  <2>2. ASSUME NEW b \in Backends
        PROVE  /\ of[b] \in Route /\ of[b].active = routes.of[b].active
               /\ of[b].removal = routes.of[b].removal
               /\ \/ of[b].state = routes.of[b].state
                  \/ routes.of[b].state = "revoked" /\ of[b].state = "gone"
    <3>1. routes.of[b] \in Route BY <1>t DEF RoutesType
    <3> QED BY <3>1 DEF Route, RouteLife
  <2>3. of \in [Backends -> Route]
    BY <2>2
  <2> HIDE DEF of
  <2>4. routes' \in RoutesType /\ routes'.revision = routes.revision /\ routes'.token = routes.token
        /\ routes'.of = of
    BY <1>t, <2>1, <2>3 DEF RoutesType
  <2> QED BY <1>1, <1>2, <2>2, <2>4
<1> QED BY <1>3, <1>4

LEMMA ConfirmKeeps ==
  ASSUME ProviderInv, ConfirmLoad \/ ConfirmEmpty
  PROVE  ProviderInv'
<1>t. /\ loop \in LoopType /\ relay \in RelayType
  BY DEF ProviderInv, ProviderTypeOK
<1>a. /\ UNCHANGED <<caddy, request, backend>>
      /\ Confirm(loop.revision) /\ loop.pc \in {"confirm", "empty"}
  BY DEF ConfirmLoad, ConfirmEmpty
<1>1. /\ gateway' \in GatewayType /\ gateway'.applied = loop.revision
      /\ routes' \in RoutesType /\ routes'.revision = routes.revision
      /\ routes'.token = routes.token
      /\ \A b \in Backends :
           /\ routes'.of[b].active = routes.of[b].active
           /\ routes'.of[b].removal = routes.of[b].removal
           /\ \/ routes'.of[b].state = routes.of[b].state
              \/ routes.of[b].state = "revoked" /\ routes'.of[b].state = "gone"
  BY <1>a, Confirmed
<1>2. /\ loop' \in LoopType /\ loop'.pc = "wait" /\ relay' \in RelayType
      /\ \/ relay'.target = 0
         \/ /\ loop.pc = "confirm" /\ relay' = relay
            /\ loop'.gen = loop.gen /\ loop'.loaded = loop.loaded
  <2>1. CASE ConfirmLoad
    BY <1>t, <2>1, RestsTyped DEF ConfirmLoad
  <2>2. CASE ConfirmEmpty
    BY <1>t, <2>2, RestsTyped, NothingPublished DEF ConfirmEmpty
  <2> QED BY <2>1, <2>2
<1>3. ProviderTypeOK'
  BY <1>a, <1>1, <1>2 DEF ProviderInv, ProviderTypeOK
<1>4. gateway.applied <= loop.revision /\ loop.revision <= routes.revision
  BY <1>a DEF ProviderInv, LoopInOrder, Working
<1>5. LoopInOrder'
  BY <1>a, <1>1, <1>2, <1>4 DEF ProviderInv, LoopInOrder, Working
<1>6. SnapshotIsCurrent' /\ LoadedIsCurrent'
  BY <1>2 DEF SnapshotIsCurrent, LoadedIsCurrent, Working
<1>7. ServedIsCurrent'
  <2> SUFFICES ASSUME Serving' PROVE Configured(gateway.applied)'
    BY DEF ServedIsCurrent
  <2>1. Configured(loop.revision)
    BY <1>a, <1>2 DEF ProviderInv, LoopInOrder, LoadedIsCurrent, Serving, GenerationDone
  <2> QED BY <1>a, <1>1, <2>1 DEF Configured, Reflects, RouteDesired
<1>8. RoutesOwned'
  <2> SUFFICES ASSUME NEW b \in Backends PROVE Owned(b)'
    BY DEF RoutesOwned
  <2>1. Owned(b)
    BY DEF ProviderInv, RoutesOwned
  <2>2. /\ request[b].revision \in Nat /\ routes.of[b].removal \in Nat
        /\ loop.revision \in Nat /\ gateway.applied \in Nat
    BY <1>t DEF ProviderInv, ProviderTypeOK, Request, Route, RoutesType, GatewayType, LoopType
  <2> QED BY <1>a, <1>1, <1>4, <2>1, <2>2 DEF Owned, RouteDesired, Requesting
<1> QED BY <1>3, <1>5, <1>6, <1>7, <1>8 DEF ProviderInv

\* The end of the process, of the relay and of the pool publish nothing.
LEMMA ProcessEndsKeeps ==
  ASSUME ProviderInv, CaddyDies \/ CloseRelay \/ ShutdownPool
  PROVE  ProviderInv'
<1>t. caddy \in CaddyType /\ relay \in RelayType
  BY DEF ProviderInv, ProviderTypeOK
<1>1. UNCHANGED <<gateway, routes, loop, request, backend>>
  BY DEF CaddyDies, CloseRelay, ShutdownPool
<1>2. /\ caddy' \in CaddyType /\ caddy'.gen = caddy.gen
      /\ relay' \in RelayType
      /\ \/ ~caddy'.alive /\ relay' = relay
         \/ caddy' = caddy /\ relay'.target = 0
  <2>1. CASE CaddyDies
    BY <1>t, <2>1 DEF CaddyDies, CaddyType
  <2>2. CASE CloseRelay
    BY <1>t, <2>2 DEF CloseRelay, RelayType
  <2>3. CASE ShutdownPool
    BY <1>t, <2>3 DEF ShutdownPool, CaddyType
  <2> QED BY <2>1, <2>2, <2>3
<1>3. ProviderTypeOK'
  BY <1>1, <1>2 DEF ProviderInv, ProviderTypeOK
<1>4. LoopInOrder'
  BY <1>1, <1>2 DEF ProviderInv, LoopInOrder, Working
<1>5. SnapshotIsCurrent'
  BY <1>1 DEF ProviderInv, SnapshotIsCurrent, Reflects, RouteDesired
<1>6. LoadedIsCurrent'
  BY <1>1, <1>2 DEF ProviderInv, LoopInOrder, LoadedIsCurrent, GenerationDone, Configured, Reflects,
    RouteDesired
<1>7. ServedIsCurrent'
  BY <1>1, <1>2 DEF ServedIsCurrent, Serving, GenerationDone
<1>8. RoutesOwned'
  BY <1>1, OwnersStay
<1> QED BY <1>3, <1>4, <1>5, <1>6, <1>7, <1>8 DEF ProviderInv

\* Links and the first steps of a shutdown touch no route.
LEMMA OthersKeep ==
  ASSUME ProviderInv, UNCHANGED <<routes, loop, caddy, relay, request, backend>>,
         gateway' \in GatewayType, gateway'.applied = gateway.applied
  PROVE  ProviderInv'
<1>1. ProviderTypeOK'
  BY DEF ProviderInv, ProviderTypeOK
<1>2. ASSUME NEW b \in Backends PROVE RouteKept(b) /\ Owned(b)'
  BY DEF ProviderInv, RoutesOwned, Owned, RouteKept, RouteDesired
<1>3. routes'.revision >= routes.revision
  BY DEF ProviderInv, ProviderTypeOK, RoutesType
<1> QED BY <1>1, <1>2, <1>3, RequestsGo

LEMMA ProviderKeeps ==
  ASSUME ProviderInv, ProviderNext
  PROVE  ProviderInv'
<1>t. gateway \in GatewayType
  BY DEF ProviderInv, ProviderTypeOK
<1>1. CASE LoopStep
  BY <1>1, ReconcileKeeps, RestingKeeps, PublishKeeps, ConfirmKeeps DEF LoopStep
<1>2. CASE AcquireGeneration \/ LoadConfig \/ CaddyDies \/ CloseRelay \/ ShutdownPool
  BY <1>2, AcquireGenerationKeeps, LoadConfigKeeps, ProcessEndsKeeps
<1>3. CASE GatewayFails
  <2>1. gateway' \in GatewayType /\ gateway'.applied = gateway.applied
    BY <1>t, <1>3 DEF GatewayFails, GatewayType
  <2> QED BY <1>3, <2>1, OthersKeep DEF GatewayFails
<1>4. CASE ShutdownResolver
  BY <1>t, <1>4, OthersKeep DEF ShutdownResolver
<1>5. CASE ShutdownGateway
  <2>1. gateway' \in GatewayType /\ gateway'.applied = gateway.applied
    <3>1. UNCHANGED gateway \/ gateway' = [gateway EXCEPT !.closing = TRUE]
      BY <1>5 DEF ShutdownGateway
    <3> QED BY <1>t, <3>1 DEF GatewayType
  <2> QED BY <1>5, <2>1, OthersKeep DEF ShutdownGateway
<1>6. CASE CancelLifetime
  <2>1. gateway' \in GatewayType /\ gateway'.applied = gateway.applied
    BY <1>t, <1>6 DEF CancelLifetime, GatewayType
  <2> QED BY <1>6, <2>1, OthersKeep DEF CancelLifetime
<1>7. ASSUME NEW b \in Backends,
             GatewayFor(b) \/ AcquireStep(b) \/ CancelAcquire(b) \/ ReleaseStep(b)
               \/ TimeoutStep(b) \/ Revoke(b)
      PROVE  ProviderInv'
  BY <1>7, GatewayForKeeps, FlightEndsKeeps, AcquireCheckedKeeps, AcquireRouteKeeps,
    AcquireSignalsKeeps, WaitRevisionKeeps, RegisterKeeps,
    RollbackKeeps, RolledBackKeeps, RevokeKeeps, ReleaseKeeps DEF AcquireStep, ReleaseStep,
    TimeoutStep
<1>8. ASSUME NEW n \in Conns, AcceptLink(n) \/ ConnectLink(n) \/ CloseLink(n)
      PROVE  ProviderInv'
  BY <1>t, <1>8, OthersKeep DEF AcceptLink, ConnectLink, CloseLink
<1> QED BY <1>1, <1>2, <1>3, <1>4, <1>5, <1>6, <1>7, <1>8 DEF ProviderNext, ShutdownStep

----------------------------------------
(* The theorems of the gateway.                                            *)

\* The invariant of the gateway: the routes, their backends, the loop and what
\* Caddy has loaded agree, whatever is acquired, rejected, repeated or lost.
THEOREM ProviderInvariant == ProviderSpec => []ProviderInv
<1>1. ProviderInit => ProviderInv
  <2> SUFFICES ASSUME ProviderInit PROVE ProviderInv
    OBVIOUS
  <2>1. ProviderTypeOK
    <3>1. gateway \in GatewayType
      BY DEF ProviderInit, NewGateway, GatewayType
    <3>2. routes \in RoutesType
      BY DEF ProviderInit, NewRoutes, RoutesType, Route, RouteLife
    <3>3. loop \in LoopType
      BY DEF ProviderInit, NewLoop, LoopType, LoopSteps
    <3>4. caddy \in CaddyType /\ relay \in RelayType
      BY DEF ProviderInit, NoGeneration, CaddyType, NewRelay, RelayType
    <3>5. request \in [Backends -> Request]
      BY DEF ProviderInit, NoRequest, Request, RequestSteps, Requesting
    <3>6. backend \in [Backends -> Value]
      BY DEF ProviderInit, NoBackend, Value
    <3> QED BY <3>1, <3>2, <3>3, <3>4, <3>5, <3>6 DEF ProviderTypeOK
  <2>2. LoopInOrder
    BY DEF ProviderInit, NewGateway, NewRoutes, NewLoop, NoGeneration, NewRelay, LoopInOrder, Working
  <2>3. SnapshotIsCurrent /\ LoadedIsCurrent
    BY DEF ProviderInit, NewLoop, SnapshotIsCurrent, LoadedIsCurrent, Working
  <2>4. ServedIsCurrent
    BY DEF ProviderInit, NewRelay, ServedIsCurrent, Serving
  <2>5. RoutesOwned
    BY DEF ProviderInit, NewRoutes, NoRequest, NoBackend, RoutesOwned, Owned, Requesting
  <2> QED BY <2>1, <2>2, <2>3, <2>4, <2>5 DEF ProviderInv
<1>2. ProviderInv /\ [ProviderNext]_providerVars => ProviderInv'
  <2> SUFFICES ASSUME ProviderInv, [ProviderNext]_providerVars PROVE ProviderInv'
    OBVIOUS
  <2>1. CASE UNCHANGED providerVars
    <3>1. /\ UNCHANGED <<routes, loop, caddy, relay, request, backend>> /\ gateway' = gateway
      BY <2>1 DEF providerVars
    <3> QED BY <3>1, OthersKeep DEF ProviderInv, ProviderTypeOK
  <2> QED BY <2>1, ProviderKeeps
<1> QED BY <1>1, <1>2, PTL DEF ProviderSpec

\* What the published Caddy serves is what is held: a held route is in its
\* configuration and active under the current token, and one whose release has
\* succeeded is not, over loads that are overtaken, rejected or repeated.
THEOREM RoutesCurrent == ProviderSpec => []RoutesAreCurrent
<1>1. ProviderInv => RoutesAreCurrent
  <2> SUFFICES ASSUME ProviderInv, Serving, NEW b \in Backends
               PROVE  /\ backend[b].state = "held" =>
                           b \in caddy.config /\ caddy.token = routes.token /\ routes.of[b].active
                      /\ backend[b].result = "ok" => b \notin caddy.config
    BY DEF RoutesAreCurrent, HeldRoutesAreServed, ReleasedRoutesAreUnloaded
  <2>1. Owned(b) /\ Configured(gateway.applied) /\ gateway.applied \in Nat
    BY DEF ProviderInv, RoutesOwned, ServedIsCurrent, ProviderTypeOK, GatewayType
  <2>2. CASE backend[b].state = "held"
    <3>1. RouteDesired(b) /\ routes.of[b].active /\ request[b].revision <= gateway.applied
      BY <2>1, <2>2 DEF Owned
    <3>2. b \in caddy.config /\ caddy.token = routes.token
      BY <2>1, <3>1 DEF Configured, Reflects
    <3>3. backend[b].result # "ok"
      BY <2>1, <2>2 DEF Owned
    <3> QED BY <3>1, <3>2, <3>3
  <2>3. CASE backend[b].result = "ok"
    BY <2>1, <2>3 DEF Owned, Configured, Reflects
  <2> QED BY <2>2, <2>3
<1> QED BY <1>1, ProviderInvariant, PTL

\* Every step of the pool, the factory, the instance, its readers and the
\* worker that stops it keeps the invariant.
LEMMA CaddyKeeps ==
  ASSUME CaddyInv, CaddyNext
  PROVE  CaddyInv'
<1> USE DEF CaddyInv
<1>1. CASE OpenRuntime \/ OpenPart \/ PoolShutdown \/ FinishShutdown
  BY <1>1 DEF OpenRuntime, OpenPart, PoolShutdown, FinishShutdown
<1>2. CASE CreateDirectories
  BY <1>2 DEF CreateDirectories
<1>3. CASE Launch
  BY <1>3 DEF Launch
<1>4. CASE NewInstance
  BY <1>4 DEF NewInstance
<1>5. CASE WaitReady
  BY <1>5 DEF WaitReady
<1>6. CASE ProcessExits
  BY <1>6 DEF ProcessExits
<1>7. CASE InstanceWait
  BY <1>7 DEF InstanceWait, Readers
<1>8. CASE LoadBegins \/ LoadStep
  BY <1>8 DEF LoadBegins, LoadStep, LoadRequest, InstanceDone
<1>9. CASE StopBegins
  BY <1>9 DEF StopBegins
<1>10. CASE StopStep \/ InstanceKill
  <2>1. /\ UNCHANGED <<start, load, dial>> /\ stop # "none"
        /\ UNCHANGED inst \/ inst' = [inst EXCEPT !.proc = "exited"]
    BY <1>10 DEF StopStep, StopRequest, InstanceKill
  <2> QED BY <2>1
<1>11. CASE \E d \in Dialers : DialData(d) \/ DialStep(d)
  BY <1>11 DEF DialData, DialStep, InstanceDone
<1> QED BY <1>1, <1>2, <1>3, <1>4, <1>5, <1>6, <1>7, <1>8, <1>9, <1>10, <1>11 DEF CaddyNext,
  StartStep

\* The invariant of Caddy: its instance, its start, its wait and its readers.
THEOREM CaddyInvariant == CaddySpec => []CaddyInv
<1>1. CaddyInit => CaddyInv
  BY DEF CaddyInit, CaddyInv, NoInstance
<1>2. CaddyInv /\ [CaddyNext]_caddyVars => CaddyInv'
  <2> SUFFICES ASSUME CaddyInv, [CaddyNext]_caddyVars PROVE CaddyInv'
    OBVIOUS
  <2>1. CASE UNCHANGED caddyVars
    BY <2>1 DEF CaddyInv, caddyVars
  <2> QED BY <2>1, CaddyKeeps
<1> QED BY <1>1, <1>2, PTL DEF CaddySpec

\* The directories of Caddy outlive its process and those who dial through
\* them: the safety half of CaddyIsContained (newInstance, instance.wait).
THEOREM CaddyKeepsDirectories == CaddySpec => []DirectoriesOutliveTheProcess
<1>1. CaddyInv => DirectoriesOutliveTheProcess
  BY DEF CaddyInv, DirectoriesOutliveTheProcess, Readers
<1> QED BY <1>1, CaddyInvariant, PTL

----------------------------------------
(* The models of a resource.                                               *)

FlightSteps ==
  {"open", "loop", "waiting", "backoff", "starting", "started", "leaving", "discovering",
   "discovered", "publish"}
ListSteps == {"list", "joining", "discovering", "discovered", "publish", "listed"}
CallerSteps == FlightSteps \cup ListSteps \cup {"idle", "stream"}

ListCaller ==
  [pc : CallerSteps, task : {"stream", "list"}, res : Resources, ctx : {"live", "cancelled"},
   on : Callers \cup {Nobody}, got : 0 .. MaxRoutes, ok : BOOLEAN,
   asked : 0 .. MaxFlushes, began : Nat, generation : Nat]

ListCache ==
  [present : BOOLEAN, models : Nat, fresh : BOOLEAN, generation : Nat,
   flight : Callers \cup {Nobody}, timer : Timer, late : Int]

\* A flight of x, a caller of ListModels, and one that has an answer.
InFlight(x) == x.task = "list" /\ x.pc \in FlightSteps
Answering(x) == InFlight(x) \/ x.pc = "listed"

\* What a caller x knows while its resource has been flushed n times.
CallerKept(x, n) ==
  /\ x.pc \in ListSteps => x.task = "list"
  /\ x.asked <= n
  /\ Answering(x) => x.began >= x.asked
  /\ x.pc = "joining" => x.on \in Callers

\* What is in a cache c after n flushes: nothing older than the last one, and
\* a flight of its own generation brings nothing older either.
CacheKept(r, c, n) ==
  /\ c.models \in {NoModels, n}
  /\ c.flight # Nobody =>
       /\ c.present
       /\ caller[c.flight].res = r /\ InFlight(caller[c.flight])
       /\ caller[c.flight].generation <= c.generation
       /\ caller[c.flight].generation = c.generation => caller[c.flight].began = n

ListInv ==
  /\ caller \in [Callers -> ListCaller]
  /\ caches \in [Resources -> ListCache]
  /\ flushes \in [Resources -> 0 .. MaxFlushes]
  /\ \A o \in Callers : CallerKept(caller[o], flushes[caller[o].res])
  /\ \A r \in Resources : CacheKept(r, caches[r], flushes[r])
  /\ NoJoinerIsStranded

\* A runtime as far as its route is concerned: whose start is under way and
\* what it retains; none is left when the handler closes.
RouteRuntime ==
  [present : BOOLEAN, leases : Int, waiters : Int, streams : Int, backend : 0 .. MaxRoutes,
   starting : Callers \cup {Nobody}, backoff : BOOLEAN, idle : Timer]

StartKept(o) ==
  caller[o].pc \in {"starting", "started"} =>
    LET c == runtimes[caller[o].res] IN
    closing \/ (c.present /\ c.starting = o /\ c.backend = 0)

RouteInv ==
  /\ runtimes \in [Resources -> RouteRuntime]
  /\ closing \in BOOLEAN
  /\ route \in [Routes -> RouteStates]
  /\ closing => \A r \in Resources : ~runtimes[r].present /\ runtimes[r].leases = 0
  /\ \A o \in Callers : StartKept(o)
  /\ NoRouteIsLost

ModelInv == ListInv /\ RouteInv

\* What a step that leaves the caches alone makes of a caller x of a resource
\* that was flushed n times.
Follows(x, y, n) ==
  /\ y.res = x.res
  /\ y.asked \in {x.asked, 0, n}
  /\ y.pc \in ListSteps => y.task = "list"
  /\ InFlight(x) => InFlight(y) /\ y.began = x.began /\ y.generation = x.generation
  /\ Answering(y) => Answering(x) /\ y.began = x.began /\ y.asked = x.asked
  /\ y.pc = "joining" => x.pc = "joining" /\ y.on = x.on

\* ... and what a step that starts nothing makes of a caller, and of a runtime
\* before and after it.
Stays(x, y) ==
  /\ y.res = x.res
  /\ y.pc \in {"starting", "started"} => x.pc \in {"starting", "started"}
  /\ x.pc = "started" => y.pc = "started" /\ y.got = x.got

RuntimeStays(c, d) ==
  /\ d.backend = c.backend /\ d.starting = c.starting
  /\ c.starting # Nobody /\ c.present => d.present
  /\ closing => ~d.present /\ d.leases = 0

LEMMA CallersMove ==
  ASSUME ModelsAssumption, ListInv, UNCHANGED cacheVars, caller' \in [Callers -> ListCaller],
         \A o \in Callers : Follows(caller[o], caller'[o], flushes[caller[o].res])
  PROVE  ListInv'
<1>0. caller \in [Callers -> ListCaller] /\ flushes \in [Resources -> 0 .. MaxFlushes]
      /\ caches \in [Resources -> ListCache] /\ MaxFlushes \in Nat /\ Nobody \notin Callers
      /\ caches' = caches /\ flushes' = flushes
  BY DEF ListInv, ModelsAssumption, cacheVars
<1>1. ASSUME NEW o \in Callers PROVE CallerKept(caller[o], flushes[caller[o].res])'
  <2>1. Follows(caller[o], caller'[o], flushes[caller[o].res])
        /\ CallerKept(caller[o], flushes[caller[o].res])
    BY DEF ListInv
  <2>2. caller[o] \in ListCaller /\ caller'[o] \in ListCaller
    BY <1>0
  <2>3. flushes[caller[o].res] \in Nat /\ caller[o].asked \in Nat
    BY <1>0, <2>2 DEF ListCaller
  <2> QED BY <1>0, <2>1, <2>2, <2>3 DEF Follows, CallerKept, Answering, InFlight
<1>2. ASSUME NEW r \in Resources PROVE CacheKept(r, caches[r], flushes[r])'
  <2>1. CacheKept(r, caches[r], flushes[r]) /\ caches[r].flight \in Callers \cup {Nobody}
    BY <1>0 DEF ListInv, ListCache
  <2>2. CASE caches[r].flight = Nobody
    BY <1>0, <2>1, <2>2 DEF CacheKept
  <2>3. CASE caches[r].flight \in Callers
    <3>1. Follows(caller[caches[r].flight], caller'[caches[r].flight],
                  flushes[caller[caches[r].flight].res])
      BY <2>3
    <3> QED BY <1>0, <2>1, <2>3, <3>1 DEF CacheKept, Follows
  <2> QED BY <2>1, <2>2, <2>3
<1>3. NoJoinerIsStranded'
  BY <1>0 DEF ListInv, NoJoinerIsStranded, Follows
<1> QED BY <1>0, <1>1, <1>2, <1>3 DEF ListInv

\* One caller moves.
LEMMA CallerMoves ==
  ASSUME ModelsAssumption, ListInv, UNCHANGED cacheVars, caller' \in [Callers -> ListCaller],
         NEW o \in Callers, \A w \in Callers \ {o} : caller'[w] = caller[w],
         Follows(caller[o], caller'[o], flushes[caller[o].res])
  PROVE  ListInv'
<1>1. ASSUME NEW w \in Callers PROVE Follows(caller[w], caller'[w], flushes[caller[w].res])
  <2>1. CallerKept(caller[w], flushes[caller[w].res])
    BY DEF ListInv
  <2> QED BY <2>1 DEF CallerKept, Follows
<1> QED BY <1>1, CallersMove

LEMMA RoutesStay ==
  ASSUME ModelsAssumption, RouteInv, UNCHANGED <<closing, route>>,
         runtimes' \in [Resources -> RouteRuntime],
         \A r \in Resources : RuntimeStays(runtimes[r], runtimes'[r]),
         \A o \in Callers : caller[o].res \in Resources /\ Stays(caller[o], caller'[o])
  PROVE  RouteInv'
<1>0. Nobody \notin Callers
  BY DEF ModelsAssumption
<1>1. ASSUME NEW o \in Callers PROVE StartKept(o)'
  <2>1. StartKept(o) /\ Stays(caller[o], caller'[o])
        /\ RuntimeStays(runtimes[caller[o].res], runtimes'[caller[o].res])
    BY DEF RouteInv
  <2> QED BY <1>0, <2>1 DEF StartKept, Stays, RuntimeStays
<1>2. closing' => \A r \in Resources : ~runtimes'[r].present /\ runtimes'[r].leases = 0
  BY DEF RuntimeStays
<1>3. NoRouteIsLost'
  <2>1. \A r \in Resources : runtimes'[r].backend = runtimes[r].backend
    BY DEF RuntimeStays
  <2> QED BY <2>1 DEF RouteInv, NoRouteIsLost, Stays
<1> QED BY <1>1, <1>2, <1>3 DEF RouteInv

\* One runtime changes, or none.
LEMMA RuntimeChanges ==
  ASSUME ModelsAssumption, RouteInv, UNCHANGED <<closing, route>>,
         NEW r \in Resources, NEW d \in RouteRuntime, runtimes' = [runtimes EXCEPT ![r] = d],
         RuntimeStays(runtimes[r], d),
         \A o \in Callers : caller[o].res \in Resources /\ Stays(caller[o], caller'[o])
  PROVE  RouteInv'
<1>1. ASSUME NEW s \in Resources PROVE RuntimeStays(runtimes[s], runtimes'[s])
  <2>1. CASE s = r
    BY <2>1 DEF RouteInv
  <2>2. CASE s # r
    BY <2>2 DEF RouteInv, RuntimeStays
  <2> QED BY <2>1, <2>2
<1>2. runtimes' \in [Resources -> RouteRuntime]
  BY DEF RouteInv
<1> QED BY <1>1, <1>2, RoutesStay

LEMMA RuntimesRest ==
  ASSUME ModelsAssumption, RouteInv, UNCHANGED <<closing, route, runtimes>>,
         \A o \in Callers : caller[o].res \in Resources /\ Stays(caller[o], caller'[o])
  PROVE  RouteInv'
<1>1. \A r \in Resources : RuntimeStays(runtimes[r], runtimes'[r])
  BY DEF RouteInv, RuntimeStays
<1>2. runtimes' \in [Resources -> RouteRuntime]
  BY DEF RouteInv
<1> QED BY <1>1, <1>2, RoutesStay

\* releaseDemandLocked keeps the route and the start of a runtime.
LEMMA ReleasedStays ==
  ASSUME ModelsAssumption, NEW c \in RouteRuntime, NEW d \in RouteRuntime, RuntimeStays(c, d)
  PROVE  ReleaseDemand(d) \in RouteRuntime /\ RuntimeStays(c, ReleaseDemand(d))
<1>0. NoRuntime \in RouteRuntime /\ ~NoRuntime.present /\ NoRuntime.leases = 0
      /\ NoRuntime.backend = 0 /\ NoRuntime.starting = Nobody
  BY DEF NoRuntime, RouteRuntime, Timer, ModelsAssumption
<1> DEFINE e == [d EXCEPT !.idle = "armed"]
<1>1. e \in RouteRuntime /\ e.present = d.present /\ e.leases = d.leases
      /\ e.backend = d.backend /\ e.starting = d.starting
  BY DEF RouteRuntime, Timer
<1> HIDE DEF e
<1>2. CASE Needed(d)
  BY <1>2 DEF ReleaseDemand
<1>3. CASE ~Needed(d) /\ d.backend = 0
  BY <1>0, <1>3 DEF ReleaseDemand, RuntimeStays, Needed
<1>4. CASE ~Needed(d) /\ d.backend # 0
  <2>1. ReleaseDemand(d) = IF d.idle = "none" THEN e ELSE d
    BY <1>4 DEF ReleaseDemand, e
  <2> QED BY <1>1, <2>1 DEF RuntimeStays
<1> QED BY <1>2, <1>3, <1>4

LEMMA OneCaller ==
  ASSUME ModelsAssumption, ModelInv, UNCHANGED <<cacheVars, closing, route, runtimes>>,
         NEW o \in Callers, NEW y \in ListCaller, caller' = [caller EXCEPT ![o] = y],
         Follows(caller[o], y, flushes[caller[o].res]), Stays(caller[o], y)
  PROVE  ModelInv'
<1>0. caller \in [Callers -> ListCaller]
  BY DEF ModelInv, ListInv
<1>1. caller' \in [Callers -> ListCaller] /\ caller'[o] = y
      /\ \A w \in Callers \ {o} : caller'[w] = caller[w]
  BY <1>0
<1>2. ListInv'
  BY <1>1, CallerMoves DEF ModelInv
<1>3. \A w \in Callers : caller[w].res \in Resources /\ Stays(caller[w], caller'[w])
  BY <1>0, <1>1 DEF ListCaller, Stays
<1> QED BY <1>2, <1>3, RuntimesRest DEF ModelInv

LEMMA OneCallerOneRuntime ==
  ASSUME ModelsAssumption, ModelInv, UNCHANGED <<cacheVars, closing, route>>,
         NEW o \in Callers, NEW y \in ListCaller, caller' = [caller EXCEPT ![o] = y],
         Follows(caller[o], y, flushes[caller[o].res]), Stays(caller[o], y),
         NEW r \in Resources, NEW d \in RouteRuntime, runtimes' = [runtimes EXCEPT ![r] = d],
         RuntimeStays(runtimes[r], d)
  PROVE  ModelInv'
<1>0. caller \in [Callers -> ListCaller]
  BY DEF ModelInv, ListInv
<1>1. caller' \in [Callers -> ListCaller] /\ caller'[o] = y
      /\ \A w \in Callers \ {o} : caller'[w] = caller[w]
  BY <1>0
<1>2. ListInv'
  BY <1>1, CallerMoves DEF ModelInv
<1>3. \A w \in Callers : caller[w].res \in Resources /\ Stays(caller[w], caller'[w])
  BY <1>0, <1>1 DEF ListCaller, Stays
<1> QED BY <1>2, <1>3, RuntimeChanges DEF ModelInv

LEMMA OneRuntime ==
  ASSUME ModelsAssumption, ModelInv, UNCHANGED <<cacheVars, caller, closing, route>>,
         NEW r \in Resources, NEW d \in RouteRuntime, runtimes' = [runtimes EXCEPT ![r] = d],
         RuntimeStays(runtimes[r], d)
  PROVE  ModelInv'
<1>1. ListInv'
  BY DEF ModelInv, ListInv, NoJoinerIsStranded, CacheKept, cacheVars
<1>2. \A w \in Callers : caller[w].res \in Resources /\ Stays(caller[w], caller'[w])
  BY DEF ModelInv, ListInv, ListCaller, Stays
<1> QED BY <1>1, <1>2, RuntimeChanges DEF ModelInv

LEMMA InitModelInv == ASSUME ModelsAssumption, ModelInit PROVE ModelInv
<1>0. 0 \in 0 .. MaxRoutes /\ 0 \in 0 .. MaxFlushes /\ 0 \in Nat /\ Nobody \notin Callers
  BY DEF ModelsAssumption
<1>1. caller \in [Callers -> ListCaller]
      /\ \A o \in Callers : caller[o].pc = "idle" /\ caller[o].task = "stream" /\ caller[o].asked = 0
  <2> DEFINE first(r) == [pc |-> "idle", task |-> "stream", res |-> r, ctx |-> "live",
                          on |-> Nobody, got |-> 0, ok |-> FALSE, asked |-> 0, began |-> 0,
                          generation |-> 0]
  <2>1. \A r \in Resources : first(r) \in ListCaller /\ first(r).pc = "idle"
                             /\ first(r).task = "stream" /\ first(r).asked = 0
    BY <1>0 DEF ListCaller, CallerSteps
  <2>2. caller \in [Callers -> {first(r) : r \in Resources}]
    BY DEF ModelInit
  <2> HIDE DEF first
  <2> QED BY <2>1, <2>2
<1>2. NoCache \in ListCache /\ NoCache.models = NoModels /\ NoCache.flight = Nobody
      /\ NoRuntime \in RouteRuntime /\ ~NoRuntime.present /\ NoRuntime.leases = 0
  BY DEF NoCache, ListCache, NoModels, NoRuntime, RouteRuntime, Timer, ModelsAssumption
<1>3. ListInv
  BY <1>1, <1>2 DEF ModelInit, ModelsAssumption, ListInv, CallerKept, CacheKept, Answering, InFlight,
    FlightSteps, ListSteps, NoJoinerIsStranded
<1>4. RouteInv
  BY <1>1, <1>2 DEF ModelInit, RouteInv, RouteStates, StartKept, NoRouteIsLost
<1> QED BY <1>3, <1>4 DEF ModelInv

----------------------------------------
(* A caller moves.                                                         *)

LEMMA CallerStep ==
  ASSUME ModelsAssumption, ModelInv, NEW o \in Callers,
         \/ Call(o, "stream") \/ Call(o, "list") \/ CancelContext(o) \/ JoinCancelled(o)
         \/ Listed(o) \/ WaitCancelled(o) \/ BackoffElapsed(o) \/ RouteRefused(o)
         \/ DiscoverReturns(o)
  PROVE  ModelInv'
<1>0. caller \in [Callers -> ListCaller] /\ caller[o] \in ListCaller
      /\ CallerKept(caller[o], flushes[caller[o].res])
      /\ flushes \in [Resources -> 0 .. MaxFlushes] /\ flushes[caller[o].res] \in 0 .. MaxFlushes
      /\ Nobody \notin Callers /\ MaxFlushes \in Nat /\ MaxRoutes \in Nat
      /\ 0 \in 0 .. MaxRoutes /\ 0 \in 0 .. MaxFlushes /\ 0 \in Nat
  BY DEF ModelInv, ListInv, ModelsAssumption, ListCaller
<1>1. Rested(caller[o]) \in ListCaller
  BY <1>0 DEF Rested, ListCaller, CallerSteps
<1>2. ASSUME caller[o].pc \in {"joining", "listed"}, Return(o),
             UNCHANGED <<cacheVars, closing, route, runtimes>>
      PROVE  ModelInv'
  <2>1. caller' = [caller EXCEPT ![o] = Rested(caller[o])]
    BY <1>2 DEF Return
  <2>2. Follows(caller[o], Rested(caller[o]), flushes[caller[o].res])
        /\ Stays(caller[o], Rested(caller[o]))
    BY <1>0, <1>2 DEF Rested, ListCaller, Follows, Stays, InFlight, Answering, FlightSteps, ListSteps
  <2> QED BY <1>1, <1>2, <2>1, <2>2, OneCaller
<1>3. ASSUME NEW y \in ListCaller, caller' = [caller EXCEPT ![o] = y],
             UNCHANGED <<cacheVars, closing, route, runtimes>>,
             Follows(caller[o], y, flushes[caller[o].res]), Stays(caller[o], y)
      PROVE  ModelInv'
  BY <1>3, OneCaller
<1>4. ASSUME NEW task \in {"stream", "list"}, Call(o, task) PROVE ModelInv'
  <2> DEFINE y == [caller[o] EXCEPT !.pc = IF task = "list" THEN "list" ELSE "open",
                                    !.task = task, !.asked = flushes[caller[o].res]]
  <2>1. y \in ListCaller /\ caller' = [caller EXCEPT ![o] = y]
    BY <1>0, <1>4 DEF Call, ListCaller, CallerSteps, FlightSteps, ListSteps
  <2>2. Follows(caller[o], y, flushes[caller[o].res]) /\ Stays(caller[o], y)
    BY <1>0, <1>4 DEF Call, ListCaller, Follows, Stays, InFlight, Answering, FlightSteps, ListSteps
  <2>3. UNCHANGED <<cacheVars, closing, route, runtimes>>
    BY <1>4 DEF Call, runtimeVars, flagVars
  <2> HIDE DEF y
  <2> QED BY <2>1, <2>2, <2>3, <1>3
<1>5. CASE CancelContext(o)
  <2> DEFINE y == [caller[o] EXCEPT !.ctx = "cancelled"]
  <2>1. y \in ListCaller /\ caller' = [caller EXCEPT ![o] = y]
    BY <1>0, <1>5 DEF CancelContext, ListCaller
  <2>2. Follows(caller[o], y, flushes[caller[o].res]) /\ Stays(caller[o], y)
    BY <1>0 DEF ListCaller, Follows, Stays, InFlight, Answering, CallerKept
  <2>3. UNCHANGED <<cacheVars, closing, route, runtimes>>
    BY <1>5 DEF CancelContext, runtimeVars, flagVars
  <2> HIDE DEF y
  <2> QED BY <2>1, <2>2, <2>3, <1>3
<1>6. CASE JoinCancelled(o)
  BY <1>2, <1>6 DEF JoinCancelled, runtimeVars, flagVars
<1>7. CASE Listed(o)
  BY <1>2, <1>7 DEF Listed, runtimeVars, flagVars
<1>8. CASE WaitCancelled(o)
  <2> DEFINE y == [caller[o] EXCEPT !.pc = "leaving", !.ok = FALSE]
  <2>1. y \in ListCaller /\ caller' = [caller EXCEPT ![o] = y]
    BY <1>0, <1>8 DEF WaitCancelled, Leave, ListCaller, CallerSteps, FlightSteps
  <2>2. Follows(caller[o], y, flushes[caller[o].res]) /\ Stays(caller[o], y)
    BY <1>0, <1>8 DEF WaitCancelled, Interruptible, ListCaller, Follows, Stays, InFlight, Answering,
      FlightSteps, ListSteps
  <2>3. UNCHANGED <<cacheVars, closing, route, runtimes>>
    BY <1>8 DEF WaitCancelled, runtimeVars, flagVars
  <2> HIDE DEF y
  <2> QED BY <2>1, <2>2, <2>3, <1>3
<1>9. CASE BackoffElapsed(o)
  <2> DEFINE y == [caller[o] EXCEPT !.pc = "loop"]
  <2>1. y \in ListCaller /\ caller' = [caller EXCEPT ![o] = y]
    BY <1>0, <1>9 DEF BackoffElapsed, Goto, ListCaller, CallerSteps, FlightSteps
  <2>2. Follows(caller[o], y, flushes[caller[o].res]) /\ Stays(caller[o], y)
    BY <1>0, <1>9 DEF BackoffElapsed, ListCaller, Follows, Stays, InFlight, Answering,
      FlightSteps, ListSteps
  <2>3. UNCHANGED <<cacheVars, closing, route, runtimes>>
    BY <1>9 DEF BackoffElapsed, runtimeVars, flagVars
  <2> HIDE DEF y
  <2> QED BY <2>1, <2>2, <2>3, <1>3
<1>10. CASE RouteRefused(o)
  <2> DEFINE y == [caller[o] EXCEPT !.pc = "started", !.got = 0]
  <2>1. y \in ListCaller /\ caller' = [caller EXCEPT ![o] = y]
    BY <1>0, <1>10 DEF RouteRefused, ListCaller, CallerSteps, FlightSteps
  <2>2. Follows(caller[o], y, flushes[caller[o].res]) /\ Stays(caller[o], y)
    BY <1>0, <1>10 DEF RouteRefused, ListCaller, Follows, Stays, InFlight, Answering, FlightSteps,
      ListSteps
  <2>3. UNCHANGED <<cacheVars, closing, route, runtimes>>
    BY <1>10 DEF RouteRefused, runtimeVars, flagVars
  <2> HIDE DEF y
  <2> QED BY <2>1, <2>2, <2>3, <1>3
<1>11. CASE DiscoverReturns(o)
  <2>1. PICK ok \in BOOLEAN : caller' = [caller EXCEPT ![o].pc = "discovered", ![o].ok = ok]
    BY <1>11 DEF DiscoverReturns
  <2> DEFINE y == [caller[o] EXCEPT !.pc = "discovered", !.ok = ok]
  <2>2. y \in ListCaller /\ caller' = [caller EXCEPT ![o] = y]
    BY <1>0, <2>1 DEF ListCaller, CallerSteps, FlightSteps
  <2>3. Follows(caller[o], y, flushes[caller[o].res]) /\ Stays(caller[o], y)
    BY <1>0, <1>11 DEF DiscoverReturns, ListCaller, Follows, Stays, InFlight, Answering,
      FlightSteps, ListSteps, CallerKept
  <2>4. UNCHANGED <<cacheVars, closing, route, runtimes>>
    BY <1>11 DEF DiscoverReturns, runtimeVars, flagVars
  <2> HIDE DEF y
  <2> QED BY <2>2, <2>3, <2>4, <1>3
<1> QED BY <1>4, <1>5, <1>6, <1>7, <1>8, <1>9, <1>10, <1>11

----------------------------------------
(* A runtime changes.                                                      *)

\* What Open and its timers change of a runtime besides its route.
LEMMA RuntimeUpdates ==
  ASSUME NEW c \in RouteRuntime, closing => ~c.present /\ c.leases = 0, NEW n \in Int, NEW m \in Int,
         NEW idle \in Timer
  PROVE  /\ RuntimeStays(c, c)
         /\ LET d == [c EXCEPT !.present = TRUE, !.leases = n] IN
              d \in RouteRuntime /\ (~closing => RuntimeStays(c, d))
         /\ LET d == [c EXCEPT !.leases = n] IN
              d \in RouteRuntime /\ (~closing => RuntimeStays(c, d))
         /\ LET d == [c EXCEPT !.backoff = FALSE] IN d \in RouteRuntime /\ RuntimeStays(c, d)
         /\ LET d == [c EXCEPT !.idle = idle] IN d \in RouteRuntime /\ RuntimeStays(c, d)
         /\ LET d == [c EXCEPT !.waiters = n, !.idle = idle] IN d \in RouteRuntime /\ RuntimeStays(c, d)
         /\ LET d == [c EXCEPT !.waiters = n, !.streams = m] IN d \in RouteRuntime /\ RuntimeStays(c, d)
         /\ LET d == [c EXCEPT !.waiters = n] IN d \in RouteRuntime /\ RuntimeStays(c, d)
         /\ LET d == [c EXCEPT !.streams = n] IN d \in RouteRuntime /\ RuntimeStays(c, d)
BY DEF RouteRuntime, RuntimeStays

LEMMA RuntimeSteps ==
  ASSUME ModelsAssumption, ModelInv, NEW r \in Resources,
         LeaseAcquired(r) \/ LeaseReleased(r) \/ RetryDue(r) \/ IdleDue(r)
  PROVE  ModelInv'
<1>0. runtimes[r] \in RouteRuntime
      /\ (closing => ~runtimes[r].present /\ runtimes[r].leases = 0)
  BY DEF ModelInv, RouteInv
<1>1. PICK c \in RouteRuntime : c = runtimes[r]
  BY <1>0
<1>2. (closing => ~c.present /\ c.leases = 0) /\ c.leases \in Int /\ c.leases + 1 \in Int
      /\ c.leases - 1 \in Int /\ "due" \in Timer
  BY <1>0, <1>1 DEF RouteRuntime, Timer
<1>3. ASSUME NEW d \in RouteRuntime, RuntimeStays(c, d), runtimes' = [runtimes EXCEPT ![r] = d],
             UNCHANGED <<cacheVars, caller, closing, route>>
      PROVE  ModelInv'
  BY <1>1, <1>3, OneRuntime
<1>4. CASE LeaseAcquired(r)
  <2> DEFINE d == [c EXCEPT !.present = TRUE, !.leases = c.leases + 1]
  <2>1. d \in RouteRuntime /\ (~closing => RuntimeStays(c, d))
    BY <1>2, RuntimeUpdates
  <2>2. runtimes' = [runtimes EXCEPT ![r] = d] /\ ~closing /\ UNCHANGED <<cacheVars, caller, closing, route>>
    BY <1>1, <1>4 DEF LeaseAcquired, SetRuntime, flagVars
  <2> HIDE DEF d
  <2> QED BY <2>1, <2>2, <1>3
<1>5. CASE LeaseReleased(r)
  <2> DEFINE d == [c EXCEPT !.leases = c.leases - 1]
  <2>1. d \in RouteRuntime /\ (~closing => RuntimeStays(c, d))
    BY <1>2, RuntimeUpdates
  <2>2. runtimes' = [runtimes EXCEPT ![r] = ReleaseDemand(d)] /\ c.leases > 0
        /\ UNCHANGED <<cacheVars, caller, closing, route>>
    BY <1>1, <1>5 DEF LeaseReleased, SetRuntime, flagVars
  <2> HIDE DEF d
  <2>3. RuntimeStays(c, d)
    BY <1>2, <2>1, <2>2
  <2>4. ReleaseDemand(d) \in RouteRuntime /\ RuntimeStays(c, ReleaseDemand(d))
    BY <2>1, <2>3, ReleasedStays
  <2> QED BY <2>2, <2>4, <1>3
<1>6. CASE RetryDue(r)
  <2> DEFINE d == [c EXCEPT !.backoff = FALSE]
  <2>1. d \in RouteRuntime /\ RuntimeStays(c, d)
    BY <1>2, RuntimeUpdates
  <2>2. runtimes' = [runtimes EXCEPT ![r] = d] /\ UNCHANGED <<cacheVars, caller, closing, route>>
    BY SMTT(40), <1>1, <1>6 DEF RetryDue, flagVars
  <2> HIDE DEF d
  <2> QED BY <2>1, <2>2, <1>3
<1>7. CASE IdleDue(r)
  <2> DEFINE d == [c EXCEPT !.idle = "due"]
  <2>1. d \in RouteRuntime /\ RuntimeStays(c, d)
    BY <1>2, RuntimeUpdates
  <2>2. runtimes' = [runtimes EXCEPT ![r] = d] /\ UNCHANGED <<cacheVars, caller, closing, route>>
    BY <1>1, <1>7 DEF IdleDue, flagVars
  <2> HIDE DEF d
  <2> QED BY <2>1, <2>2, <1>3
<1> QED BY <1>4, <1>5, <1>6, <1>7

LEMMA StreamSteps ==
  ASSUME ModelsAssumption, ModelInv, NEW o \in Callers,
         OpenBegin(o) \/ JoinRoute(o) \/ OpenFails(o) \/ CloseStream(o)
  PROVE  ModelInv'
<1> DEFINE r == caller[o].res
<1>0. caller \in [Callers -> ListCaller] /\ caller[o] \in ListCaller /\ r \in Resources
      /\ CallerKept(caller[o], flushes[r]) /\ flushes[r] \in 0 .. MaxFlushes
      /\ Nobody \notin Callers /\ MaxFlushes \in Nat /\ MaxRoutes \in Nat
      /\ 0 \in 0 .. MaxRoutes /\ 0 \in 0 .. MaxFlushes /\ 0 \in Nat
  BY DEF ModelInv, ListInv, ModelsAssumption, ListCaller
<1>1. Rested(caller[o]) \in ListCaller
  BY <1>0 DEF Rested, ListCaller, CallerSteps
<1>2. runtimes \in [Resources -> RouteRuntime] /\ runtimes[r] \in RouteRuntime
      /\ (closing => ~runtimes[r].present /\ runtimes[r].leases = 0)
  BY <1>0 DEF ModelInv, RouteInv
<1>3. PICK c \in RouteRuntime : c = runtimes[r]
  BY <1>2
<1>4. (closing => ~c.present /\ c.leases = 0) /\ RuntimeStays(c, c) /\ "none" \in Timer
      /\ c.waiters + 1 \in Int /\ c.waiters - 1 \in Int /\ c.streams + 1 \in Int /\ c.streams - 1 \in Int
      /\ c.backend \in 0 .. MaxRoutes
  <2>1. closing => ~c.present /\ c.leases = 0
    BY <1>2, <1>3
  <2>2. c.waiters \in Int /\ c.streams \in Int /\ c.backend \in 0 .. MaxRoutes /\ "none" \in Timer
    BY DEF RouteRuntime, Timer
  <2> QED BY <2>1, <2>2 DEF RuntimeStays
<1>5. ASSUME NEW y \in ListCaller, NEW d \in RouteRuntime, caller' = [caller EXCEPT ![o] = y],
             UNCHANGED <<cacheVars, closing, route>>, runtimes' = [runtimes EXCEPT ![r] = d],
             Follows(caller[o], y, flushes[r]), Stays(caller[o], y), RuntimeStays(c, d)
      PROVE  ModelInv'
  BY <1>0, <1>3, <1>5, OneCallerOneRuntime
<1>6. CASE OpenBegin(o)
  <2> DEFINE y == [caller[o] EXCEPT !.pc = "publish", !.ok = FALSE]
             z == [caller[o] EXCEPT !.pc = "loop"]
             x == IF caller[o].task = "list" THEN y ELSE Rested(caller[o])
             d == [c EXCEPT !.waiters = c.waiters + 1, !.idle = "none"]
  <2>1. y \in ListCaller /\ z \in ListCaller
    BY <1>0 DEF ListCaller, CallerSteps, FlightSteps
  <2>2. d \in RouteRuntime /\ RuntimeStays(c, d)
    BY <1>4, RuntimeUpdates
  <2>3. Follows(caller[o], z, flushes[r]) /\ Stays(caller[o], z)
    BY <1>0, <1>6 DEF OpenBegin, ListCaller, Follows, Stays, InFlight, Answering, FlightSteps, ListSteps
  <2>4. x \in ListCaller /\ Follows(caller[o], x, flushes[r]) /\ Stays(caller[o], x)
    <3>1. caller[o].pc = "open"
      BY <1>6 DEF OpenBegin
    <3>2. CASE caller[o].task = "list"
      BY <1>0, <2>1, <3>1, <3>2 DEF ListCaller, Follows, Stays, InFlight, Answering, FlightSteps, ListSteps
    <3>3. CASE caller[o].task # "list"
      BY ZenonT(60), <1>0, <1>1, <3>1, <3>3 DEF ListCaller, Rested, Follows, Stays, InFlight, Answering, FlightSteps,
        ListSteps
    <3> QED BY <3>2, <3>3
  <2>5. UNCHANGED <<cacheVars, closing, route>>
    BY <1>6 DEF OpenBegin, flagVars
  <2>6. CASE c.leases = 0
    <3>1. runtimes' = [runtimes EXCEPT ![r] = c]
      BY <1>0, <1>2, <1>3, <1>6, <2>6 DEF OpenBegin, runtimeVars
    <3>2. caller' = [caller EXCEPT ![o] = x]
      BY <1>0, <1>3, <1>6, <2>6 DEF OpenBegin, Return
    <3> HIDE DEF y, z, x, d
    <3> QED BY <1>4, <1>5, <2>4, <2>5, <3>1, <3>2
  <2>7. CASE c.leases # 0
    <3>1. runtimes' = [runtimes EXCEPT ![r] = d]
      BY <1>3, <1>6, <2>7 DEF OpenBegin, SetRuntime
    <3>2. caller' = [caller EXCEPT ![o] = z]
      BY <1>0, <1>3, <1>6, <2>7 DEF OpenBegin, Goto
    <3> HIDE DEF y, z, x, d
    <3> QED BY <1>5, <2>1, <2>2, <2>3, <2>5, <3>1, <3>2
  <2> QED BY <2>6, <2>7
<1>7. CASE JoinRoute(o)
  <2> DEFINE y == [caller[o] EXCEPT !.got = c.backend,
                     !.pc = IF caller[o].task = "list" THEN "discovering" ELSE "stream"]
             d == [c EXCEPT !.waiters = c.waiters - 1, !.streams = c.streams + 1]
  <2>1. y \in ListCaller
    BY <1>0, <1>4 DEF ListCaller, CallerSteps, FlightSteps
  <2>2. Follows(caller[o], y, flushes[r]) /\ Stays(caller[o], y)
    BY <1>0, <1>7 DEF JoinRoute, ListCaller, Follows, Stays, InFlight, Answering, FlightSteps, ListSteps
  <2>3. caller' = [caller EXCEPT ![o] = y] /\ runtimes' = [runtimes EXCEPT ![r] = d]
        /\ UNCHANGED <<cacheVars, closing, route>>
    BY <1>0, <1>3, <1>7 DEF JoinRoute, SetRuntime, flagVars, TakeStream
  <2>4. d \in RouteRuntime /\ RuntimeStays(c, d)
    BY <1>4, RuntimeUpdates
  <2> HIDE DEF y, d
  <2> QED BY <1>5, <2>1, <2>2, <2>3, <2>4
<1>8. CASE OpenFails(o)
  <2> DEFINE y == [caller[o] EXCEPT !.pc = "publish", !.on = Nobody]
             x == IF caller[o].task = "list" THEN y ELSE Rested(caller[o])
             d == [c EXCEPT !.waiters = c.waiters - 1]
  <2>1. y \in ListCaller /\ caller[o].pc = "leaving"
    BY <1>0, <1>8 DEF OpenFails, ListCaller, CallerSteps, FlightSteps
  <2>2. d \in RouteRuntime /\ RuntimeStays(c, d)
    BY <1>4, RuntimeUpdates
  <2>3. ReleaseDemand(d) \in RouteRuntime /\ RuntimeStays(c, ReleaseDemand(d))
    BY <2>2, ReleasedStays
  <2>4. LeftRuntime(c) \in RouteRuntime /\ RuntimeStays(c, LeftRuntime(c))
    BY <1>4, <2>3 DEF LeftRuntime
  <2>5. x \in ListCaller /\ Follows(caller[o], x, flushes[r]) /\ Stays(caller[o], x)
    <3>1. CASE caller[o].task = "list"
      BY <1>0, <2>1, <3>1 DEF ListCaller, Follows, Stays, InFlight, Answering, FlightSteps, ListSteps
    <3>2. CASE caller[o].task # "list"
      BY ZenonT(60), <1>0, <1>1, <2>1, <3>2 DEF ListCaller, Rested, Follows, Stays, InFlight, Answering, FlightSteps,
        ListSteps
    <3> QED BY <3>1, <3>2
  <2>6. caller' = [caller EXCEPT ![o] = x] /\ runtimes' = [runtimes EXCEPT ![r] = LeftRuntime(c)]
        /\ UNCHANGED <<cacheVars, closing, route>>
    BY <1>0, <1>3, <1>8 DEF OpenFails, Return, SetRuntime, flagVars
  <2> HIDE DEF y, x, d
  <2> QED BY <1>5, <2>4, <2>5, <2>6
<1>9. CASE CloseStream(o)
  <2> DEFINE y == [caller[o] EXCEPT !.pc = "publish", !.got = 0]
             x == IF caller[o].pc = "stream" THEN Rested(caller[o]) ELSE y
             d == [c EXCEPT !.streams = c.streams - 1]
             e == IF c.present /\ c.streams > 0 THEN ReleaseDemand(d) ELSE c
  <2>1. y \in ListCaller /\ caller[o].pc \in {"stream", "discovered"}
    BY <1>0, <1>9 DEF CloseStream, ListCaller, CallerSteps, FlightSteps
  <2>2. d \in RouteRuntime /\ RuntimeStays(c, d)
    BY <1>4, RuntimeUpdates
  <2>3. ReleaseDemand(d) \in RouteRuntime /\ RuntimeStays(c, ReleaseDemand(d))
    BY <2>2, ReleasedStays
  <2>4. e \in RouteRuntime /\ RuntimeStays(c, e)
    BY <1>4, <2>3
  <2>5. x \in ListCaller /\ Follows(caller[o], x, flushes[r]) /\ Stays(caller[o], x)
    <3>1. CASE caller[o].pc = "discovered"
      BY <1>0, <2>1, <3>1 DEF ListCaller, CallerKept, Follows, Stays, InFlight, Answering, FlightSteps,
        ListSteps
    <3>2. CASE caller[o].pc = "stream"
      BY ZenonT(60), <1>0, <1>1, <2>1, <3>2 DEF ListCaller, Rested, Follows, Stays, InFlight, Answering, FlightSteps,
        ListSteps
    <3> QED BY <2>1, <3>1, <3>2
  <2>6. caller' = [caller EXCEPT ![o] = x] /\ runtimes' = [runtimes EXCEPT ![r] = e]
        /\ UNCHANGED <<cacheVars, closing, route>>
    BY <1>0, <1>3, <1>9 DEF CloseStream, Return, SetRuntime, flagVars
  <2> HIDE DEF y, x, d, e
  <2> QED BY <1>5, <2>4, <2>5, <2>6
<1> QED BY <1>6, <1>7, <1>8, <1>9

\* The route of a runtime changes hands.
LEMMA RouteSteps ==
  ASSUME ModelsAssumption, ModelInv, NEW o \in Callers, Loop(o) \/ RouteAcquired(o)
  PROVE  ModelInv'
<1> DEFINE r == caller[o].res
<1>0. caller \in [Callers -> ListCaller] /\ caller[o] \in ListCaller /\ r \in Resources
      /\ CallerKept(caller[o], flushes[r]) /\ flushes[r] \in 0 .. MaxFlushes
      /\ Nobody \notin Callers /\ MaxFlushes \in Nat /\ MaxRoutes \in Nat
  BY DEF ModelInv, ListInv, ModelsAssumption, ListCaller
<1>1. runtimes \in [Resources -> RouteRuntime] /\ runtimes[r] \in RouteRuntime
  BY <1>0 DEF ModelInv, RouteInv
<1>2. PICK c \in RouteRuntime : c = runtimes[r]
  BY <1>1
<1>3. ASSUME NEW y \in ListCaller, caller' = [caller EXCEPT ![o] = y],
             UNCHANGED <<cacheVars, closing, route, runtimes>>,
             Follows(caller[o], y, flushes[r]), Stays(caller[o], y)
      PROVE  ModelInv'
  BY <1>0, <1>3, OneCaller
<1>4. ASSUME Loop(o) PROVE ModelInv'
  <2>1. caller[o].pc = "loop" /\ UNCHANGED <<cacheVars, closing, route>>
    BY <1>4 DEF Loop, flagVars
  <2>2. CASE closing \/ ~c.present
    <3> DEFINE y == [caller[o] EXCEPT !.pc = "leaving", !.ok = FALSE]
    <3>1. y \in ListCaller /\ Follows(caller[o], y, flushes[r]) /\ Stays(caller[o], y)
      BY <1>0, <2>1 DEF ListCaller, CallerSteps, Follows, Stays, InFlight, Answering, FlightSteps, ListSteps
    <3>2. caller' = [caller EXCEPT ![o] = y] /\ UNCHANGED runtimes
      BY <1>0, <1>2, <1>4, <2>2 DEF Loop, Leave, runtimeVars
    <3> HIDE DEF y
    <3> QED BY <1>3, <2>1, <3>1, <3>2
  <2>3. CASE ~closing /\ c.present /\ c.backend = 0 /\ ~MayStart(c)
    <3> DEFINE y == [caller[o] EXCEPT !.pc = "waiting", !.on = c.starting]
    <3>0. c.starting \in Callers \cup {Nobody}
      BY DEF RouteRuntime
    <3>1. y \in ListCaller /\ Follows(caller[o], y, flushes[r]) /\ Stays(caller[o], y)
      BY <1>0, <2>1, <3>0 DEF ListCaller, CallerSteps, Follows, Stays, InFlight, Answering, FlightSteps,
        ListSteps
    <3>2. caller' = [caller EXCEPT ![o] = y] /\ UNCHANGED runtimes
      BY <1>0, <1>2, <1>4, <2>3 DEF Loop, runtimeVars
    <3> HIDE DEF y
    <3> QED BY <1>3, <2>1, <3>1, <3>2
  <2>4. CASE ~closing /\ c.present /\ MayStart(c) /\ c.backoff
    <3> DEFINE y == [caller[o] EXCEPT !.pc = "backoff"]
    <3>1. y \in ListCaller /\ Follows(caller[o], y, flushes[r]) /\ Stays(caller[o], y)
      BY <1>0, <2>1 DEF ListCaller, CallerSteps, Follows, Stays, InFlight, Answering, FlightSteps, ListSteps
    <3>2. caller' = [caller EXCEPT ![o] = y] /\ UNCHANGED runtimes
      BY <1>0, <1>2, <1>4, <2>4 DEF Loop, Goto, runtimeVars
    <3> HIDE DEF y
    <3> QED BY <1>3, <2>1, <3>1, <3>2
  <2>5. CASE ~closing /\ c.present /\ MayStart(c) /\ ~c.backoff
    <3> DEFINE y == [caller[o] EXCEPT !.pc = "starting"]
               d == [c EXCEPT !.starting = o]
    <3>1. y \in ListCaller /\ Follows(caller[o], y, flushes[r])
      BY <1>0, <2>1 DEF ListCaller, CallerSteps, Follows, InFlight, Answering, FlightSteps, ListSteps
    <3>2. caller' = [caller EXCEPT ![o] = y] /\ runtimes' = [runtimes EXCEPT ![r] = d]
      BY <1>0, <1>2, <1>4, <2>5 DEF Loop, Goto, SetRuntime
    <3>3. d \in RouteRuntime /\ d.present = c.present /\ d.starting = o /\ d.backend = c.backend
      BY DEF RouteRuntime
    <3>4. y.res = r /\ y.pc = "starting" /\ y.got = caller[o].got
      BY <1>0 DEF ListCaller
    <3> HIDE DEF y, d
    <3>5. caller' \in [Callers -> ListCaller] /\ caller'[o] = y
          /\ \A w \in Callers \ {o} : caller'[w] = caller[w]
      BY <1>0, <3>1, <3>2
    <3>6. ListInv'
      BY <2>1, <3>1, <3>5, CallerMoves DEF ModelInv
    <3>7. c.starting = Nobody /\ c.backend = 0
      BY <2>5 DEF MayStart
    <3>8. runtimes' \in [Resources -> RouteRuntime] /\ runtimes'[r] = d
          /\ \A s \in Resources \ {r} : runtimes'[s] = runtimes[s]
      BY <1>0, <1>1, <3>2, <3>3
    <3>9. ASSUME NEW w \in Callers PROVE StartKept(w)'
      <4>1. CASE w = o
        BY <1>0, <2>5, <3>3, <3>4, <3>5, <3>7, <3>8, <4>1 DEF StartKept
      <4>2. CASE w # o
        <5>1. caller'[w] = caller[w] /\ caller[w].res \in Resources /\ StartKept(w)
          BY <1>0, <3>5, <4>2 DEF ModelInv, RouteInv, ListCaller
        <5>2. caller[w].pc \in {"starting", "started"} => caller[w].res # r
          BY <1>0, <1>2, <2>5, <3>7, <5>1 DEF StartKept
        <5> QED BY <2>1, <3>8, <5>1, <5>2 DEF StartKept
      <4> QED BY <4>1, <4>2
    <3>10. NoRouteIsLost'
      <4>1. \A s \in Resources : runtimes'[s].backend = runtimes[s].backend
        BY <1>2, <3>3, <3>8
      <4>2. \A w \in Callers : caller[w].pc = "started" => caller'[w] = caller[w]
        BY <2>1, <3>5
      <4> QED BY <2>1, <4>1, <4>2 DEF ModelInv, RouteInv, NoRouteIsLost
    <3>11. closing' \in BOOLEAN /\ ~closing' /\ route' \in [Routes -> RouteStates]
      BY <2>1, <2>5 DEF ModelInv, RouteInv
    <3> QED BY <3>6, <3>8, <3>9, <3>10, <3>11 DEF ModelInv, RouteInv
  <2> QED BY <1>2, <1>4, <2>2, <2>3, <2>4, <2>5 DEF Loop
<1>5. ASSUME RouteAcquired(o) PROVE ModelInv'
  <2>1. PICK b \in Routes : route[b] = "unused" /\ route' = [route EXCEPT ![b] = "live"]
                            /\ caller' = [caller EXCEPT ![o].pc = "started", ![o].got = b]
    BY <1>5 DEF RouteAcquired
  <2> DEFINE y == [caller[o] EXCEPT !.pc = "started", !.got = b]
  <2>2. caller[o].pc = "starting" /\ UNCHANGED <<cacheVars, closing, runtimes>>
    BY <1>5 DEF RouteAcquired, flagVars, runtimeVars
  <2>3. b \in 0 .. MaxRoutes
    BY <1>0 DEF Routes
  <2>4. y \in ListCaller /\ y.res = r /\ y.pc = "started" /\ y.got = b
    BY <1>0, <2>3 DEF ListCaller, CallerSteps, FlightSteps
  <2>5. Follows(caller[o], y, flushes[r])
    BY <1>0, <2>2 DEF ListCaller, Follows, InFlight, Answering, FlightSteps, ListSteps
  <2>6. caller' = [caller EXCEPT ![o] = y]
    BY <1>0, <2>1
  <2> HIDE DEF y
  <2>7. caller' \in [Callers -> ListCaller] /\ caller'[o] = y
        /\ \A w \in Callers \ {o} : caller'[w] = caller[w]
    BY <1>0, <2>4, <2>6
  <2>8. ListInv'
    BY <2>2, <2>5, <2>7, CallerMoves DEF ModelInv
  <2>9. \A w \in Callers : StartKept(w)'
    BY <2>2, <2>4, <2>7 DEF ModelInv, RouteInv, StartKept
  <2>10. route \in [Routes -> RouteStates]
    BY DEF ModelInv, RouteInv
  <2>11. NoRouteIsLost'
    <3>1. \A a \in Routes \ {b} : route'[a] = route[a]
      BY <2>1, <2>10
    <3>2. \A w \in Callers : caller[w].pc = "started" => caller'[w] = caller[w]
      BY <2>2, <2>7
    <3> QED BY <2>2, <2>4, <2>7, <3>1, <3>2 DEF ModelInv, RouteInv, NoRouteIsLost
  <2>12. route' \in [Routes -> RouteStates]
    BY <2>1, <2>10 DEF RouteStates
  <2> QED BY <2>2, <2>8, <2>9, <2>11, <2>12 DEF ModelInv, RouteInv
<1> QED BY <1>4, <1>5

LEMMA ExpiryStep ==
  ASSUME ModelsAssumption, ModelInv, NEW r \in Resources, ExpireIdle(r)
  PROVE  ModelInv'
<1>0. runtimes \in [Resources -> RouteRuntime] /\ route \in [Routes -> RouteStates]
      /\ runtimes[r] \in RouteRuntime /\ MaxRoutes \in Nat
      /\ \A o \in Callers : caller[o].res \in Resources /\ StartKept(o)
  BY DEF ModelInv, RouteInv, ModelsAssumption, ListInv, ListCaller
<1>1. PICK c \in RouteRuntime : c = runtimes[r]
  BY <1>0
<1>2. UNCHANGED <<cacheVars, closing, caller>>
  BY DEF ExpireIdle, flagVars
<1>3. ListInv'
  BY <1>2 DEF ModelInv, ListInv, NoJoinerIsStranded, CacheKept, cacheVars
<1>4. CASE ~Expires(c)
  <2>1. UNCHANGED <<runtimes, route>>
    BY <1>1, <1>4 DEF ExpireIdle
  <2> QED BY <1>2, <1>3, <2>1 DEF ModelInv, RouteInv, StartKept, NoRouteIsLost
<1>5. CASE Expires(c)
  <2> DEFINE d == Expired(c)
             e == [c EXCEPT !.backend = 0, !.idle = "none", !.backoff = FALSE]
  <2>1. c.present /\ c.starting = Nobody /\ c.backend \in Routes
    BY <1>0, <1>5 DEF Expires, Needed, RouteRuntime, Routes
  <2>2. ~closing
    BY <1>1, <2>1 DEF ModelInv, RouteInv
  <2>3. NoRuntime \in RouteRuntime /\ e \in RouteRuntime
    <3>1. 0 \in 0 .. MaxRoutes
      BY <1>0
    <3>2. e \in RouteRuntime
      BY <3>1 DEF RouteRuntime, Timer
    <3> QED BY <3>1, <3>2 DEF NoRuntime, RouteRuntime, Timer
  <2>4. d \in RouteRuntime
    BY <2>3 DEF Expired
  <2>5. runtimes' = [runtimes EXCEPT ![r] = d] /\ route' = [route EXCEPT ![c.backend] = "dropped"]
    BY <1>1, <1>5 DEF ExpireIdle
  <2> HIDE DEF d, e
  <2>6. runtimes' \in [Resources -> RouteRuntime]
        /\ \A s \in Resources \ {r} : runtimes'[s] = runtimes[s]
    BY <1>0, <2>4, <2>5
  <2>7. route' \in [Routes -> RouteStates] /\ route'[c.backend] = "dropped"
        /\ \A b \in Routes \ {c.backend} : route'[b] = route[b]
    BY <1>0, <2>1, <2>5 DEF RouteStates
  <2>8. ASSUME NEW o \in Callers PROVE StartKept(o)'
    <3>1. Nobody \notin Callers
      BY DEF ModelsAssumption
    <3>2. caller[o].pc \in {"starting", "started"} => caller[o].res # r
      BY <1>0, <1>1, <2>1, <2>2, <3>1 DEF StartKept
    <3> QED BY <1>0, <1>2, <2>6, <3>2 DEF StartKept
  <2>9. NoRouteIsLost'
    <3>1. SUFFICES ASSUME NEW b \in Routes, route'[b] = "live"
                   PROVE  \/ \E s \in Resources : runtimes'[s].backend = b
                          \/ \E o \in Callers : caller'[o].pc = "started" /\ caller'[o].got = b
      BY DEF NoRouteIsLost
    <3>2. b # c.backend /\ route[b] = "live"
      BY <2>7, <3>1
    <3>3. \/ \E s \in Resources : runtimes[s].backend = b
          \/ \E o \in Callers : caller[o].pc = "started" /\ caller[o].got = b
      BY <3>2 DEF ModelInv, RouteInv, NoRouteIsLost
    <3> QED BY <1>1, <1>2, <2>6, <3>2, <3>3
  <2> QED BY <1>2, <1>3, <2>2, <2>6, <2>7, <2>8, <2>9 DEF ModelInv, RouteInv
<1> QED BY <1>4, <1>5

LEMMA RouteReleased ==
  ASSUME ModelsAssumption, ModelInv, NEW b \in Routes, ReleaseRoute(b)
  PROVE  ModelInv'
<1>1. UNCHANGED <<cacheVars, closing, caller, runtimes>> /\ route' = [route EXCEPT ![b] = "released"]
  BY DEF ReleaseRoute, runtimeVars, flagVars
<1>2. ListInv'
  BY <1>1 DEF ModelInv, ListInv, NoJoinerIsStranded, CacheKept, cacheVars
<1>3. route \in [Routes -> RouteStates]
  BY DEF ModelInv, RouteInv
<1>4. route' \in [Routes -> RouteStates] /\ \A a \in Routes : route'[a] = "live" => route[a] = "live"
  BY <1>1, <1>3 DEF RouteStates
<1>5. NoRouteIsLost'
  BY <1>1, <1>4 DEF ModelInv, RouteInv, NoRouteIsLost
<1> QED BY <1>1, <1>2, <1>4, <1>5 DEF ModelInv, RouteInv, StartKept

\* Several callers move: those that waited for the end of a start.
LEMMA StoreStep ==
  ASSUME ModelsAssumption, ModelInv, NEW o \in Callers, Store(o)
  PROVE  ModelInv'
<1> DEFINE r == caller[o].res
           b == caller[o].got
           x == [caller[o] EXCEPT !.got = 0,
                    !.pc = IF b = 0 /\ caller[o].ctx = "cancelled" THEN "leaving" ELSE "loop"]
           y == [caller[o] EXCEPT !.pc = "leaving", !.ok = FALSE, !.got = 0]
           woken(w) == [caller[w] EXCEPT !.pc = "loop", !.on = Nobody]
<1>0. caller \in [Callers -> ListCaller] /\ caller[o] \in ListCaller /\ r \in Resources
      /\ CallerKept(caller[o], flushes[r]) /\ flushes[r] \in 0 .. MaxFlushes
      /\ Nobody \notin Callers /\ MaxFlushes \in Nat /\ MaxRoutes \in Nat
      /\ b \in 0 .. MaxRoutes /\ 0 \in 0 .. MaxRoutes
      /\ flushes \in [Resources -> 0 .. MaxFlushes]
      /\ (\A w \in Callers : CallerKept(caller[w], flushes[caller[w].res]))
  BY DEF ModelInv, ListInv, ModelsAssumption, ListCaller
<1>1. runtimes \in [Resources -> RouteRuntime] /\ runtimes[r] \in RouteRuntime
      /\ route \in [Routes -> RouteStates] /\ (\A w \in Callers : StartKept(w))
  BY <1>0 DEF ModelInv, RouteInv
<1>2. PICK c \in RouteRuntime : c = runtimes[r]
  BY <1>1
<1>3. caller[o].pc = "started" /\ UNCHANGED <<cacheVars, closing>>
  BY DEF Store, flagVars
<1>4. closing \/ (c.present /\ c.starting = o /\ c.backend = 0)
  BY <1>1, <1>2, <1>3 DEF StartKept
<1>5. closing => ~c.present
  BY <1>0, <1>2 DEF ModelInv, RouteInv
<1>6. x \in ListCaller /\ x.res = r /\ x.pc \in {"leaving", "loop"}
      /\ Follows(caller[o], x, flushes[r])
  BY <1>0, <1>3 DEF ListCaller, CallerSteps, FlightSteps, ListSteps, Follows, InFlight, Answering
<1>7. y \in ListCaller /\ y.res = r /\ y.pc = "leaving" /\ Follows(caller[o], y, flushes[r])
  BY <1>0, <1>3 DEF ListCaller, CallerSteps, FlightSteps, ListSteps, Follows, InFlight, Answering
<1>8. ASSUME NEW w \in Callers, caller[w].pc = "waiting"
      PROVE  /\ woken(w) \in ListCaller /\ woken(w).pc = "loop" /\ woken(w).res = caller[w].res
             /\ Follows(caller[w], woken(w), flushes[caller[w].res])
  <2>1. caller[w] \in ListCaller
    BY <1>0
  <2> QED BY <1>8, <2>1 DEF ListCaller, CallerSteps, FlightSteps, ListSteps, Follows, InFlight, Answering
<1>9. ASSUME NEW w \in Callers PROVE Follows(caller[w], caller[w], flushes[caller[w].res])
  BY <1>0 DEF CallerKept, Follows
<1>10. CASE ~c.present
  <2>1. caller' = [caller EXCEPT ![o] = y] /\ UNCHANGED runtimes /\ route' = GoneRoute(b)
    BY <1>0, <1>2, <1>10 DEF Store, runtimeVars
  <2> HIDE DEF x, y, woken
  <2>2. caller' \in [Callers -> ListCaller] /\ caller'[o] = y
        /\ \A w \in Callers \ {o} : caller'[w] = caller[w]
    BY <1>0, <1>7, <2>1
  <2>3. ListInv'
    BY <1>3, <1>7, <2>2, CallerMoves DEF ModelInv
  <2>4. route' \in [Routes -> RouteStates]
        /\ \A a \in Routes : route'[a] = "live" => route[a] = "live" /\ (a # b)
    BY <1>0, <1>1, <2>1 DEF GoneRoute, RouteStates, Routes
  <2>5. NoRouteIsLost'
    BY <2>1, <2>2, <2>4 DEF ModelInv, RouteInv, NoRouteIsLost
  <2>6. \A w \in Callers : StartKept(w)'
    BY <1>1, <1>3, <1>7, <2>1, <2>2 DEF StartKept
  <2> QED BY <1>3, <2>1, <2>3, <2>4, <2>5, <2>6 DEF ModelInv, RouteInv
<1>11. CASE c.present
  <2> DEFINE d == [c EXCEPT !.starting = Nobody, !.backend = b, !.backoff = (b = 0)]
             e == ReleaseDemand(d)
  <2>1. ~closing /\ c.starting = o /\ c.backend = 0
    BY <1>4, <1>5, <1>11
  <2>2. d \in RouteRuntime /\ d.backend = b
    BY <1>0 DEF RouteRuntime
  <2>3. RuntimeStays(d, d)
    BY <2>1, <2>2 DEF RuntimeStays
  <2>4. runtimes' = [runtimes EXCEPT ![r] = e] /\ UNCHANGED route
        /\ caller' = [w \in Callers |-> IF w = o THEN x
                                        ELSE IF w \in Wakes(o) THEN woken(w) ELSE caller[w]]
    BY <1>2, <1>11 DEF Store, SetRuntime
  <2> HIDE DEF x, y, woken, d
  <2>5. e \in RouteRuntime /\ RuntimeStays(d, e)
    BY <2>2, <2>3, ReleasedStays
  <2>6. e.backend = b
    BY <2>2, <2>5 DEF RuntimeStays
  <2> HIDE DEF e
  <2>7. runtimes' \in [Resources -> RouteRuntime] /\ runtimes'[r] = e
        /\ \A s \in Resources \ {r} : runtimes'[s] = runtimes[s]
    BY <1>0, <1>1, <2>4, <2>5
  <2>8. ASSUME NEW w \in Callers
        PROVE  /\ caller'[w] \in ListCaller /\ caller'[w].res = caller[w].res
               /\ Follows(caller[w], caller'[w], flushes[caller[w].res])
               /\ (caller'[w].pc \in {"starting", "started"} => w # o /\ caller'[w] = caller[w])
               /\ (w # o /\ caller[w].pc = "started" => caller'[w] = caller[w])
    <3>1. CASE w = o
      BY <1>6, <2>4, <3>1
    <3>2. CASE w # o /\ w \in Wakes(o)
      <4>1. caller[w].pc = "waiting" /\ caller'[w] = woken(w)
        BY <2>4, <3>2 DEF Wakes
      <4> QED BY <1>8, <3>2, <4>1
    <3>3. CASE w # o /\ w \notin Wakes(o)
      BY <1>0, <1>9, <2>4, <3>3
    <3> QED BY <3>1, <3>2, <3>3
  <2>9. caller' \in [Callers -> ListCaller]
    BY <2>4, <2>8
  <2>10. ListInv'
    BY <1>3, <2>8, <2>9, CallersMove DEF ModelInv
  <2>11. ASSUME NEW w \in Callers PROVE StartKept(w)'
    <3>1. caller[w].pc \in {"starting", "started"} /\ w # o => caller[w].res # r
      BY <1>1, <1>2, <2>1 DEF StartKept
    <3>2. caller[w].res \in Resources
      BY <1>0 DEF ListCaller
    <3> QED BY <1>1, <1>3, <2>7, <2>8, <3>1, <3>2 DEF StartKept
  <2>12. NoRouteIsLost'
    <3>1. SUFFICES ASSUME NEW a \in Routes, route'[a] = "live"
                   PROVE  \/ \E s \in Resources : runtimes'[s].backend = a
                          \/ \E w \in Callers : caller'[w].pc = "started" /\ caller'[w].got = a
      BY DEF NoRouteIsLost
    <3>2. \/ \E s \in Resources : runtimes[s].backend = a
          \/ \E w \in Callers : caller[w].pc = "started" /\ caller[w].got = a
      BY <2>4, <3>1 DEF ModelInv, RouteInv, NoRouteIsLost
    <3>3. ASSUME NEW s \in Resources, runtimes[s].backend = a
          PROVE  \E t \in Resources : runtimes'[t].backend = a
      <4>1. s # r
        BY <1>0, <1>2, <2>1, <3>3 DEF Routes
      <4> QED BY <2>7, <3>3, <4>1
    <3>4. ASSUME NEW w \in Callers, caller[w].pc = "started", caller[w].got = a
          PROVE  \/ \E s \in Resources : runtimes'[s].backend = a
                 \/ \E v \in Callers : caller'[v].pc = "started" /\ caller'[v].got = a
      <4>1. CASE w = o
        BY <1>0, <2>6, <2>7, <3>4, <4>1
      <4>2. CASE w # o
        BY <2>8, <3>4, <4>2
      <4> QED BY <4>1, <4>2
    <3> QED BY <3>2, <3>3, <3>4
  <2>13. closing' \in BOOLEAN /\ ~closing' /\ route' \in [Routes -> RouteStates]
    BY <1>3, <2>1, <2>4 DEF ModelInv, RouteInv
  <2> QED BY <2>7, <2>10, <2>11, <2>12, <2>13 DEF ModelInv, RouteInv
<1> QED BY <1>10, <1>11

----------------------------------------
(* A cache changes.                                                        *)

\* Only caches and counts of flushes change, of one resource.
LEMMA OneCache ==
  ASSUME ModelsAssumption, ModelInv, UNCHANGED <<runtimes, closing, route, caller>>,
         NEW r \in Resources, NEW d \in ListCache, NEW n \in 0 .. MaxFlushes,
         caches' = [caches EXCEPT ![r] = d], flushes' = [flushes EXCEPT ![r] = n],
         n >= flushes[r], CacheKept(r, d, n), d.flight = caches[r].flight
  PROVE  ModelInv'
<1>0. caller \in [Callers -> ListCaller] /\ caches \in [Resources -> ListCache]
      /\ flushes \in [Resources -> 0 .. MaxFlushes] /\ MaxFlushes \in Nat
  BY DEF ModelInv, ListInv, ModelsAssumption
<1>1. caches' \in [Resources -> ListCache] /\ caches'[r] = d
      /\ \A s \in Resources \ {r} : caches'[s] = caches[s]
  BY <1>0
<1>2. flushes' \in [Resources -> 0 .. MaxFlushes] /\ flushes'[r] = n
      /\ \A s \in Resources \ {r} : flushes'[s] = flushes[s]
  BY <1>0
<1>3. ASSUME NEW o \in Callers PROVE CallerKept(caller[o], flushes[caller[o].res])'
  <2>1. CallerKept(caller[o], flushes[caller[o].res]) /\ caller[o] \in ListCaller
    BY <1>0 DEF ModelInv, ListInv
  <2>2. caller[o].res \in Resources /\ caller[o].asked \in Nat
    BY <1>0, <2>1 DEF ListCaller
  <2>3. flushes'[caller[o].res] \in Nat /\ flushes[caller[o].res] \in Nat
        /\ flushes'[caller[o].res] >= flushes[caller[o].res]
    BY <1>0, <1>2, <2>2
  <2> QED BY <2>1, <2>2, <2>3 DEF CallerKept
<1>4. ASSUME NEW s \in Resources PROVE CacheKept(s, caches[s], flushes[s])'
  <2>1. CASE s = r
    BY <1>1, <1>2, <2>1 DEF CacheKept
  <2>2. CASE s # r
    BY <1>1, <1>2, <2>2 DEF ModelInv, ListInv, CacheKept
  <2> QED BY <2>1, <2>2
<1>5. NoJoinerIsStranded'
  <2>1. \A s \in Resources : caches'[s].flight = caches[s].flight
    BY <1>1
  <2>2. \A o \in Callers : caller[o].res \in Resources
    BY <1>0 DEF ListCaller
  <2> QED BY <2>1, <2>2 DEF ModelInv, ListInv, NoJoinerIsStranded
<1>6. RouteInv'
  BY DEF ModelInv, RouteInv, StartKept, NoRouteIsLost
<1> QED BY <1>0, <1>1, <1>2, <1>3, <1>4, <1>5, <1>6 DEF ModelInv, ListInv

LEMMA NoCacheKept ==
  ASSUME NEW r, NEW n, ModelsAssumption
  PROVE  CacheKept(r, NoCache, n) /\ NoCache \in ListCache /\ NoCache.flight = Nobody
BY DEF NoCache, CacheKept, ListCache, Timer, ModelsAssumption, NoModels

LEMMA CacheSteps ==
  ASSUME ModelsAssumption, ModelInv, NEW r \in Resources,
         FlushModelsCache(r) \/ CacheStale(r) \/ CacheDue(r) \/ ExpireCache(r)
  PROVE  ModelInv'
<1>0. caller \in [Callers -> ListCaller] /\ caches \in [Resources -> ListCache]
      /\ flushes \in [Resources -> 0 .. MaxFlushes] /\ MaxFlushes \in Nat
      /\ flushes[r] \in 0 .. MaxFlushes /\ caches[r] \in ListCache
      /\ CacheKept(r, caches[r], flushes[r])
  BY DEF ModelInv, ListInv, ModelsAssumption
<1>1. PICK c \in ListCache : c = caches[r]
  BY <1>0
<1>2. CacheKept(r, c, flushes[r])
  BY <1>0, <1>1
<1>3. ASSUME NEW d \in ListCache, CacheKept(r, d, flushes[r]), d.flight = c.flight,
             caches' = [caches EXCEPT ![r] = d],
             UNCHANGED <<runtimes, closing, route, caller, flushes>>
      PROVE  ModelInv'
  <2>1. flushes' = [flushes EXCEPT ![r] = flushes[r]] /\ flushes[r] >= flushes[r]
    BY <1>0, <1>3
  <2> QED BY <1>0, <1>1, <1>3, <2>1, OneCache
<1>4. CASE FlushModelsCache(r)
  <2> DEFINE n == flushes[r] + 1
             d == [c EXCEPT !.generation = c.generation + 1, !.models = NoModels, !.fresh = FALSE,
                            !.timer = "none", !.late = 0]
  <2>1. n \in 0 .. MaxFlushes /\ n >= flushes[r] /\ flushes' = [flushes EXCEPT ![r] = n]
        /\ UNCHANGED <<runtimes, closing, route, caller>>
    BY <1>0, <1>4 DEF FlushModelsCache, runtimeVars, flagVars
  <2>2. CASE c.flight = Nobody
    <3>1. caches' = [caches EXCEPT ![r] = NoCache]
      BY <1>1, <1>4, <2>2 DEF FlushModelsCache, SetCache
    <3> HIDE DEF n, d
    <3>2. CacheKept(r, NoCache, n) /\ NoCache \in ListCache /\ NoCache.flight = c.flight
      BY <2>2, NoCacheKept
    <3> QED BY <1>1, <2>1, <3>1, <3>2, OneCache
  <2>3. CASE c.flight # Nobody
    <3>1. caches' = [caches EXCEPT ![r] = d]
      BY <1>1, <1>4, <2>3 DEF FlushModelsCache, SetCache, Flushed
    <3>2. NoModels \in Nat /\ c.generation + 1 \in Nat /\ 0 \in Int /\ "none" \in Timer
      BY <1>0 DEF NoModels, ListCache, Timer
    <3>3. d \in ListCache /\ d.flight = c.flight /\ d.models = NoModels /\ d.present = c.present
          /\ d.generation = c.generation + 1
      BY <3>2 DEF ListCache
    <3> HIDE DEF n, d
    <3>4. c.generation \in Nat /\ c.flight \in Callers
      BY <2>3 DEF ListCache
    <3>5. caller[c.flight].generation \in Nat
      BY <1>0, <3>4 DEF ListCaller
    <3>6. caller[c.flight].generation <= d.generation /\ caller[c.flight].generation # d.generation
      BY <1>2, <2>3, <3>3, <3>4, <3>5 DEF CacheKept
    <3>7. CacheKept(r, d, n)
      BY <1>2, <2>3, <3>3, <3>6 DEF CacheKept
    <3> QED BY <1>1, <2>1, <3>1, <3>3, <3>7, OneCache
  <2> QED BY <2>2, <2>3
<1>5. CASE CacheStale(r)
  <2> DEFINE d == [c EXCEPT !.fresh = FALSE]
  <2>1. d \in ListCache /\ d.flight = c.flight /\ d.models = c.models /\ d.present = c.present
        /\ d.generation = c.generation
    BY DEF ListCache
  <2>2. caches' = [caches EXCEPT ![r] = d] /\ UNCHANGED <<runtimes, closing, route, caller, flushes>>
    BY <1>1, <1>5 DEF CacheStale, SetCache, runtimeVars, flagVars
  <2> HIDE DEF d
  <2>3. CacheKept(r, d, flushes[r])
    BY <1>2, <2>1 DEF CacheKept
  <2> QED BY <1>3, <2>1, <2>2, <2>3
<1>6. CASE CacheDue(r)
  <2> DEFINE d == [c EXCEPT !.timer = "due"]
  <2>1. d \in ListCache /\ d.flight = c.flight /\ d.models = c.models /\ d.present = c.present
        /\ d.generation = c.generation
    BY DEF ListCache, Timer
  <2>2. caches' = [caches EXCEPT ![r] = d] /\ UNCHANGED <<runtimes, closing, route, caller, flushes>>
    BY <1>1, <1>6 DEF CacheDue, SetCache, runtimeVars, flagVars
  <2> HIDE DEF d
  <2>3. CacheKept(r, d, flushes[r])
    BY <1>2, <2>1 DEF CacheKept
  <2> QED BY <1>3, <2>1, <2>2, <2>3
<1>7. CASE ExpireCache(r)
  <2> DEFINE d == [c EXCEPT !.timer = "none"]
             e == [c EXCEPT !.late = c.late - 1]
  <2>1. d \in ListCache /\ d.flight = c.flight /\ d.models = c.models /\ d.present = c.present
        /\ d.generation = c.generation
    BY DEF ListCache, Timer
  <2>2. e \in ListCache /\ e.flight = c.flight /\ e.models = c.models /\ e.present = c.present
        /\ e.generation = c.generation
    BY DEF ListCache
  <2>3. /\ caches' = [caches EXCEPT ![r] = ExpiredCache(d)] \/ caches' = [caches EXCEPT ![r] = ExpiredCache(e)]
        /\ UNCHANGED <<runtimes, closing, route, caller, flushes>>
    BY <1>1, <1>7 DEF ExpireCache, SetCache, runtimeVars, flagVars
  <2> HIDE DEF d, e
  <2>4. CacheKept(r, d, flushes[r]) /\ CacheKept(r, e, flushes[r])
    BY <1>2, <2>1, <2>2 DEF CacheKept
  <2>5. CacheKept(r, NoCache, flushes[r]) /\ NoCache \in ListCache /\ NoCache.flight = Nobody
    BY NoCacheKept
  <2>6. CacheKept(r, ExpiredCache(d), flushes[r]) /\ ExpiredCache(d) \in ListCache
        /\ ExpiredCache(d).flight = c.flight
    BY <2>1, <2>4, <2>5 DEF ExpiredCache
  <2>7. CacheKept(r, ExpiredCache(e), flushes[r]) /\ ExpiredCache(e) \in ListCache
        /\ ExpiredCache(e).flight = c.flight
    BY <2>2, <2>4, <2>5 DEF ExpiredCache
  <2> QED BY <1>3, <2>3, <2>6, <2>7
<1> QED BY <1>4, <1>5, <1>6, <1>7

LEMMA ListStep ==
  ASSUME ModelsAssumption, ModelInv, NEW o \in Callers, List(o)
  PROVE  ModelInv'
<1> DEFINE r == caller[o].res
           n == flushes[r]
<1>0. caller \in [Callers -> ListCaller] /\ caller[o] \in ListCaller /\ r \in Resources
      /\ caches \in [Resources -> ListCache] /\ caches[r] \in ListCache
      /\ flushes \in [Resources -> 0 .. MaxFlushes] /\ n \in 0 .. MaxFlushes
      /\ Nobody \notin Callers /\ MaxFlushes \in Nat /\ MaxRoutes \in Nat
      /\ 0 \in 0 .. MaxRoutes /\ 0 \in 0 .. MaxFlushes /\ 0 \in Nat
      /\ CallerKept(caller[o], n) /\ CacheKept(r, caches[r], n)
  BY DEF ModelInv, ListInv, ModelsAssumption, ListCaller
<1>1. caller[o].pc = "list" /\ caller[o].task = "list" /\ caller[o].asked <= n
      /\ UNCHANGED <<runtimes, closing, route, flushes>>
  BY <1>0 DEF List, CallerKept, ListSteps, runtimeVars, flagVars
<1>2. PICK c \in ListCache : c = IF caches[r].present THEN caches[r]
                                 ELSE [NoCache EXCEPT !.present = TRUE]
  <2>1. NoCache \in ListCache
    BY NoCacheKept
  <2>2. [NoCache EXCEPT !.present = TRUE] \in ListCache
    BY <2>1 DEF ListCache
  <2> QED BY <1>0, <2>2
<1>3. CacheKept(r, c, n) /\ c.present /\ c.flight = caches[r].flight
  <2>1. CASE caches[r].present
    BY <1>0, <1>2, <2>1
  <2>2. CASE ~caches[r].present
    <3>1. caches[r].flight = Nobody
      BY <1>0, <2>2 DEF CacheKept
    <3>2. c.models = NoModels /\ c.flight = Nobody /\ c.present
      BY <1>2, <2>2 DEF NoCache
    <3> QED BY <3>1, <3>2 DEF CacheKept
  <2> QED BY <2>1, <2>2
<1>4. c.flight \in Callers \cup {Nobody} /\ c.models \in Nat /\ c.generation \in Nat
  BY DEF ListCache
<1>5. ASSUME NEW y \in ListCaller, caller' = [caller EXCEPT ![o] = y], y.res = r, CallerKept(y, n),
             y.pc \notin {"starting", "started"},
             NEW d \in ListCache, caches' = [caches EXCEPT ![r] = d],
             d.models = c.models, d.generation = c.generation, c.flight # o,
             \/ d = c
             \/ /\ c.flight = Nobody /\ d.flight = o /\ d.present /\ InFlight(y)
                /\ y.generation = c.generation /\ y.began = n,
             y.pc = "joining" => y.on = d.flight /\ y.on \in Callers
      PROVE  ModelInv'
  <2>1. caller' \in [Callers -> ListCaller] /\ caller'[o] = y
        /\ \A w \in Callers \ {o} : caller'[w] = caller[w]
    BY <1>0, <1>5
  <2>2. caches' \in [Resources -> ListCache] /\ caches'[r] = d
        /\ \A s \in Resources \ {r} : caches'[s] = caches[s]
    BY <1>0, <1>5
  <2>3. ASSUME NEW w \in Callers PROVE CallerKept(caller[w], flushes[caller[w].res])'
    BY <1>1, <1>5, <2>1 DEF ModelInv, ListInv, CallerKept
  <2>4. ASSUME NEW s \in Resources PROVE CacheKept(s, caches[s], flushes[s])'
    <3>1. CASE s # r
      <4>1. CacheKept(s, caches[s], flushes[s]) /\ caches[s].flight \in Callers \cup {Nobody}
        BY <1>0 DEF ModelInv, ListInv, ListCache
      <4>2. caches[s].flight # o
        BY <1>0, <3>1, <4>1 DEF CacheKept
      <4> QED BY <1>1, <2>1, <2>2, <3>1, <4>1, <4>2 DEF CacheKept
    <3>2. CASE s = r /\ d = c
      BY <1>1, <1>3, <1>4, <1>5, <2>1, <2>2, <3>2 DEF CacheKept
    <3>3. CASE s = r /\ d # c
      <4>1. d.flight = o /\ d.present /\ InFlight(y) /\ y.generation = d.generation /\ y.began = n
            /\ y.res = r
        BY <1>5, <3>3
      <4>2. d.models \in {NoModels, n}
        BY <1>3, <1>5 DEF CacheKept
      <4> QED BY <1>1, <1>4, <1>5, <2>1, <2>2, <3>3, <4>1, <4>2 DEF CacheKept
    <3> QED BY <3>1, <3>2, <3>3
  <2>5. NoJoinerIsStranded'
    <3>1. SUFFICES ASSUME NEW w \in Callers, caller'[w].pc = "joining"
                   PROVE  caches'[caller'[w].res].flight = caller'[w].on
      BY DEF NoJoinerIsStranded
    <3>2. CASE w = o
      BY <1>5, <2>1, <2>2, <3>1, <3>2
    <3>3. CASE w # o
      <4>1. caller'[w] = caller[w] /\ caller[w].res \in Resources
            /\ caches[caller[w].res].flight = caller[w].on /\ caller[w].on \in Callers
        BY <1>0, <2>1, <3>1, <3>3 DEF ModelInv, ListInv, NoJoinerIsStranded, ListCaller, CallerKept
      <4>2. caller[w].res = r => d = c
        BY <1>0, <1>3, <1>5, <4>1
      <4> QED BY <1>3, <2>2, <4>1, <4>2
    <3> QED BY <3>2, <3>3
  <2>6. RouteInv'
    <3>1. ASSUME NEW w \in Callers PROVE caller[w].res \in Resources /\ Stays(caller[w], caller'[w])
      BY <1>0, <1>1, <1>5, <2>1 DEF ListCaller, Stays
    <3> QED BY <1>1, <3>1, RuntimesRest DEF ModelInv
  <2> QED BY <1>0, <1>1, <2>1, <2>2, <2>3, <2>4, <2>5, <2>6 DEF ModelInv, ListInv
<1>6. c.flight # o
  <2>1. c.flight \in Callers => InFlight(caller[c.flight])
    BY <1>0, <1>3 DEF CacheKept
  <2> QED BY <1>1, <2>1 DEF InFlight, FlightSteps
<1>7. CASE closing \/ runtimes[r].leases = 0
  <2>1. caller' = [caller EXCEPT ![o] = Rested(caller[o])] /\ UNCHANGED caches
    BY <1>1, <1>2, <1>7 DEF List, Return
  <2>2. UNCHANGED <<cacheVars, closing, route, runtimes>>
    BY <1>1, <2>1 DEF cacheVars
  <2>3. Rested(caller[o]) \in ListCaller
    BY <1>0 DEF Rested, ListCaller, CallerSteps
  <2>4. Follows(caller[o], Rested(caller[o]), n) /\ Stays(caller[o], Rested(caller[o]))
    BY <1>0, <1>1 DEF Rested, ListCaller, Follows, Stays, InFlight, Answering, FlightSteps, ListSteps
  <2> QED BY <2>1, <2>2, <2>3, <2>4, OneCaller
<1>8. CASE ~closing /\ runtimes[r].leases # 0 /\ Hit(c)
  <2> DEFINE y == [caller[o] EXCEPT !.pc = "listed", !.ok = TRUE, !.began = c.models]
  <2>1. caller' = [caller EXCEPT ![o] = y] /\ caches' = [caches EXCEPT ![r] = c]
    BY <1>0, <1>1, <1>2, <1>8 DEF List, SetCache, Hit
  <2>2. y \in ListCaller /\ y.res = r /\ y.pc = "listed" /\ y.task = "list" /\ y.began = c.models
        /\ y.asked = caller[o].asked
    BY <1>0, <1>1, <1>4 DEF ListCaller, CallerSteps, ListSteps
  <2> HIDE DEF y
  <2>3. c.models = n
    BY <1>3, <1>8 DEF CacheKept, Hit
  <2>4. CallerKept(y, n)
    BY <1>0, <1>1, <2>2, <2>3 DEF CallerKept, ListCaller
  <2> QED BY <1>5, <1>6, <2>1, <2>2, <2>4
<1>9. CASE ~closing /\ runtimes[r].leases # 0 /\ ~Hit(c) /\ c.flight # Nobody
  <2> DEFINE y == [caller[o] EXCEPT !.pc = "joining", !.on = c.flight]
  <2>1. caller' = [caller EXCEPT ![o] = y] /\ caches' = [caches EXCEPT ![r] = c]
    BY <1>0, <1>1, <1>2, <1>9 DEF List, SetCache
  <2>2. y \in ListCaller /\ y.res = r /\ y.pc = "joining" /\ y.task = "list" /\ y.on = c.flight
        /\ y.asked = caller[o].asked
    BY <1>0, <1>1, <1>4 DEF ListCaller, CallerSteps, ListSteps
  <2> HIDE DEF y
  <2>3. CallerKept(y, n) /\ y.on \in Callers
    BY <1>1, <1>4, <1>9, <2>2 DEF CallerKept, Answering, InFlight, FlightSteps
  <2> QED BY <1>5, <1>6, <2>1, <2>2, <2>3
<1>10. CASE ~closing /\ runtimes[r].leases # 0 /\ ~Hit(c) /\ c.flight = Nobody
  <2> DEFINE y == [caller[o] EXCEPT !.pc = "open", !.began = n, !.generation = c.generation]
             d == [c EXCEPT !.flight = o]
  <2>1. caller' = [caller EXCEPT ![o] = y] /\ caches' = [caches EXCEPT ![r] = d]
    BY <1>0, <1>1, <1>2, <1>10 DEF List, SetCache
  <2>2. y \in ListCaller /\ y.res = r /\ y.pc = "open" /\ y.task = "list" /\ y.began = n
        /\ y.asked = caller[o].asked /\ y.generation = c.generation
    <3>1. n \in Nat
      BY <1>0
    <3> HIDE DEF n
    <3> QED BY <1>0, <1>1, <1>4, <3>1 DEF ListCaller, CallerSteps, FlightSteps
  <2>3. d \in ListCache /\ d.flight = o /\ d.models = c.models /\ d.generation = c.generation
        /\ d.present
    BY <1>3 DEF ListCache
  <2> HIDE DEF y, d
  <2>4. CallerKept(y, n) /\ InFlight(y)
    BY <1>0, <1>1, <2>2 DEF CallerKept, InFlight, FlightSteps, ListSteps, ListCaller
  <2> QED BY <1>5, <1>6, <1>10, <2>1, <2>2, <2>3, <2>4
<1> QED BY <1>7, <1>8, <1>9, <1>10

\* The owner of a flight ends it, and wakes those who have joined it.
LEMMA FlightStep ==
  ASSUME ModelsAssumption, ModelInv, NEW o \in Callers, EndFlight(o)
  PROVE  ModelInv'
<1> DEFINE r == caller[o].res
           n == flushes[r]
           x == IF caller[o].ok THEN [caller[o] EXCEPT !.pc = "listed"] ELSE Rested(caller[o])
           woken(w) == [caller[w] EXCEPT !.pc = "list", !.on = Nobody]
<1>0. caller \in [Callers -> ListCaller] /\ caller[o] \in ListCaller /\ r \in Resources
      /\ caches \in [Resources -> ListCache] /\ caches[r] \in ListCache
      /\ flushes \in [Resources -> 0 .. MaxFlushes] /\ n \in 0 .. MaxFlushes
      /\ Nobody \notin Callers /\ MaxFlushes \in Nat /\ MaxRoutes \in Nat
      /\ 0 \in 0 .. MaxRoutes /\ 0 \in 0 .. MaxFlushes /\ 0 \in Nat
      /\ CallerKept(caller[o], n) /\ CacheKept(r, caches[r], n)
  BY DEF ModelInv, ListInv, ModelsAssumption, ListCaller
<1>1. PICK c \in ListCache : c = caches[r]
  BY <1>0
<1>2. caller[o].pc = "publish" /\ caller[o].task = "list" /\ caller[o].began >= caller[o].asked
      /\ caller[o].asked <= n
      /\ UNCHANGED <<runtimes, closing, route, flushes>>
  BY <1>0 DEF EndFlight, CallerKept, ListSteps, Answering, InFlight, FlightSteps, runtimeVars, flagVars
<1>3. x \in ListCaller /\ x.res = r /\ x.pc \notin {"starting", "started", "joining"} /\ CallerKept(x, n)
  <2>1. CASE caller[o].ok
    <3>1. [caller[o] EXCEPT !.pc = "listed"] \in ListCaller
      BY <1>0 DEF ListCaller, CallerSteps, ListSteps
    <3> QED BY <1>0, <1>2, <2>1, <3>1 DEF ListCaller, CallerKept
  <2>2. CASE ~caller[o].ok
    <3>1. Rested(caller[o]) \in ListCaller
      BY <1>0 DEF Rested, ListCaller, CallerSteps
    <3>2. Rested(caller[o]).pc = "idle" /\ Rested(caller[o]).asked = 0 /\ Rested(caller[o]).res = r
          /\ Rested(caller[o]).task = "stream"
      BY <1>0 DEF Rested, ListCaller
    <3> QED BY <1>0, <2>2, <3>1, <3>2 DEF CallerKept, ListSteps, Answering, InFlight, FlightSteps
  <2> QED BY <2>1, <2>2
<1>4. ASSUME NEW w \in Callers, w # o, caller[w].pc = "joining"
      PROVE  /\ woken(w) \in ListCaller /\ woken(w).res = caller[w].res /\ woken(w).pc = "list"
             /\ CallerKept(woken(w), flushes[caller[w].res])
  <2>1. caller[w] \in ListCaller /\ CallerKept(caller[w], flushes[caller[w].res])
    BY <1>0 DEF ModelInv, ListInv
  <2>2. woken(w) \in ListCaller
    BY <2>1 DEF ListCaller, CallerSteps, ListSteps
  <2> QED BY <1>4, <2>1, <2>2 DEF ListCaller, CallerKept, Answering, InFlight, FlightSteps, ListSteps
<1>5. PICK d \in ListCache : d = IF Stores(o, c) THEN Stored(c, caller[o].began) ELSE c
  <2>1. caller[o].began \in Nat /\ "armed" \in Timer /\ c.late \in Int /\ c.late + 1 \in Int
    BY <1>0 DEF ListCaller, ListCache, Timer
  <2>2. [c EXCEPT !.models = caller[o].began, !.fresh = TRUE, !.timer = "armed", !.late = c.late] \in ListCache
    BY <2>1 DEF ListCache
  <2>3. [c EXCEPT !.models = caller[o].began, !.fresh = TRUE, !.timer = "armed", !.late = c.late + 1]
          \in ListCache
    BY <2>1 DEF ListCache
  <2>4. Stored(c, caller[o].began) \in ListCache
    <3>1. CASE c.timer = "due" /\ c.late < MaxLate
      BY <2>3, <3>1 DEF Stored
    <3>2. CASE ~(c.timer = "due" /\ c.late < MaxLate)
      BY <2>2, <3>2 DEF Stored
    <3> QED BY <3>1, <3>2
  <2> QED BY <2>4
<1>6. PICK e \in ListCache : e = [d EXCEPT !.flight = Nobody]
  BY DEF ListCache
<1>7. e.flight = Nobody /\ e.models = d.models
  BY <1>6 DEF ListCache
<1>8. caches' = [caches EXCEPT ![r] = IF ~OwnsFlight(o, c) THEN c
                                      ELSE IF e.models = NoModels THEN NoCache ELSE e]
      /\ caller' = [w \in Callers |->
            IF w = o THEN x
            ELSE IF w \in Joiners(o) /\ OwnsFlight(o, c) THEN woken(w) ELSE caller[w]]
  BY <1>1, <1>5, <1>6 DEF EndFlight, SetCache
<1>9. \A w \in Callers : caller[w] \in ListCaller /\ CallerKept(caller[w], flushes[caller[w].res])
                         /\ (w \in Joiners(o) => caller[w].pc = "joining")
  BY <1>0 DEF ModelInv, ListInv, Joiners
<1> HIDE DEF x, woken
<1>10. ASSUME NEW w \in Callers
       PROVE  /\ caller'[w] \in ListCaller /\ caller'[w].res = caller[w].res
              /\ CallerKept(caller'[w], flushes[caller[w].res])
              /\ (caller'[w].pc \in {"starting", "started", "joining"} => caller'[w] = caller[w])
              /\ (caller[w].pc = "started" => caller'[w] = caller[w])
              /\ (InFlight(caller[w]) /\ w # o => caller'[w] = caller[w])
  <2>1. CASE w = o
    BY <1>2, <1>3, <1>8, <2>1
  <2>2. CASE w # o /\ w \in Joiners(o) /\ OwnsFlight(o, c)
    <3>1. caller'[w] = woken(w) /\ caller[w].pc = "joining"
      BY <1>8, <1>9, <2>2
    <3> QED BY <1>4, <2>2, <3>1 DEF InFlight, FlightSteps
  <2>3. CASE w # o /\ ~(w \in Joiners(o) /\ OwnsFlight(o, c))
    BY <1>8, <1>9, <2>3
  <2> QED BY <2>1, <2>2, <2>3
<1>11. caller' \in [Callers -> ListCaller]
  BY <1>8, <1>10
<1>12. RouteInv'
  <2>1. ASSUME NEW w \in Callers PROVE caller[w].res \in Resources /\ Stays(caller[w], caller'[w])
    BY <1>9, <1>10 DEF ListCaller, Stays
  <2> QED BY <1>2, <2>1, RuntimesRest DEF ModelInv
<1>13. \A w \in Callers : CallerKept(caller[w], flushes[caller[w].res])'
  BY <1>2, <1>10
<1>14. ASSUME NEW s \in Resources, s # r PROVE caches[s].flight # o
  BY <1>0, <1>14 DEF ModelInv, ListInv, CacheKept
<1>15. CASE ~OwnsFlight(o, c)
  <2>1. caches' = caches /\ c.flight # o
    BY <1>0, <1>1, <1>8, <1>15 DEF OwnsFlight, CacheKept
  <2>2. ASSUME NEW s \in Resources PROVE CacheKept(s, caches[s], flushes[s])'
    <3>1. CacheKept(s, caches[s], flushes[s]) /\ caches[s].flight # o
          /\ caches[s].flight \in Callers \cup {Nobody}
      BY <1>0, <1>1, <1>14, <2>1 DEF ModelInv, ListInv, ListCache
    <3> QED BY <1>2, <1>10, <2>1, <3>1 DEF CacheKept
  <2>3. NoJoinerIsStranded'
    BY <1>10, <2>1 DEF ModelInv, ListInv, NoJoinerIsStranded
  <2> QED BY <1>0, <1>2, <1>11, <1>12, <1>13, <2>1, <2>2, <2>3 DEF ModelInv, ListInv
<1>16. CASE OwnsFlight(o, c)
  <2>1. d.models \in {NoModels, n}
    <3>1. CASE Stores(o, c)
      <4>1. caller[o].began = n
        BY <1>0, <1>1, <1>16, <3>1 DEF Stores, OwnsFlight, CacheKept
      <4>2. d.models = caller[o].began
        BY <1>5, <3>1 DEF Stored, ListCache
      <4> QED BY <4>1, <4>2
    <3>2. CASE ~Stores(o, c)
      BY <1>0, <1>1, <1>5, <3>2 DEF CacheKept
    <3> QED BY <3>1, <3>2
  <2>2. PICK f \in ListCache : f = IF e.models = NoModels THEN NoCache ELSE e
    BY NoCacheKept
  <2>3. CacheKept(r, f, n) /\ f.flight = Nobody
    BY <1>7, <2>1, <2>2, NoCacheKept DEF CacheKept
  <2>4. caches' \in [Resources -> ListCache] /\ caches'[r] = f
        /\ \A s \in Resources \ {r} : caches'[s] = caches[s]
    BY <1>0, <1>8, <1>16, <2>2
  <2>5. ASSUME NEW s \in Resources PROVE CacheKept(s, caches[s], flushes[s])'
    <3>1. CASE s = r
      BY <1>2, <2>3, <2>4, <3>1 DEF CacheKept
    <3>2. CASE s # r
      <4>1. CacheKept(s, caches[s], flushes[s]) /\ caches[s].flight # o
            /\ caches[s].flight \in Callers \cup {Nobody}
        BY <1>0, <1>14, <3>2 DEF ModelInv, ListInv, ListCache
      <4> QED BY <1>2, <1>10, <2>4, <3>2, <4>1 DEF CacheKept
    <3> QED BY <3>1, <3>2
  <2>6. NoJoinerIsStranded'
    <3>1. SUFFICES ASSUME NEW w \in Callers, caller'[w].pc = "joining"
                   PROVE  caches'[caller'[w].res].flight = caller'[w].on
      BY DEF NoJoinerIsStranded
    <3>2. caller'[w] = caller[w] /\ caches[caller[w].res].flight = caller[w].on
          /\ caller[w].res \in Resources
      BY <1>9, <1>10, <3>1 DEF ModelInv, ListInv, NoJoinerIsStranded, ListCaller
    <3>3. caller[w].res # r
      <4>1. SUFFICES ASSUME caller[w].res = r PROVE FALSE
        OBVIOUS
      <4>2. caller[w].on = o
        BY <1>1, <1>16, <3>2, <4>1 DEF OwnsFlight
      <4>3. w # o /\ w \in Joiners(o)
        BY <1>2, <3>1, <3>2, <4>2 DEF Joiners
      <4>4. caller'[w].pc = "list"
        BY <1>4, <1>8, <1>16, <3>1, <3>2, <4>3
      <4> QED BY <3>1, <4>4
    <3> QED BY <2>4, <3>2, <3>3
  <2> QED BY <1>0, <1>2, <1>11, <1>12, <1>13, <2>4, <2>5, <2>6 DEF ModelInv, ListInv
<1> QED BY <1>15, <1>16

----------------------------------------
(* The end.                                                                *)

LEMMA ClientsRevoked ==
  ASSUME ModelsAssumption, ModelInv, RevokeClients
  PROVE  ModelInv'
<1>0. caller \in [Callers -> ListCaller]
      /\ \A o \in Callers : CallerKept(caller[o], flushes[caller[o].res])
  BY DEF ModelInv, ListInv
<1>1. UNCHANGED <<cacheVars, closing, route, runtimes>>
  BY DEF RevokeClients, runtimeVars
<1>2. ASSUME NEW o \in Callers
      PROVE  /\ caller'[o] \in ListCaller /\ caller[o].res \in Resources /\ Stays(caller[o], caller'[o])
             /\ Follows(caller[o], caller'[o], flushes[caller[o].res])
  <2> DEFINE y == [caller[o] EXCEPT !.ctx = "cancelled"]
  <2>1. caller'[o] = IF Busy(o) THEN y ELSE caller[o]
    BY DEF RevokeClients
  <2>2. caller[o] \in ListCaller /\ CallerKept(caller[o], flushes[caller[o].res])
    BY <1>0
  <2>3. y \in ListCaller /\ Stays(caller[o], y) /\ Follows(caller[o], y, flushes[caller[o].res])
    BY <2>2 DEF ListCaller, Stays, Follows, CallerKept, InFlight, Answering
  <2>4. caller[o].res \in Resources /\ Stays(caller[o], caller[o])
        /\ Follows(caller[o], caller[o], flushes[caller[o].res])
    BY <2>2 DEF ListCaller, Stays, Follows, CallerKept
  <2> HIDE DEF y
  <2> QED BY <2>1, <2>2, <2>3, <2>4
<1>3. caller' \in [Callers -> ListCaller]
  BY <1>2 DEF RevokeClients
<1>4. ListInv'
  BY <1>1, <1>2, <1>3, CallersMove DEF ModelInv
<1> QED BY <1>1, <1>2, <1>4, RuntimesRest DEF ModelInv

LEMMA ModelsShutdown ==
  ASSUME ModelsAssumption, ModelInv, Shutdown
  PROVE  ModelInv'
<1>0. caller \in [Callers -> ListCaller] /\ route \in [Routes -> RouteStates]
      /\ runtimes \in [Resources -> RouteRuntime] /\ flushes \in [Resources -> 0 .. MaxFlushes]
      /\ Nobody \notin Callers /\ MaxRoutes \in Nat
      /\ \A o \in Callers : CallerKept(caller[o], flushes[caller[o].res])
  BY DEF ModelInv, ListInv, RouteInv, ModelsAssumption
<1>1. closing' = TRUE /\ flushes' = flushes
      /\ runtimes' = [r \in Resources |-> NoRuntime] /\ caches' = [r \in Resources |-> NoCache]
      /\ route' = [b \in Routes |-> IF b \in ShutdownDrops THEN "dropped" ELSE route[b]]
  BY DEF Shutdown
<1>2. NoRuntime \in RouteRuntime /\ ~NoRuntime.present /\ NoRuntime.leases = 0
  BY <1>0 DEF NoRuntime, RouteRuntime, Timer
<1>3. ASSUME NEW o \in Callers
      PROVE  /\ caller'[o] \in ListCaller /\ caller'[o].res = caller[o].res
             /\ CallerKept(caller'[o], flushes[caller[o].res]) /\ caller'[o].pc # "joining"
             /\ (caller[o].pc = "started" => caller'[o] = caller[o])
  <2> DEFINE y == [caller[o] EXCEPT !.pc = "list", !.on = Nobody]
  <2>1. caller[o] \in ListCaller /\ CallerKept(caller[o], flushes[caller[o].res])
        /\ caller[o].res \in Resources
    BY <1>0 DEF ListCaller
  <2>2. caller[o].pc = "joining" => caller[o].on \in Flights
    <3>1. caller[o].pc = "joining" => caches[caller[o].res].flight = caller[o].on /\ caller[o].on \in Callers
      BY <2>1 DEF ModelInv, ListInv, NoJoinerIsStranded, CallerKept
    <3> QED BY <1>0, <2>1, <3>1 DEF Flights
  <2>3. caller'[o] = IF caller[o].pc = "joining" THEN y ELSE caller[o]
    BY <2>2 DEF Shutdown
  <2>4. y \in ListCaller
    BY <2>1 DEF ListCaller, CallerSteps, ListSteps
  <2>5. caller[o].pc = "joining" => y.pc = "list" /\ y.res = caller[o].res
                                   /\ CallerKept(y, flushes[caller[o].res])
    BY <2>1 DEF ListCaller, CallerKept, Answering, InFlight, FlightSteps, ListSteps
  <2> HIDE DEF y
  <2> QED BY <2>1, <2>3, <2>4, <2>5
<1>4. caller' \in [Callers -> ListCaller]
  BY <1>3 DEF Shutdown
<1>5. NoJoinerIsStranded'
  BY <1>3 DEF NoJoinerIsStranded
<1>6. \A r \in Resources : NoCache \in ListCache /\ CacheKept(r, NoCache, flushes[r])' 
  BY NoCacheKept DEF CacheKept
<1>7. ListInv'
  BY <1>0, <1>1, <1>3, <1>4, <1>5, <1>6 DEF ListInv, CacheKept
<1>8. NoRouteIsLost'
  <2>1. SUFFICES ASSUME NEW b \in Routes, route'[b] = "live"
                 PROVE  \E o \in Callers : caller'[o].pc = "started" /\ caller'[o].got = b
    BY DEF NoRouteIsLost
  <2>2. b \notin ShutdownDrops /\ route[b] = "live" /\ b # 0
    BY <1>0, <1>1, <2>1 DEF Routes
  <2>3. PICK o \in Callers : caller[o].pc = "started" /\ caller[o].got = b
    BY <2>2 DEF ModelInv, RouteInv, NoRouteIsLost, ShutdownDrops
  <2> QED BY <1>3, <2>3
<1>9. route' \in [Routes -> RouteStates]
  BY <1>0, <1>1 DEF RouteStates
<1> QED BY <1>1, <1>2, <1>7, <1>8, <1>9 DEF ModelInv, RouteInv, StartKept

----------------------------------------
LEMMA NextModelInv == ASSUME ModelsAssumption, ModelInv, [ModelNext]_modelVars PROVE ModelInv'
<1>1. CASE UNCHANGED modelVars
  BY <1>1 DEF ModelInv, ListInv, RouteInv, modelVars, CacheKept, StartKept, NoRouteIsLost,
    NoJoinerIsStranded
<1>2. CASE ModelNext
  <2>1. ASSUME NEW r \in Resources,
               \/ LeaseAcquired(r) \/ LeaseReleased(r) \/ RetryDue(r)
               \/ IdleDue(r) \/ ExpireIdle(r) \/ FlushModelsCache(r)
               \/ CacheStale(r) \/ CacheDue(r) \/ ExpireCache(r)
        PROVE  ModelInv'
    BY <2>1, RuntimeSteps, ExpiryStep, CacheSteps
  <2>2. ASSUME NEW o \in Callers,
               \/ Call(o, "stream") \/ Call(o, "list") \/ CancelContext(o) \/ List(o)
               \/ JoinCancelled(o) \/ EndFlight(o) \/ Listed(o) \/ OpenBegin(o)
               \/ JoinRoute(o) \/ Loop(o) \/ WaitCancelled(o) \/ BackoffElapsed(o)
               \/ RouteAcquired(o) \/ RouteRefused(o) \/ Store(o) \/ OpenFails(o)
               \/ DiscoverReturns(o) \/ CloseStream(o)
        PROVE  ModelInv'
    BY <2>2, CallerStep, ListStep, FlightStep, StreamSteps, RouteSteps, StoreStep
  <2> QED BY <1>2, <2>1, <2>2, RouteReleased, ClientsRevoked, ModelsShutdown DEF ModelNext
<1> QED BY <1>1, <1>2

\* In every behaviour a flight belongs to a caller that lists the models of its
\* resource, and a start to the caller that its runtime names.
THEOREM ModelInvariant == ModelSpec => []ModelInv
BY InitModelInv, NextModelInv, ModelsAssumption, PTL DEF ModelSpec

\* No flush, late expiry or shutdown makes a listing older than its call, loses
\* a route or strands who joined a flight (ListModels, FlushModelsCache, Open).
THEOREM ListingsSound == ModelSpec => []ListingsAreSound
<1>1. ModelInv => ListingsAreSound
  <2>1. SUFFICES ASSUME ModelInv PROVE ListingsAreSound
    OBVIOUS
  <2>2. CacheOutlivesNoFlush
    BY <2>1 DEF ModelInv, ListInv, CacheKept, CacheOutlivesNoFlush
  <2>3. ListingsAreCurrent
    BY <2>1 DEF ModelInv, ListInv, CallerKept, Answering, ListingsAreCurrent
  <2> QED BY <2>1, <2>2, <2>3 DEF ModelInv, ListInv, RouteInv, ListingsAreSound
<1> QED BY <1>1, ModelInvariant, PTL
=============================================================================
