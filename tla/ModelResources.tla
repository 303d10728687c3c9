--------------------------- MODULE ModelResources ---------------------------
(***************************************************************************)
(* The models resource handler of the agent                                *)
(* (internal/providergateway/modelresource): the retained Caddy route of   *)
(* each leased models resource, the callers of Open that start or join it, *)
(* and the coalesced, expiring, flushable cache of discovery results that  *)
(* ListModels serves from.  An action is one critical section of h.mu or   *)
(* one step outside of it.                                                 *)
(*                                                                         *)
(* Callbacks bound to a deleted runtime or cache compare unequal with its  *)
(* successor and do nothing, so deletion drops them.                       *)
(***************************************************************************)
EXTENDS Naturals, FiniteSets

CONSTANTS
    Resources,   \* protocol.ResourceID
    Callers,     \* concurrent callers of Open and ListModels
    Nobody,
    MaxLeases,   \* bound: leases registered for one resource at a time
    MaxRoutes,   \* bound: routes acquired in one behaviour
    MaxFlushes,  \* bound: cache flushes in one behaviour
    MaxLate      \* bound: timer callbacks in flight after a Stop

ASSUME ModelsAssumption ==
  /\ Nobody \notin Callers
  /\ MaxLeases \in Nat /\ MaxRoutes \in Nat /\ MaxFlushes \in Nat
  /\ MaxLate \in Nat

VARIABLES
    runtimes,   \* h.runtimes
    caches,     \* h.caches
    closing,    \* h.closing
    revoked,    \* the agent's RPC contexts and lease lifetimes are cancelled
    caller,     \* every caller of Open or ListModels
    route,      \* state of every route
    late,       \* idle callbacks in flight after a Stop
    flushes     \* how often the cache of a resource was flushed

modelVars == <<runtimes, caches, closing, revoked, caller, route, late, flushes>>

Routes == 1 .. MaxRoutes
Timer == {"none", "armed", "due"}

Runtime ==
  [present : BOOLEAN, leases : 0 .. MaxLeases, waiters : Nat, streams : Nat,
   backend : 0 .. MaxRoutes, starting : Callers \cup {Nobody},
   backoff : BOOLEAN, idle : Timer]

NoRuntime ==
  [present |-> FALSE, leases |-> 0, waiters |-> 0, streams |-> 0,
   backend |-> 0, starting |-> Nobody, backoff |-> FALSE, idle |-> "none"]

\* models is absent or the number of flushes the discovery that found them
\* began after; fresh says that expires is in the future; late counts expiry
\* callbacks of the current generation in flight after a Stop.
NoModels == MaxFlushes + 1

Cache ==
  [present : BOOLEAN, models : 0 .. NoModels, fresh : BOOLEAN, generation : Nat,
   flight : Callers \cup {Nobody}, timer : Timer, late : Nat]

NoCache ==
  [present |-> FALSE, models |-> NoModels, fresh |-> FALSE, generation |-> 0,
   flight |-> Nobody, timer |-> "none", late |-> 0]

\* A caller of ListModels is at "list" at the head of its loop, "joining"
\* while it waits for another flight, and passes through Open as owner of a
\* flight: began and generation are those of the flight, asked those of the call.
Caller ==
  [pc : {"idle", "list", "joining", "open", "loop", "waiting", "backoff",
         "starting", "started", "leaving", "stream", "discovering",
         "discovered", "publish", "listed"},
   task : {"stream", "list"}, res : Resources, ctx : {"live", "cancelled"},
   on : Callers \cup {Nobody}, got : 0 .. MaxRoutes, ok : BOOLEAN,
   asked : 0 .. MaxFlushes, began : 0 .. MaxFlushes, generation : Nat]

RouteStates == {"unused", "live", "dropped", "released"}

Busy(o) == caller[o].pc \notin {"idle", "stream", "listed"}

----------------------------------------

Needed(c) == c.waiters # 0 \/ c.streams # 0 \/ c.starting # Nobody

\* releaseDemandLocked.
ReleaseDemand(c) ==
  CASE Needed(c) -> c
    [] ~Needed(c) /\ c.backend = 0 -> IF c.leases = 0 THEN NoRuntime ELSE c
    [] OTHER -> IF c.idle = "none" THEN [c EXCEPT !.idle = "armed"] ELSE c

SetRuntime(r, c) ==
  /\ runtimes' = [runtimes EXCEPT ![r] = c]
  /\ late' = [late EXCEPT ![r] =
                CASE ~c.present -> 0
                  [] c.present /\ runtimes[r].idle = "due" /\ c.idle = "none" -> @ + 1
                  [] OTHER -> @]

SetCache(r, c) == caches' = [caches EXCEPT ![r] = c]

Goto(o, pc) == caller' = [caller EXCEPT ![o].pc = pc]

\* Open returns an error: to its own caller, or to the flight it serves.
Leave(o) == caller' = [caller EXCEPT ![o].pc = "leaving", ![o].ok = FALSE]

runtimeVars == <<runtimes, late>>
cacheVars == <<caches, flushes>>
flagVars == <<closing, revoked>>

----------------------------------------

ModelInit ==
  /\ runtimes = [r \in Resources |-> NoRuntime]
  /\ caches = [r \in Resources |-> NoCache]
  /\ closing = FALSE
  /\ revoked = FALSE
  /\ caller \in [Callers -> {[pc |-> "idle", task |-> "stream", res |-> r,
                              ctx |-> "live", on |-> Nobody, got |-> 0,
                              ok |-> FALSE, asked |-> 0, began |-> 0,
                              generation |-> 0] : r \in Resources}]
  /\ route = [b \in Routes |-> "unused"]
  /\ late = [r \in Resources |-> 0]
  /\ flushes = [r \in Resources |-> 0]

LeaseAcquired(r) ==
  /\ ~closing /\ ~revoked
  /\ runtimes[r].leases < MaxLeases
  /\ SetRuntime(r, [runtimes[r] EXCEPT !.present = TRUE, !.leases = @ + 1])
  /\ UNCHANGED <<cacheVars, flagVars, caller, route>>

LeaseReleased(r) ==
  /\ runtimes[r].leases > 0
  /\ SetRuntime(r, ReleaseDemand([runtimes[r] EXCEPT !.leases = @ - 1]))
  /\ UNCHANGED <<cacheVars, flagVars, caller, route>>

\* A client opens a stream, or lists the models, of a resource it leases.
Call(o, task) ==
  /\ caller[o].pc = "idle"
  /\ ~revoked
  /\ caller' = [caller EXCEPT ![o] =
                  [@ EXCEPT !.pc = IF task = "list" THEN "list" ELSE "open",
                            !.task = task, !.asked = flushes[caller[o].res]]]
  /\ UNCHANGED <<runtimeVars, cacheVars, flagVars, route>>

CancelContext(o) ==
  /\ Busy(o)
  /\ caller[o].ctx = "live"
  /\ caller' = [caller EXCEPT ![o].ctx = "cancelled"]
  /\ UNCHANGED <<runtimeVars, cacheVars, flagVars, route>>

\* The caller's next call starts from here.
Rested(c) ==
  [c EXCEPT !.pc = "idle", !.task = "stream", !.ctx = "live", !.on = Nobody,
            !.got = 0, !.ok = FALSE, !.asked = 0, !.began = 0, !.generation = 0]

Return(o) == caller' = [caller EXCEPT ![o] = Rested(@)]

----------------------------------------
(***************************************************************************)
(* ListModels and FlushModelsCache.                                        *)
(***************************************************************************)

Hit(c) == c.models # NoModels /\ c.fresh

\* The head of ListModels' loop: refuse, answer from the cache, join the
\* flight, or become its owner.
List(o) ==
  LET r == caller[o].res
      c == IF caches[r].present THEN caches[r] ELSE [NoCache EXCEPT !.present = TRUE]
  IN  /\ caller[o].pc = "list"
      /\ \/ /\ closing \/ runtimes[r].leases = 0
            /\ Return(o)
            /\ UNCHANGED caches
         \/ /\ ~closing /\ runtimes[r].leases # 0 /\ Hit(c)
            /\ caller' = [caller EXCEPT ![o].pc = "listed", ![o].ok = TRUE,
                                        ![o].began = c.models]
            /\ SetCache(r, c)
         \/ /\ ~closing /\ runtimes[r].leases # 0 /\ ~Hit(c) /\ c.flight # Nobody
            /\ caller' = [caller EXCEPT ![o].pc = "joining", ![o].on = c.flight]
            /\ SetCache(r, c)
         \/ /\ ~closing /\ runtimes[r].leases # 0 /\ ~Hit(c) /\ c.flight = Nobody
            /\ caller' = [caller EXCEPT ![o].pc = "open", ![o].began = flushes[r],
                                        ![o].generation = c.generation]
            /\ SetCache(r, [c EXCEPT !.flight = o])
      /\ UNCHANGED <<runtimeVars, flagVars, route, flushes>>

JoinCancelled(o) ==
  /\ caller[o].pc = "joining"
  /\ caller[o].ctx = "cancelled"
  /\ Return(o)
  /\ UNCHANGED <<runtimeVars, cacheVars, flagVars, route>>

Stores(o, c) == caller[o].ok /\ c.generation = caller[o].generation /\ ~closing

\* scheduleCacheExpiryLocked: the previous timer is stopped, maybe too late.
Stored(c, models) ==
  [c EXCEPT !.models = models, !.fresh = TRUE, !.timer = "armed",
            !.late = IF c.timer = "due" /\ @ < MaxLate THEN @ + 1 ELSE @]

Joiners(o) == {w \in Callers : caller[w].pc = "joining" /\ caller[w].on = o}

OwnsFlight(o, c) == c.present /\ c.flight = o

\* The owner's second critical section in ListModels.
EndFlight(o) ==
  LET r == caller[o].res
      c == caches[r]
      d == IF Stores(o, c) THEN Stored(c, caller[o].began) ELSE c
      e == [d EXCEPT !.flight = Nobody]
  IN  /\ caller[o].pc = "publish"
      /\ SetCache(r, IF ~OwnsFlight(o, c) THEN c
                     ELSE IF e.models = NoModels THEN NoCache ELSE e)
      /\ caller' = [w \in Callers |->
            IF w = o
            THEN IF caller[o].ok THEN [caller[o] EXCEPT !.pc = "listed"]
                                 ELSE Rested(caller[o])
            ELSE IF w \in Joiners(o) /\ OwnsFlight(o, c)
            THEN [caller[w] EXCEPT !.pc = "list", !.on = Nobody]
            ELSE caller[w]]
      /\ UNCHANGED <<runtimeVars, flagVars, route, flushes>>

\* The RPC hands the models to its client.
Listed(o) ==
  /\ caller[o].pc = "listed"
  /\ Return(o)
  /\ UNCHANGED <<runtimeVars, cacheVars, flagVars, route>>

\* Mutant: the flush keeps the generation.
FlushedInPlace(c) ==
  [c EXCEPT !.models = NoModels, !.fresh = FALSE, !.timer = "none"]

\* Callbacks of an older generation do nothing when they run.
Flushed(c) ==
  [c EXCEPT !.generation = @ + 1, !.models = NoModels, !.fresh = FALSE,
            !.timer = "none", !.late = 0]

FlushModelsCache(r) ==
  /\ flushes[r] < MaxFlushes
  /\ ~revoked
  /\ flushes' = [flushes EXCEPT ![r] = @ + 1]
  /\ SetCache(r, IF caches[r].flight = Nobody THEN NoCache ELSE Flushed(caches[r]))
  /\ UNCHANGED <<runtimeVars, flagVars, caller, route>>

\* CacheTTL passes: expires is reached, and the expiry timer fires after it.
CacheStale(r) ==
  /\ caches[r].fresh
  /\ SetCache(r, [caches[r] EXCEPT !.fresh = FALSE])
  /\ UNCHANGED <<runtimeVars, flagVars, caller, route, flushes>>

CacheDue(r) ==
  /\ caches[r].timer = "armed" /\ ~caches[r].fresh
  /\ SetCache(r, [caches[r] EXCEPT !.timer = "due"])
  /\ UNCHANGED <<runtimeVars, flagVars, caller, route, flushes>>

\* The expiry callback; it leaves a cache with a flight alone.
ExpiredCache(c) == IF c.flight # Nobody THEN c ELSE NoCache

ExpireCache(r) ==
  /\ caches[r].timer = "due" \/ caches[r].late > 0
  /\ \/ /\ caches[r].timer = "due"
        /\ SetCache(r, ExpiredCache([caches[r] EXCEPT !.timer = "none"]))
     \/ /\ caches[r].late > 0
        /\ SetCache(r, ExpiredCache([caches[r] EXCEPT !.late = @ - 1]))
  /\ UNCHANGED <<runtimeVars, flagVars, caller, route, flushes>>

----------------------------------------
(***************************************************************************)
(* Open and the route it retains.                                          *)
(***************************************************************************)

\* Open up to its loop; without a lease it fails before it counts itself.
OpenBegin(o) ==
  LET r == caller[o].res
  IN  /\ caller[o].pc = "open"
      /\ IF runtimes[r].leases = 0
         THEN /\ IF caller[o].task = "list"
                 THEN caller' = [caller EXCEPT ![o].pc = "publish", ![o].ok = FALSE]
                 ELSE Return(o)
              /\ UNCHANGED runtimeVars
         ELSE /\ SetRuntime(r, [runtimes[r] EXCEPT !.waiters = @ + 1, !.idle = "none"])
              /\ Goto(o, "loop")
      /\ UNCHANGED <<cacheVars, flagVars, route>>

TakeStream(c) == [c EXCEPT !.waiters = @ - 1, !.streams = @ + 1]

JoinRoute(o) ==
  LET r == caller[o].res
      c == runtimes[r]
  IN  /\ caller[o].pc = "loop"
      /\ ~closing /\ c.present /\ c.backend # 0
      /\ SetRuntime(r, TakeStream(c))
      /\ caller' = [caller EXCEPT ![o].got = c.backend,
            ![o].pc = IF caller[o].task = "list" THEN "discovering" ELSE "stream"]
      /\ UNCHANGED <<cacheVars, flagVars, route>>

MayStart(c) == c.backend = 0 /\ c.starting = Nobody

Loop(o) ==
  LET r == caller[o].res
      c == runtimes[r]
  IN  /\ caller[o].pc = "loop"
      /\ \/ /\ closing \/ ~c.present
            /\ Leave(o)
            /\ UNCHANGED runtimeVars
         \/ /\ ~closing /\ c.present /\ c.backend = 0 /\ ~MayStart(c)
            /\ caller' = [caller EXCEPT ![o].pc = "waiting", ![o].on = c.starting]
            /\ UNCHANGED runtimeVars
         \/ /\ ~closing /\ c.present /\ MayStart(c) /\ c.backoff
            /\ Goto(o, "backoff")
            /\ UNCHANGED runtimeVars
         \/ /\ ~closing /\ c.present /\ MayStart(c) /\ ~c.backoff
            /\ Goto(o, "starting")
            /\ SetRuntime(r, [c EXCEPT !.starting = o])
      /\ UNCHANGED <<cacheVars, flagVars, route>>

Interruptible == {"waiting", "backoff"}

WaitCancelled(o) ==
  /\ caller[o].pc \in Interruptible
  /\ caller[o].ctx = "cancelled"
  /\ Leave(o)
  /\ UNCHANGED <<runtimeVars, cacheVars, flagVars, route>>

RetryDue(r) ==
  /\ runtimes[r].backoff
  /\ runtimes' = [runtimes EXCEPT ![r].backoff = FALSE]
  /\ UNCHANGED <<cacheVars, flagVars, caller, route, late>>

BackoffElapsed(o) ==
  /\ caller[o].pc = "backoff"
  /\ ~runtimes[caller[o].res].backoff
  /\ Goto(o, "loop")
  /\ UNCHANGED <<runtimeVars, cacheVars, flagVars, route>>

\* The gateway resolver returns a route or an error.
RouteAcquired(o) ==
  /\ caller[o].pc = "starting"
  /\ \E b \in Routes :
      /\ route[b] = "unused"
      /\ \A a \in 1 .. b - 1 : route[a] # "unused"
      /\ route' = [route EXCEPT ![b] = "live"]
      /\ caller' = [caller EXCEPT ![o].pc = "started", ![o].got = b]
  /\ UNCHANGED <<runtimeVars, cacheVars, flagVars>>

RouteRefused(o) ==
  /\ caller[o].pc = "starting"
  /\ caller' = [caller EXCEPT ![o].pc = "started", ![o].got = 0]
  /\ UNCHANGED <<runtimeVars, cacheVars, flagVars, route>>

GoneRoute(b) == IF b = 0 THEN route ELSE [route EXCEPT ![b] = "dropped"]

Wakes(o) == {w \in Callers : caller[w].pc = "waiting" /\ caller[w].on = o}

Store(o) ==
  LET r == caller[o].res
      c == runtimes[r]
      b == caller[o].got
  IN  /\ caller[o].pc = "started"
      /\ \/ /\ ~c.present
            /\ route' = GoneRoute(b)
            /\ caller' = [caller EXCEPT ![o].pc = "leaving", ![o].ok = FALSE,
                                        ![o].got = 0]
            /\ UNCHANGED runtimeVars
         \/ /\ c.present
            /\ SetRuntime(r, ReleaseDemand([c EXCEPT !.starting = Nobody,
                                !.backend = b, !.backoff = (b = 0)]))
            /\ caller' = [w \in Callers |->
                  IF w = o
                  THEN [caller[o] EXCEPT !.got = 0,
                          !.pc = IF b = 0 /\ caller[o].ctx = "cancelled"
                                 THEN "leaving" ELSE "loop"]
                  ELSE IF w \in Wakes(o)
                  THEN [caller[w] EXCEPT !.pc = "loop", !.on = Nobody]
                  ELSE caller[w]]
            /\ UNCHANGED route
      /\ UNCHANGED <<cacheVars, flagVars>>

LeftRuntime(c) ==
  IF c.present /\ c.waiters > 0
  THEN ReleaseDemand([c EXCEPT !.waiters = @ - 1]) ELSE c

\* Open's deferred function, then its error to the client or to the flight.
OpenFails(o) ==
  /\ caller[o].pc = "leaving"
  /\ SetRuntime(caller[o].res, LeftRuntime(runtimes[caller[o].res]))
  /\ IF caller[o].task = "list"
     THEN caller' = [caller EXCEPT ![o].pc = "publish", ![o].on = Nobody]
     ELSE Return(o)
  /\ UNCHANGED <<cacheVars, flagVars, route>>

\* The backend answers or fails the discovery request.
DiscoverReturns(o) ==
  /\ caller[o].pc = "discovering"
  /\ \E ok \in BOOLEAN :
      caller' = [caller EXCEPT ![o].pc = "discovered", ![o].ok = ok]
  /\ UNCHANGED <<runtimeVars, cacheVars, flagVars, route>>

\* stream.Close and releaseStream, by the client or by discover.
CloseStream(o) ==
  LET r == caller[o].res
      c == runtimes[r]
  IN  /\ caller[o].pc \in {"stream", "discovered"}
      /\ SetRuntime(r, IF c.present /\ c.streams > 0
                       THEN ReleaseDemand([c EXCEPT !.streams = @ - 1]) ELSE c)
      /\ IF caller[o].pc = "stream" THEN Return(o)
         ELSE caller' = [caller EXCEPT ![o].pc = "publish", ![o].got = 0]
      /\ UNCHANGED <<cacheVars, flagVars, route>>

IdleDue(r) ==
  /\ runtimes[r].idle = "armed"
  /\ late[r] < MaxLate
  /\ runtimes' = [runtimes EXCEPT ![r].idle = "due"]
  /\ UNCHANGED <<cacheVars, flagVars, caller, route, late>>

Expires(c) == c.present /\ ~Needed(c) /\ c.backend # 0

Expired(c) ==
  IF c.leases = 0 THEN NoRuntime
  ELSE [c EXCEPT !.backend = 0, !.idle = "none", !.backoff = FALSE]

\* expireIdle, for the timer in current.idle or for one stopped too late.
ExpireIdle(r) ==
  LET c == runtimes[r]
      own == c.idle = "due"
      kept == IF ~Expired(c).present THEN 0 ELSE late[r]
  IN  /\ own \/ late[r] > 0
      /\ \/ /\ own /\ Expires(c)
            /\ late' = [late EXCEPT ![r] = kept]
         \/ /\ late[r] > 0 /\ Expires(c)
            /\ late' = [late EXCEPT ![r] =
                          IF kept > 0 /\ c.idle = "none" THEN kept - 1 ELSE kept]
         \/ /\ late[r] > 0 /\ ~Expires(c)
            /\ late' = [late EXCEPT ![r] = @ - 1]
      /\ IF Expires(c)
         THEN /\ runtimes' = [runtimes EXCEPT ![r] = Expired(c)]
              /\ route' = [route EXCEPT ![c.backend] = "dropped"]
         ELSE UNCHANGED <<runtimes, route>>
      /\ UNCHANGED <<cacheVars, flagVars, caller>>

ReleaseRoute(b) ==
  /\ route[b] = "dropped"
  /\ route' = [route EXCEPT ![b] = "released"]
  /\ UNCHANGED <<runtimeVars, cacheVars, flagVars, caller>>

\* The agent stops its RPC server, then cancels the lease lifetimes.
RevokeClients ==
  /\ ~revoked
  /\ revoked' = TRUE
  /\ caller' = [o \in Callers |->
                  IF Busy(o) THEN [caller[o] EXCEPT !.ctx = "cancelled"]
                  ELSE caller[o]]
  /\ UNCHANGED <<runtimeVars, cacheVars, closing, route>>

Flights == {caches[r].flight : r \in Resources} \ {Nobody}

ShutdownDrops == {runtimes[r].backend : r \in Resources} \ {0}

Shutdown ==
  /\ revoked
  /\ ~closing
  /\ closing' = TRUE
  /\ route' = [b \in Routes |-> IF b \in ShutdownDrops THEN "dropped" ELSE route[b]]
  /\ runtimes' = [r \in Resources |-> NoRuntime]
  /\ caches' = [r \in Resources |-> NoCache]
  /\ late' = [r \in Resources |-> 0]
  /\ caller' = [w \in Callers |->
                  IF caller[w].pc = "joining" /\ caller[w].on \in Flights
                  THEN [caller[w] EXCEPT !.pc = "list", !.on = Nobody]
                  ELSE caller[w]]
  /\ UNCHANGED <<revoked, flushes>>

ModelNext ==
  \/ \E r \in Resources :
      \/ LeaseAcquired(r) \/ LeaseReleased(r) \/ RetryDue(r)
      \/ IdleDue(r) \/ ExpireIdle(r) \/ FlushModelsCache(r)
      \/ CacheStale(r) \/ CacheDue(r) \/ ExpireCache(r)
  \/ \E o \in Callers :
      \/ Call(o, "stream") \/ Call(o, "list") \/ CancelContext(o) \/ List(o)
      \/ JoinCancelled(o) \/ EndFlight(o) \/ Listed(o) \/ OpenBegin(o)
      \/ JoinRoute(o) \/ Loop(o) \/ WaitCancelled(o) \/ BackoffElapsed(o)
      \/ RouteAcquired(o) \/ RouteRefused(o) \/ Store(o) \/ OpenFails(o)
      \/ DiscoverReturns(o) \/ CloseStream(o)
  \/ \E b \in Routes : ReleaseRoute(b)
  \/ RevokeClients
  \/ Shutdown

ModelSpec == ModelInit /\ [][ModelNext]_modelVars

----------------------------------------
(***************************************************************************)
(* Properties.                                                             *)
(***************************************************************************)

\* Every variable has its type and a deleted runtime or cache keeps nothing.
ModelTypeOK ==
  /\ runtimes \in [Resources -> Runtime]
  /\ caches \in [Resources -> Cache]
  /\ \A r \in Resources :
      /\ ~runtimes[r].present => runtimes[r] = NoRuntime
      /\ ~caches[r].present => caches[r] = NoCache
  /\ closing \in BOOLEAN /\ revoked \in BOOLEAN
  /\ caller \in [Callers -> Caller]
  /\ route \in [Routes -> RouteStates]
  /\ late \in [Resources -> 0 .. MaxLate]
  /\ flushes \in [Resources -> 0 .. MaxFlushes]

\* Whatever the cache holds was discovered by a flight that began after the
\* last FlushModelsCache: an older in-flight discovery never repopulates it.
CacheOutlivesNoFlush ==
  \A r \in Resources : caches[r].models \in {NoModels, flushes[r]}

\* A client is never given models that were discovered before a flush which
\* preceded its ListModels call, whether from the cache, from a flight it
\* joined or from its own.
ListingsAreCurrent ==
  \A o \in Callers :
      caller[o].pc = "listed" => caller[o].began >= caller[o].asked

\* Every acquired route is retained, in the hands of its starter or on its
\* way to Release.
NoRouteIsLost ==
  \A b \in Routes :
      route[b] = "live" =>
          \/ \E r \in Resources : runtimes[r].backend = b
          \/ \E o \in Callers : caller[o].pc = "started" /\ caller[o].got = b

\* A caller that joined a flight waits for one whose owner will still end
\* it: neither a failed discovery nor a flush nor shutdown strands a joiner.
NoJoinerIsStranded ==
  \A o \in Callers :
      caller[o].pc = "joining" => caches[caller[o].res].flight = caller[o].on

\* Flushes, late expiries and shutdown leave the listings current and every
\* flight and route with somebody who ends it (ListModels, FlushModelsCache, Open).
ListingsAreSound ==
  CacheOutlivesNoFlush /\ ListingsAreCurrent /\ NoRouteIsLost /\ NoJoinerIsStranded
=============================================================================
