------------------------------ MODULE McpTargets ------------------------------
(***************************************************************************)
(* The MCP backends behind the MCP resource handler (internal/mcpgateway): *)
(*                                                                         *)
(*  - "http" (localhttp, localhttp/resourcepool): targets with the same    *)
(*    key share one sidecar.  The pool keeps one process plan per key,     *)
(*    whose pinned mounts every start of the key uses, and counts the      *)
(*    targets that use it.  A connection of a target opens a connector of  *)
(*    the generation its service lease holds, and acquires a replacement   *)
(*    when that generation is gone;                                        *)
(*  - "stdio" (localstdio): a target keeps a prepared launch and runs one  *)
(*    sidecar per connection; the resolver releases every target when it   *)
(*    shuts down;                                                          *)
(*  - "plain" (remotehttp, builtin): nothing but the lifetime context.     *)
(*                                                                         *)
(* The registry of the pool is the abstract LeasePool, which               *)
(* ResourceRegistry implements.  Every action is one critical section, or  *)
(* one step between two of them.                                           *)
(***************************************************************************)
EXTENDS LeasePool

CONSTANTS
    Targets,     \* backends acquired by the resource handler
    Connections, \* streams the resource handler serves, one call each
    Streamed,    \* the targets it opens them on
    Kinds,       \* the kinds of target a behaviour may have
    NoTarget,
    NoLease,
    NoConnector

ASSUME TargetsAssumption ==
  /\ IsFiniteSet(Targets) /\ NoTarget \notin Targets
  /\ Streamed \subseteq Targets
  /\ Kinds \subseteq {"http", "stdio", "plain"}
  /\ MaxGeneration \in Nat

VARIABLES
    kind,        \* the resolver class of every target
    target,      \* every target
    plans,       \* Pool.plans: the entry of every key
    pinned,      \* targets whose pinned mounts are open
    reads,       \* the target whose plan a generation starts from
    launched,    \* generations whose sidecar was launched
    serve,       \* every ServeConnector call
    resolver     \* Resolver.Shutdown

targetVars == <<kind, target, plans, pinned, reads, launched, serve, resolver>>
allVars == <<poolVars, targetVars>>

\* pc follows prepared.Acquire and then Release; revoke follows Revoke.
NoTargetYet ==
  [pc |-> "none", key |-> NoKey, lease |-> NoLease, accepting |-> FALSE,
   live |-> FALSE, service |-> FALSE, revoke |-> "none", closing |-> {}]

NoServe ==
  [pc |-> "none", target |-> NoTarget, lease |-> NoLease,
   connector |-> NoConnector]

NoPlan == [plan |-> NoTarget, refs |-> 0]

NewResolver == [pc |-> "open", closing |-> FALSE, active |-> {}]

\* Builtin and remote targets are plain, local ones speak stdio or HTTP.
OfClass(k) == [t \in Targets |-> k]

TargetsInit ==
  /\ PoolInit
  /\ \E k \in Kinds : kind = OfClass(k)
  /\ target = [t \in Targets |-> NoTargetYet]
  /\ plans = [k \in Keys |-> NoPlan]
  /\ pinned = {}
  /\ reads = [g \in Generation |-> NoTarget]
  /\ launched = {}
  /\ serve = [s \in Connections |-> NoServe]
  /\ resolver = NewResolver

\* The mounts a plan has pinned are closed.
ClosePlan(t) == pinned' = pinned \ {t}

TargetAt(t, pc) == target[t].pc = pc
TargetGoes(t, pc) == target' = [target EXCEPT ![t].pc = pc]
ServeAt(s, pc) == serve[s].pc = pc

\* A call that returned keeps nothing but its target.
ServeGoes(s, pc) ==
  serve' = [serve EXCEPT ![s] =
               IF pc = "returned"
               THEN [NoServe EXCEPT !.target = serve[s].target, !.pc = pc]
               ELSE [serve[s] EXCEPT !.pc = pc]]

----------------------------------------
(***************************************************************************)
(* prepared.Acquire.                                                       *)
(***************************************************************************)

\* Pool.Prepare with Native.Plan, or StdioLauncher.Prepare: the mounts are
\* pinned and the image resolved.  A failure closes what it pinned and leaves
\* the target as it was.
Prepare(t, k) ==
  /\ TargetAt(t, "none")
  /\ kind[t] # "plain"
  /\ ~resolver.closing
  /\ target' = [target EXCEPT ![t].pc = "prepared", ![t].key = k]
  /\ pinned' = pinned \cup {t}
  /\ UNCHANGED <<poolVars, kind, plans, reads, launched, serve, resolver>>

Ready(t) ==
  [target[t] EXCEPT !.pc = "held", !.accepting = TRUE, !.live = TRUE,
                    !.service = kind[t] = "http"]

\* remotehttp and builtin only make the lifetime context.
AcquirePlain(t) ==
  /\ TargetAt(t, "none")
  /\ kind[t] = "plain"
  /\ ~resolver.closing
  /\ target' = [target EXCEPT ![t] = Ready(t)]
  /\ UNCHANGED <<poolVars, kind, plans, pinned, reads, launched, serve, resolver>>

\* localstdio: Resolver.register, or launch.Close once the resolver is closing.
RegisterStdio(t) ==
  /\ TargetAt(t, "prepared")
  /\ kind[t] = "stdio"
  /\ IF resolver.closing
     THEN TargetGoes(t, "failed") /\ ClosePlan(t)
     ELSE target' = [target EXCEPT ![t] = Ready(t)] /\ UNCHANGED pinned
  /\ UNCHANGED <<poolVars, kind, plans, reads, launched, serve, resolver>>

\* Pool.register: the first plan of a key becomes the entry's, a later one is
\* closed and counted; a closing pool closes it.
Register(t) ==
  LET k == target[t].key
  IN  /\ TargetAt(t, "prepared")
      /\ kind[t] = "http"
      /\ IF resolver.closing
         THEN TargetGoes(t, "failed") /\ UNCHANGED plans /\ ClosePlan(t)
         ELSE /\ TargetGoes(t, "acquire")
              /\ plans' = [plans EXCEPT ![k] =
                     IF @.refs = 0 THEN [plan |-> t, refs |-> 1]
                                   ELSE [plan |-> @.plan, refs |-> @.refs + 1]]
              /\ IF plans[k].refs = 0 THEN UNCHANGED pinned ELSE ClosePlan(t)
      /\ UNCHANGED <<poolVars, kind, reads, launched, serve, resolver>>

\* Lease and connector objects are made when they are needed.
OneOf(S) == IF S = {} THEN {} ELSE {CHOOSE x \in S : TRUE}
NewLease == OneOf({l \in Leases : holder[l].state = "none"})
NewConnector == OneOf({c \in Connectors : user[c].state = "none"})

\* registry.AcquireWithPolicy: the lease waits or is active at once.
AcquireBy(l, k) ==
  \/ Join(l, k) /\ ~Vacant(k)
  \/ \E g \in Generation : JoinAndBegin(l, k, g)
  \/ \E g \in Generation : owner[g] = k /\ JoinReady(l, g)

Acquire(t, l) ==
  /\ TargetAt(t, "acquire")
  /\ l \in NewLease
  /\ AcquireBy(l, target[t].key)
  /\ target' = [target EXCEPT ![t].pc = "waiting", ![t].lease = l]
  /\ UNCHANGED <<kind, plans, pinned, reads, launched, serve, resolver>>

\* The registry refuses at once: it shuts down, backs off or still waits for an
\* abandoned start.
AcquireRefused(t) ==
  /\ TargetAt(t, "acquire")
  /\ TargetGoes(t, "unregister")
  /\ UNCHANGED <<poolVars, kind, plans, pinned, reads, launched, serve, resolver>>

\* The acquire returned its lease and lease.Instance answers.
AcquireSucceeds(t) ==
  /\ TargetAt(t, "waiting")
  /\ holder[target[t].lease].state = "active"
  /\ target' = [target EXCEPT ![t] = Ready(t)]
  /\ UNCHANGED <<poolVars, kind, plans, pinned, reads, launched, serve, resolver>>

\* The acquire failed, or lease.Instance did: the plan is given back.
AcquireFails(t) ==
  /\ TargetAt(t, "waiting")
  /\ holder[target[t].lease].state = "closed"
  /\ TargetGoes(t, "unregister")
  /\ UNCHANGED <<poolVars, kind, plans, pinned, reads, launched, serve, resolver>>

\* The caller's context ends: the registry closes the lease, then the plan goes.
AcquireCancelled(t) ==
  /\ TargetAt(t, "waiting")
  /\ Leave(target[t].lease)
  /\ TargetGoes(t, "unregister")
  /\ UNCHANGED <<kind, plans, pinned, reads, launched, serve, resolver>>

\* Pool.unregister.
Unregister(t) ==
  LET k == target[t].key
  IN  IF plans[k].refs > 1
      THEN plans' = [plans EXCEPT ![k].refs = @ - 1] /\ UNCHANGED pinned
      ELSE /\ plans' = [plans EXCEPT ![k] = NoPlan]
           /\ ClosePlan(plans[k].plan)

AcquireUnwinds(t) ==
  /\ TargetAt(t, "unregister")
  /\ Unregister(t)
  /\ TargetGoes(t, "failed")
  /\ UNCHANGED <<poolVars, kind, reads, launched, serve, resolver>>

----------------------------------------
(***************************************************************************)
(* Pool.Start and Native.Start, run by the registry.                       *)
(***************************************************************************)

\* Pool.Start takes the key's plan.
StartReads(g) ==
  /\ phase[g] = "starting"
  /\ reads[g] = NoTarget
  /\ plans[owner[g]].refs > 0
  /\ reads' = [reads EXCEPT ![g] = plans[owner[g]].plan]
  /\ UNCHANGED <<poolVars, kind, target, plans, pinned, launched, serve, resolver>>

\* Native.Start: PreparePinned needs the plan's mounts.
StartLaunches(g) ==
  /\ phase[g] = "starting"
  /\ reads[g] \in pinned
  /\ launched' = launched \cup {g}
  /\ UNCHANGED <<poolVars, kind, target, plans, pinned, reads, serve, resolver>>

\* waitReady: the socket is there and probeMCP is answered.
WaitReady(g) ==
  /\ g \in launched
  /\ g \in alive
  /\ Publish(g)
  /\ UNCHANGED targetVars

\* No plan, closed mounts, another image, an early exit, a permanent error of
\* the probe or the end of the start context.
StartIsLost(g) == StartFails(g) /\ UNCHANGED targetVars

ProcessEnds(g) == Exit(g) /\ UNCHANGED targetVars

ExitIsNoticed(g) == Notice(g) /\ UNCHANGED targetVars

IdleExpires(g) == Retire(g) /\ UNCHANGED targetVars

NextGeneration(g) == \E k \in Keys : Begin(g, k) /\ UNCHANGED targetVars

Refused(k) == Refuse(k) /\ UNCHANGED targetVars

----------------------------------------
(***************************************************************************)
(* ServeConnector.                                                         *)
(***************************************************************************)

\* acquired.accepting; remotehttp and builtin have no such flag.
Admits(t) == kind[t] = "plain" \/ target[t].accepting

FirstStep(t) == IF kind[t] = "http" THEN "look" ELSE "serving"

\* A stream arrives at a target that was handed out, before or after its
\* revocation.
ServeConnector(s, t) ==
  /\ ServeAt(s, "none")
  /\ target[t].pc \in {"held", "wait", "release", "drop", "done"}
  /\ serve' = [serve EXCEPT ![s] =
                  [NoServe EXCEPT !.target = t,
                       !.pc = IF Admits(t) THEN FirstStep(t) ELSE "returned"]]
  /\ UNCHANGED <<poolVars, kind, target, plans, pinned, reads, launched, resolver>>

\* The session context: the stream's own or the lifetime of the target.
Lifetime(s) == target[serve[s].target].live

HeldLease(s) == target[serve[s].target].lease

\* activeLease, the first critical section.
LookForLease(s) ==
  /\ ServeAt(s, "look")
  /\ IF ~target[serve[s].target].service THEN ServeGoes(s, "returned")
     ELSE IF holder[HeldLease(s)].state # "active" THEN ServeGoes(s, "reacquire")
     ELSE serve' = [serve EXCEPT ![s].lease = HeldLease(s), ![s].pc = "open"]
  /\ UNCHANGED <<poolVars, kind, target, plans, pinned, reads, launched, resolver>>

Reacquire(s, l) ==
  /\ ServeAt(s, "reacquire")
  /\ l \in NewLease
  /\ AcquireBy(l, target[serve[s].target].key)
  /\ serve' = [serve EXCEPT ![s].pc = "waiting", ![s].lease = l]
  /\ UNCHANGED <<kind, target, plans, pinned, reads, launched, resolver>>

\* AcquireWithPolicy fails: a RetryError is waited out, any other ends the call.
ReacquireRefused(s, retry) ==
  /\ \/ ServeAt(s, "reacquire")
     \/ ServeAt(s, "waiting") /\ holder[serve[s].lease].state = "closed"
  /\ serve' = [serve EXCEPT ![s] =
         [NoServe EXCEPT !.target = serve[s].target,
                         !.pc = IF retry THEN "look" ELSE "returned"]]
  /\ UNCHANGED <<poolVars, kind, target, plans, pinned, reads, launched, resolver>>

\* The session context ends an acquire, or the wait for a retry.
ReacquireCancelled(s) ==
  /\ \/ ServeAt(s, "reacquire") /\ UNCHANGED poolVars
     \/ ServeAt(s, "waiting") /\ Leave(serve[s].lease)
  /\ ServeGoes(s, "returned")
  /\ UNCHANGED <<kind, target, plans, pinned, reads, launched, resolver>>

\* activeLease, the second critical section: the replacement becomes the
\* service's lease unless it was revoked or another connection was faster.
\* The lease it replaces is closed already.
Swap(s) ==
  LET t == serve[s].target
  IN  /\ ServeAt(s, "waiting")
      /\ holder[serve[s].lease].state = "active"
      /\ IF ~target[t].service
         THEN ServeGoes(s, "giveback") /\ UNCHANGED target
         ELSE IF holder[target[t].lease].state = "active"
         THEN ServeGoes(s, "yield") /\ UNCHANGED target
         ELSE /\ ServeGoes(s, "open")
              /\ target' = [target EXCEPT ![t].lease = serve[s].lease]
      /\ UNCHANGED <<poolVars, kind, plans, pinned, reads, launched, resolver>>

\* Mutant: a replacement that came too late is forgotten.
GiveBackNothing(s) ==
  /\ serve[s].pc \in {"giveback", "yield"}
  /\ IF ServeAt(s, "giveback") THEN ServeGoes(s, "returned")
     ELSE serve' = [serve EXCEPT ![s].lease = HeldLease(s), ![s].pc = "open"]
  /\ UNCHANGED <<poolVars, kind, target, plans, pinned, reads, launched, resolver>>

\* replacement.Release, outside the mutex.
GiveBack(s) ==
  /\ serve[s].pc \in {"giveback", "yield"}
  /\ IF holder[serve[s].lease].state = "active"
     THEN Leave(serve[s].lease) ELSE UNCHANGED poolVars
  /\ IF ServeAt(s, "giveback") THEN ServeGoes(s, "returned")
     ELSE serve' = [serve EXCEPT ![s].lease = HeldLease(s), ![s].pc = "open"]
  /\ UNCHANGED <<kind, target, plans, pinned, reads, launched, resolver>>

\* OpenConnector: the lease that was looked up may be closed or replaced by
\* now; an instance that exited has no upstream.
OpenRetries(s) ==
  /\ ServeAt(s, "open")
  /\ ~target[serve[s].target].service
     \/ HeldLease(s) # serve[s].lease
     \/ holder[serve[s].lease].state # "active"
  /\ serve' = [serve EXCEPT ![s].lease = NoLease,
         ![s].pc = IF target[serve[s].target].service THEN "look" ELSE "returned"]
  /\ UNCHANGED <<poolVars, kind, target, plans, pinned, reads, launched, resolver>>

OpenSucceeds(s, c) ==
  /\ ServeAt(s, "open")
  /\ target[serve[s].target].service
  /\ HeldLease(s) = serve[s].lease
  /\ c \in NewConnector
  /\ Attach(c, serve[s].lease)
  /\ serve' = [serve EXCEPT ![s].connector = c,
         ![s].pc = IF user'[c].gen \in alive THEN "serving" ELSE "close"]
  /\ UNCHANGED <<kind, target, plans, pinned, reads, launched, resolver>>

\* The bridge or the sidecar returns: the stream ends, the session context
\* ends, or the watcher sees the generation gone.
ServingEnds(s) ==
  /\ ServeAt(s, "serving")
  /\ ServeGoes(s, IF kind[serve[s].target] = "http" THEN "close" ELSE "returned")
  /\ UNCHANGED <<poolVars, kind, target, plans, pinned, reads, launched, resolver>>

\* The deferred generation.Close.
CloseConnection(s) ==
  /\ ServeAt(s, "close")
  /\ ServeGoes(s, "returned")
  /\ IF user[serve[s].connector].state = "open"
     THEN Detach(serve[s].connector) ELSE UNCHANGED poolVars
  /\ UNCHANGED <<kind, target, plans, pinned, reads, launched, resolver>>

----------------------------------------
(***************************************************************************)
(* Revoke and Release.                                                     *)
(***************************************************************************)

\* acquired.Revoke: no further stream is accepted.
Revoke(t) ==
  /\ TargetAt(t, "held")
  /\ target[t].revoke = "none"
  /\ target' = [target EXCEPT ![t].accepting = FALSE, ![t].revoke = "cancel"]
  /\ UNCHANGED <<poolVars, kind, plans, pinned, reads, launched, serve, resolver>>

\* Mutant: the lifetime context is not cancelled.
RevokeKeepsLifetime(t) ==
  /\ target[t].revoke = "cancel"
  /\ target' = [target EXCEPT ![t].revoke =
                   IF kind[t] = "http" THEN "service" ELSE "revoked"]
  /\ UNCHANGED <<poolVars, kind, plans, pinned, reads, launched, serve, resolver>>

RevokeCancels(t) ==
  /\ target[t].revoke = "cancel"
  /\ target' = [target EXCEPT ![t].live = FALSE,
         ![t].revoke = IF kind[t] = "http" THEN "service" ELSE "revoked"]
  /\ UNCHANGED <<poolVars, kind, plans, pinned, reads, launched, serve, resolver>>

ConnectorsOf(t) ==
  {serve[s].connector : s \in {s \in Connections :
      serve[s].target = t /\ serve[s].pc \in {"serving", "close"}}} \ {NoConnector}

\* serviceLease.Revoke: the connectors it knows, to be closed one by one.
RevokeService(t) ==
  /\ target[t].revoke = "service"
  /\ target' = [target EXCEPT ![t].service = FALSE, ![t].revoke = "closing",
                              ![t].closing = ConnectorsOf(t)]
  /\ UNCHANGED <<poolVars, kind, plans, pinned, reads, launched, serve, resolver>>

RevokeConnector(t, c) ==
  /\ c \in target[t].closing
  /\ target' = [target EXCEPT ![t].closing = @ \ {c}]
  /\ IF user[c].state = "open" THEN Detach(c) ELSE UNCHANGED poolVars
  /\ UNCHANGED <<kind, plans, pinned, reads, launched, serve, resolver>>

RevokeReturns(t) ==
  /\ target[t].revoke = "closing"
  /\ target[t].closing = {}
  /\ target' = [target EXCEPT ![t].revoke = "revoked"]
  /\ UNCHANGED <<poolVars, kind, plans, pinned, reads, launched, serve, resolver>>

\* Release starts its goroutine once the revocation is done.
Release(t) ==
  /\ TargetAt(t, "held")
  /\ target[t].revoke = "revoked"
  /\ TargetGoes(t, IF kind[t] = "plain" THEN "done" ELSE "wait")
  /\ UNCHANGED <<poolVars, kind, plans, pinned, reads, launched, serve, resolver>>

Serving(t) ==
  {s \in Connections : serve[s].target = t /\ serve[s].pc # "returned"}

\* wait.Wait returns.
Wait(t) ==
  /\ TargetAt(t, "wait")
  /\ Serving(t) = {}
  /\ TargetGoes(t, "release")
  /\ UNCHANGED <<poolVars, kind, plans, pinned, reads, launched, serve, resolver>>

\* launch.Close and Resolver.unregister, or lease.Release of serviceLease.
ReleaseBackend(t) ==
  /\ TargetAt(t, "release")
  /\ IF kind[t] = "stdio"
     THEN TargetGoes(t, "done") /\ ClosePlan(t) /\ UNCHANGED poolVars
     ELSE /\ TargetGoes(t, "drop")
          /\ UNCHANGED pinned
          /\ IF holder[target[t].lease].state = "active"
             THEN Leave(target[t].lease) ELSE UNCHANGED poolVars
  /\ UNCHANGED <<kind, plans, reads, launched, serve, resolver>>

\* serviceLease.Release: Pool.unregister.
ReleasePlan(t) ==
  /\ TargetAt(t, "drop")
  /\ Unregister(t)
  /\ TargetGoes(t, "done")
  /\ UNCHANGED <<poolVars, kind, reads, launched, serve, resolver>>

----------------------------------------
(***************************************************************************)
(* Resolver.Shutdown.                                                      *)
(***************************************************************************)

\* The registered targets of a stdio resolver.
Registered == {t \in Targets : kind[t] = "stdio"
                    /\ target[t].pc \in {"held", "wait", "release"}}

ShutdownBegins ==
  /\ resolver.pc = "open"
  /\ resolver' = [pc |-> "revoke", closing |-> TRUE, active |-> Registered]
  /\ UNCHANGED <<poolVars, kind, target, plans, pinned, reads, launched, serve>>

\* localstdio revokes every target before it releases them; the others hold
\* no targets.
ShutdownRevokes ==
  /\ resolver.pc = "revoke"
  /\ \A t \in resolver.active : target[t].revoke # "none"
  /\ resolver' = [resolver EXCEPT !.pc = "release"]
  /\ UNCHANGED <<poolVars, kind, target, plans, pinned, reads, launched, serve>>

\* registry.Shutdown, for the HTTP pool.
ShutdownPool ==
  /\ resolver.pc = "release"
  /\ \A t \in Targets : kind[t] = "http"
  /\ Close
  /\ UNCHANGED targetVars

\* Shutdown returns: every target is released and every process reaped.
ShutdownReturns ==
  /\ resolver.pc = "release"
  /\ \A t \in resolver.active : TargetAt(t, "done")
  /\ (\A t \in Targets : kind[t] = "http") => closed /\ alive = {}
  /\ resolver' = [resolver EXCEPT !.pc = "done"]
  /\ UNCHANGED <<poolVars, kind, target, plans, pinned, reads, launched, serve>>

----------------------------------------
AcquireStep(t) ==
  \/ RegisterStdio(t)
  \/ Register(t)
  \/ AcquireRefused(t)
  \/ \E l \in Leases : Acquire(t, l)
  \/ AcquireSucceeds(t)
  \/ AcquireFails(t)
  \/ AcquireUnwinds(t)

RevokeStep(t) ==
  \/ RevokeCancels(t)
  \/ RevokeService(t)
  \/ \E c \in Connectors : RevokeConnector(t, c)
  \/ RevokeReturns(t)

ReleaseStep(t) == Wait(t) \/ ReleaseBackend(t) \/ ReleasePlan(t)

ConnectionStep(s) ==
  \/ LookForLease(s)
  \/ \E l \in Leases : Reacquire(s, l)
  \/ Swap(s)
  \/ GiveBack(s)
  \/ OpenRetries(s)
  \/ \E c \in Connectors : OpenSucceeds(s, c)
  \/ CloseConnection(s)

StartStep(g) == StartReads(g) \/ StartLaunches(g) \/ WaitReady(g)

TargetsNext ==
  \/ \E t \in Targets :
      \/ \E k \in Keys : Prepare(t, k)
      \/ AcquirePlain(t)
      \/ AcquireStep(t)
      \/ AcquireCancelled(t)
      \/ Revoke(t)
      \/ RevokeStep(t)
      \/ Release(t)
      \/ ReleaseStep(t)
  \/ \E s \in Connections :
      \/ \E t \in Streamed : ServeConnector(s, t)
      \/ ConnectionStep(s)
      \/ \E retry \in BOOLEAN : ReacquireRefused(s, retry)
      \/ ReacquireCancelled(s)
      \/ ServingEnds(s)
  \/ \E g \in Generation :
      \/ StartStep(g)
      \/ StartIsLost(g)
      \/ ProcessEnds(g)
      \/ ExitIsNoticed(g)
      \/ IdleExpires(g)
      \/ NextGeneration(g)
  \/ \E k \in Keys : Refused(k)
  \/ ShutdownBegins
  \/ ShutdownRevokes
  \/ ShutdownPool
  \/ ShutdownReturns

\* Goroutines run; the registry answers a waiting acquire (OpeningResolves); a
\* bridge or a sidecar ends once its session context ends or its generation is
\* gone (BridgeReturns, CancelledStreamsEnd); a caller releases what it revoked.
SessionOver(s) ==
  \/ ~Lifetime(s)
  \/ serve[s].connector # NoConnector /\ user[serve[s].connector].state = "closed"

TargetsFairness ==
  /\ \A t \in Targets :
      /\ WF_allVars(RevokeStep(t))
      /\ WF_allVars(Release(t))
      /\ WF_allVars(ReleaseStep(t))
      /\ WF_allVars(resolver.pc = "revoke" /\ t \in resolver.active /\ Revoke(t))
  /\ \A s \in Connections :
      /\ WF_allVars(\/ ConnectionStep(s)
                    \/ ReacquireRefused(s, TRUE) /\ ServeAt(s, "waiting")
                    \/ ReacquireCancelled(s) /\ ~Lifetime(s))
      /\ WF_allVars(ServeAt(s, "serving") /\ SessionOver(s) /\ ServingEnds(s))
  /\ \A g \in Generation : WF_allVars(ExitIsNoticed(g))
  /\ WF_allVars(ShutdownRevokes)
  /\ WF_allVars(ShutdownReturns)

TargetsSpec == TargetsInit /\ [][TargetsNext]_allVars /\ TargetsFairness

----------------------------------------
(***************************************************************************)
(* Properties.                                                             *)
(***************************************************************************)

\* Targets that are counted by the pool's entry of k.
Counted(k) ==
  {t \in Targets : /\ kind[t] = "http" /\ target[t].key = k
                   /\ target[t].pc \in {"acquire", "waiting", "unregister",
                                        "held", "wait", "release", "drop"}}

\* A sidecar is never started for callers whose plan is gone: as long as a lease
\* waits for a generation, Pool.Start finds the plan of its key, with its mounts
\* open, and a start that has read a plan still has its mounts, whichever of the
\* targets that share the key gave up, was released or came first.
StartsHaveTheirPlan ==
  \A g \in Generation :
      phase[g] = "starting" /\ LeasesOf(owner[g], "opening") # {} =>
          /\ plans[owner[g]].refs > 0
          /\ plans[owner[g]].plan \in pinned
          /\ reads[g] # NoTarget => reads[g] \in pinned

\* A target that was released, or whose acquire failed, leaves nothing behind:
\* no lease, no connector, no stream, no share in its plan, however a
\* replacement lease raced the revocation.
NothingIsLeft ==
  /\ \A k \in Keys : plans[k].refs = Cardinality(Counted(k))
  /\ (\A t \in Targets : target[t].pc \in {"none", "failed", "done"}) =>
      /\ pinned = {}
      /\ \A l \in Leases : holder[l].state \notin {"opening", "active"}
      /\ \A c \in Connectors : user[c].state # "open"
      /\ \A s \in Connections :
          serve[s].pc \in {"none", "returned"} \/ kind[serve[s].target] = "plain"

\* Once the stdio resolver's Shutdown returns, no target it prepared is left
\* with a launch or a stream, an acquire that was under way included.
ShutdownLeavesNoLaunch ==
  resolver.pc = "done" =>
      \A t \in Targets : kind[t] = "stdio" =>
          target[t].pc \in {"none", "prepared", "failed", "done"}

\* A target owns exactly its plan, its lease and its streams, from the first
\* acquire through every replacement to the release or the shutdown.
TargetsOwnTheirLaunch == StartsHaveTheirPlan /\ NothingIsLeft /\ ShutdownLeavesNoLaunch

\* A target that is revoked is released: its streams end, its replacement
\* acquires are given up and its Release returns.
ReleasesComplete ==
  \A t \in Targets : target[t].revoke # "none" ~> target[t].pc = "done"
=============================================================================
