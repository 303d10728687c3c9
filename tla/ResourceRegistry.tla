-------------------------- MODULE ResourceRegistry --------------------------
(***************************************************************************)
(* The resource registry of the per-user agent (internal/agent/resource):  *)
(* one entry per canonical key, at most one process generation serving it, *)
(* the leases and connectors that keep the generation alive, and the       *)
(* goroutines ("workers") that start, watch and stop a generation outside  *)
(* the registry mutex.  Every action below is one critical section of      *)
(* r.mu, or one step a worker takes without the mutex.                     *)
(*                                                                         *)
(* Time is abstracted to the phase of each deadline: "none" (zero value),  *)
(* "future" (timer armed), "due" (deadline reached, the callback starts or *)
(* waits for the mutex), "spent" (timer cleared, deadline kept).  Stopping *)
(* a due timer can be too late for its callback, which then stays in       *)
(* flight in staleCallbacks until it runs and finds its deadline replaced. *)
(***************************************************************************)
EXTENDS Naturals, FiniteSets

CONSTANTS
    Keys,          \* canonical resource keys
    Leases,        \* lease objects, each returned by at most one acquire
    Connectors,    \* connector objects, each opened at most once
    Policies,      \* idle timeouts an acquire may ask for
    MaxGeneration, \* math.MaxUint64: the size of the generation space
    MaxFailures,   \* ^uint32(0): where the failure counter saturates
    LateTimers,    \* kinds of timer whose callback may outlive a Stop
    NoKey,
    NoPolicy

ASSUME RegistryAssumption ==
  /\ MaxGeneration \in Nat \ {0}
  /\ MaxFailures \in Nat \ {0}
  /\ LateTimers \subseteq {"start", "idle", "stable", "failure"}
  /\ NoKey \notin Keys
  /\ NoPolicy \notin Policies

VARIABLES
    entries,         \* r.entries, state "absent" when the key has no entry
    nextGeneration,  \* r.nextGeneration
    closing,         \* r.closing
    shutdownDone,    \* r.shutdownDone is closed
    shutdownErrors,  \* r.shutdownErrors is not empty
    lease,           \* every Lease object
    connector,       \* every Connector object
    generationKey,   \* the key a generation was started for
    process,         \* the process of a generation, as its Done() shows it
    startCancelled,  \* the generation's start context is cancelled
    starter,         \* phase of the goroutine startGeneration
    watcher,         \* phase of the goroutine watchGeneration
    stopper,         \* phase of the goroutine stopGeneration
    staleCallbacks   \* timer callbacks that outlived their timer

vars == <<entries, nextGeneration, closing, shutdownDone, shutdownErrors,
          lease, connector, generationKey, process, startCancelled, starter,
          watcher, stopper, staleCallbacks>>

entryVars == <<entries, staleCallbacks>>
userVars == <<lease, connector>>
generationVars == <<nextGeneration, generationKey, process, startCancelled>>
flagVars == <<closing, shutdownDone, shutdownErrors>>
workerVars == <<starter, watcher, stopper>>

Generations == 1 .. MaxGeneration

States == {"absent", "cold", "starting", "ready", "idle", "stopping", "failed"}
LeaseStates == {"none", "opening", "active", "closed"}
Phases == {"none", "future", "due", "spent"}
TimerKinds == {"start", "idle", "stable", "failure"}

Entry ==
  [state : States, gen : 0 .. MaxGeneration, policy : Policies \cup {NoPolicy},
   instance : BOOLEAN, reaped : BOOLEAN, startPending : BOOLEAN,
   leases : SUBSET Leases, connectors : SUBSET Connectors,
   failures : 0 .. MaxFailures, readyAt : {"zero", "recent", "stable"},
   retry : {"none", "future", "past"},
   timer : [TimerKinds -> Phases]]

NoTimer == [t \in TimerKinds |-> "none"]

NoEntry ==
  [state |-> "absent", gen |-> 0, policy |-> NoPolicy, instance |-> FALSE,
   reaped |-> FALSE, startPending |-> FALSE, leases |-> {}, connectors |-> {},
   failures |-> 0, readyAt |-> "zero", retry |-> "none", timer |-> NoTimer]

\* The caller of AcquireWithPolicy is part of the lease record: "waiting" in
\* its select, "held" once it returned the lease, "failed" once it returned an
\* error, "released" after Release.
LeaseRecord ==
  [state : LeaseStates, key : Keys \cup {NoKey}, gen : 0 .. MaxGeneration,
   ready : {"empty", "ok", "error"},
   caller : {"none", "waiting", "held", "failed", "released"}]

ConnectorRecord ==
  [state : {"none", "open", "closed"}, key : Keys \cup {NoKey},
   gen : 0 .. MaxGeneration]

StarterPhases == {"none", "starting", "publish", "failed", "stop", "reaped",
                  "unreaped", "reap", "detached", "done"}

----------------------------------------
(***************************************************************************)
(* Operators on one entry: the *Locked helpers.                            *)
(***************************************************************************)

Unused(e) == e.leases = {} /\ e.connectors = {}

\* The callbacks a transition from e to f leaves running without a timer.
Orphans(k, e, f) ==
  {[kind |-> t, key |-> k, gen |-> e.gen] :
      t \in {t \in LateTimers : e.timer[t] = "due" /\ f.timer[t] # "due"}}

\* cancelStartLocked, cancelIdleLocked, cancelStableResetLocked and
\* cancelFailureRetentionLocked clear a timer together with its deadline.
Cancel(e, kinds) ==
  [e EXCEPT !.timer = [t \in TimerKinds |->
                          IF t \in kinds THEN "none" ELSE e.timer[t]]]

Arm(e, kind) == [e EXCEPT !.timer[kind] = "future"]

\* Mutant: the counter wraps past its maximum.
CountFailureUnbounded(e) == IF e.readyAt = "stable" THEN 1 ELSE e.failures + 1

\* failLocked: a stable generation forgets its history; the counter saturates.
CountFailure(e) ==
  LET kept == IF e.readyAt = "stable" THEN 0 ELSE e.failures
  IN  IF kept < MaxFailures THEN kept + 1 ELSE kept

\* failLocked, with scheduleFailureRetentionLocked.
Fail(e) ==
  Arm([e EXCEPT !.state = "failed", !.failures = CountFailure(e),
                !.retry = "future", !.timer["idle"] = "none"],
      "failure")

\* Mutant: open connectors do not keep the resource ready.
MaybeIdleIgnoringConnectors(e) ==
  IF e.state = "ready" /\ e.leases = {}
  THEN Arm([e EXCEPT !.state = "idle"], "idle") ELSE e

\* maybeIdleLocked.
MaybeIdle(e) ==
  IF e.state = "ready" /\ Unused(e)
  THEN Arm([e EXCEPT !.state = "idle"], "idle")
  ELSE e

\* cancelUnusedStartLocked.
StartIsUnused(e) == e.state = "starting" /\ Unused(e)

\* Mutant: a start nobody waits for goes on.
KeepUnusedStart(e) == e

CancelUnusedStart(e) ==
  IF ~StartIsUnused(e) THEN e
  ELSE LET f == [Cancel(e, {"start"}) EXCEPT
                    !.state = "failed", !.instance = FALSE,
                    !.reaped = FALSE, !.readyAt = "zero"]
       IN  IF e.failures = 0 THEN f
           ELSE Arm([f EXCEPT !.retry = "past"], "failure")

\* timeoutStartLocked, without the leases it invalidates.
TimeoutStart(e) == Fail(Cancel(e, {"start"}))

\* beginStopLocked, without the worker it starts.
BeginStop(e) ==
  [Cancel(e, {"idle", "stable"}) EXCEPT !.state = "stopping", !.reaped = FALSE]

\* deleteFailedEntryLocked: the failure deadline must be zero or reached.
FailedEntryIsDeletable(e) ==
  /\ e.state = "failed"
  /\ ~e.instance
  /\ ~e.startPending
  /\ Unused(e)
  /\ e.timer["failure"] # "future"

DeleteFailedEntry(e) == IF FailedEntryIsDeletable(e) THEN NoEntry ELSE e

\* deleteColdEntryLocked.
DeleteColdEntry(e) ==
  IF /\ e.state = "cold" /\ ~e.instance /\ ~e.reaped /\ ~e.startPending
     /\ Unused(e) /\ e.timer = NoTimer /\ e.retry = "none"
  THEN NoEntry ELSE e

\* The fields startLocked assigns when generation g begins.
StartEntry(e, g) ==
  Arm([Cancel(e, {"idle", "failure"}) EXCEPT
          !.state = "starting", !.gen = g, !.instance = FALSE,
          !.reaped = FALSE, !.startPending = TRUE, !.readyAt = "zero",
          !.retry = "none"],
      "start")

\* What generationExited does to the entry of the generation that was reaped.
ExitedEntry(e) ==
  CASE e.state = "stopping" -> [e EXCEPT !.reaped = TRUE]
    [] e.state = "failed"   -> DeleteFailedEntry([e EXCEPT !.instance = FALSE])
    [] e.state \in {"ready", "idle"} ->
          Fail([Cancel(e, {"idle", "stable"}) EXCEPT
                   !.instance = FALSE, !.leases = {}, !.connectors = {}])
    [] OTHER -> e

\* beginShutdownLocked, one entry.
ShutdownEntry(e) ==
  LET f == [Cancel(e, TimerKinds) EXCEPT !.leases = {}, !.connectors = {}]
  IN  CASE e.state \in {"ready", "idle", "failed"} /\ e.instance -> BeginStop(f)
        [] e.state \in {"ready", "idle", "failed"} /\ ~e.instance ->
              [f EXCEPT !.state = "cold"]
        [] OTHER -> f

----------------------------------------
(***************************************************************************)
(* Frames shared by the actions.                                           *)
(***************************************************************************)

\* entries[k] becomes f; callbacks of timers it clears become stale.
SetEntry(k, f) ==
  /\ entries' = [entries EXCEPT ![k] = f]
  /\ staleCallbacks' = staleCallbacks \cup Orphans(k, entries[k], f)

\* invalidateLeasesLocked and closeLeaseLocked with notifyOpening.
Invalidated(S) ==
  [l \in Leases |->
      IF l \in S
      THEN [lease[l] EXCEPT !.state = "closed",
               !.ready = IF lease[l].state = "opening" THEN "error" ELSE @]
      ELSE lease[l]]

\* invalidateConnectorsLocked.
Disconnected(S) ==
  [c \in Connectors |->
      IF c \in S THEN [connector[c] EXCEPT !.state = "closed"] ELSE connector[c]]

\* Every lease and connector that f no longer lists is closed.
DropUsers(k, f) ==
  /\ lease' = Invalidated(entries[k].leases \ f.leases)
  /\ connector' = Disconnected(entries[k].connectors \ f.connectors)

CancelStartContext(g) == startCancelled' = [startCancelled EXCEPT ![g] = TRUE]

IsCurrent(g) ==
  LET e == entries[generationKey[g]] IN e.state # "absent" /\ e.gen = g

\* startLocked: the next generation of k starts with entry e.
StartGeneration(k, e) ==
  LET g == nextGeneration + 1
  IN  /\ nextGeneration < MaxGeneration
      /\ nextGeneration' = g
      /\ generationKey' = [generationKey EXCEPT ![g] = k]
      /\ process' = [process EXCEPT ![g] = "starting"]
      /\ starter' = [starter EXCEPT ![g] = "starting"]
      /\ SetEntry(k, StartEntry(e, g))

\* startLocked attaches the opening leases of S to generation g.
AttachOpening(S, g) ==
  [l \in Leases |->
      IF l \in S /\ lease[l].state = "opening"
      THEN [lease[l] EXCEPT !.gen = g] ELSE lease[l]]

\* Mutant: the wait group does not count startGeneration.
WorkersIdleButStarters ==
  \A g \in Generations : watcher[g] # "watching" /\ stopper[g] # "stop"

\* r.workers.Wait returns.
WorkersIdle ==
  \A g \in Generations :
      /\ starter[g] \in {"none", "done"}
      /\ watcher[g] \in {"none", "done"}
      /\ stopper[g] \in {"none", "done"}

----------------------------------------
Init ==
  /\ entries = [k \in Keys |-> NoEntry]
  /\ nextGeneration = 0
  /\ closing = FALSE
  /\ shutdownDone = FALSE
  /\ shutdownErrors = FALSE
  /\ lease = [l \in Leases |-> [state |-> "none", key |-> NoKey, gen |-> 0,
                                ready |-> "empty", caller |-> "none"]]
  /\ connector = [c \in Connectors |->
                      [state |-> "none", key |-> NoKey, gen |-> 0]]
  /\ generationKey = [g \in Generations |-> NoKey]
  /\ process = [g \in Generations |-> "none"]
  /\ startCancelled = [g \in Generations |-> FALSE]
  /\ starter = [g \in Generations |-> "none"]
  /\ watcher = [g \in Generations |-> "none"]
  /\ stopper = [g \in Generations |-> "none"]
  /\ staleCallbacks = {}

----------------------------------------
(***************************************************************************)
(* AcquireWithPolicy.  A rejected acquire (shutting down, policy mismatch, *)
(* start still pending, retry deadline not reached, generation space       *)
(* exhausted) changes nothing, so it is an acquire that is not enabled.    *)
(***************************************************************************)

MayReserve(l, k, p) ==
  /\ lease[l].state = "none"
  /\ ~closing
  /\ entries[k].state # "absent" => entries[k].policy = p

\* Mutant: an abandoned start is not waited for.
MayStartWhilePending(e) ==
  \/ e.state \in {"absent", "cold"}
  \/ e.state = "failed" /\ ~e.instance /\ e.retry # "future"

\* reserveLocked: no generation of the key may be starting, running or waiting
\* for its backoff.
MayStart(e) ==
  /\ ~e.startPending
  /\ \/ e.state \in {"absent", "cold"}
     \/ e.state = "failed" /\ ~e.instance /\ e.retry # "future"

Opening(k, g) ==
  [state |-> "opening", key |-> k, gen |-> g, ready |-> "empty",
   caller |-> "waiting"]

Activated(l, g) == [lease[l] EXCEPT !.state = "active", !.gen = g, !.ready = "ok"]

\* reserveLocked in StateCold or StateFailed starts a generation.
AcquireStarting(l, k, p) ==
  /\ MayReserve(l, k, p)
  /\ MayStart(entries[k])
  /\ StartGeneration(k, [entries[k] EXCEPT !.policy = p,
                                           !.leases = @ \cup {l}])
  /\ lease' = [lease EXCEPT ![l] = Opening(k, nextGeneration')]
  /\ UNCHANGED <<connector, startCancelled, watcher, stopper, flagVars>>

\* reserveLocked in StateReady or StateIdle: the lease is active at once.
AcquireReady(l, k, p) ==
  /\ MayReserve(l, k, p)
  /\ entries[k].state \in {"ready", "idle"}
  /\ ~entries[k].startPending
  /\ SetEntry(k, [Cancel(entries[k], {"idle"}) EXCEPT
                      !.state = "ready", !.leases = @ \cup {l}])
  /\ lease' = [lease EXCEPT ![l] = [Opening(k, entries[k].gen) EXCEPT
                                        !.state = "active", !.ready = "ok"]]
  /\ UNCHANGED <<connector, generationVars, flagVars, workerVars>>

\* reserveLocked in StateStarting joins the generation; in StateStopping the
\* lease waits for the next one.
AcquireJoining(l, k, p) ==
  /\ MayReserve(l, k, p)
  /\ \/ entries[k].state = "starting"
     \/ entries[k].state = "stopping" /\ ~entries[k].startPending
  /\ SetEntry(k, [entries[k] EXCEPT !.leases = @ \cup {l}])
  /\ lease' = [lease EXCEPT ![l] =
                  Opening(k, IF entries[k].state = "starting"
                             THEN entries[k].gen ELSE 0)]
  /\ UNCHANGED <<connector, generationVars, flagVars, workerVars>>

\* The caller's select takes the result from lease.ready.
AcquireReturns(l) ==
  /\ lease[l].caller = "waiting"
  /\ lease[l].ready # "empty"
  /\ lease' = [lease EXCEPT ![l].ready = "empty",
                   ![l].caller = IF lease[l].ready = "ok" THEN "held" ELSE "failed"]
  /\ UNCHANGED <<connector, entryVars, generationVars, flagVars, workerVars>>

\* Lease.Release, called by whoever ends in the caller phase c.
Release(l, c) ==
  LET k == lease[l].key
      e == entries[k]
      f == MaybeIdle(CancelUnusedStart([e EXCEPT !.leases = @ \ {l}]))
  IN  /\ IF lease[l].state = "closed"
         THEN /\ lease' = [lease EXCEPT ![l].caller = c]
              /\ UNCHANGED <<startCancelled, entryVars>>
         ELSE /\ lease' = [lease EXCEPT ![l].caller = c, ![l].state = "closed"]
              /\ SetEntry(k, f)
              /\ IF e.state = "starting" /\ f.state # "starting"
                 THEN CancelStartContext(e.gen)
                 ELSE UNCHANGED startCancelled
      /\ UNCHANGED <<nextGeneration, connector, generationKey, process,
                     flagVars, workerVars>>

\* The caller's select takes ctx.Done instead, even when a result is ready.
AcquireCancelled(l) == lease[l].caller = "waiting" /\ Release(l, "failed")

ReleaseHeld(l) == lease[l].caller = "held" /\ Release(l, "released")

----------------------------------------
(***************************************************************************)
(* Connectors.                                                             *)
(***************************************************************************)

\* Lease.OpenConnector.
OpenConnector(c, l) ==
  LET k == lease[l].key
  IN  /\ connector[c].state = "none"
      /\ ~closing
      /\ lease[l].state = "active"
      /\ lease[l].caller = "held"
      /\ entries[k].state = "ready"
      /\ entries[k].gen = lease[l].gen
      /\ entries[k].instance
      /\ connector' = [connector EXCEPT ![c] =
                          [state |-> "open", key |-> k, gen |-> lease[l].gen]]
      /\ SetEntry(k, [entries[k] EXCEPT !.connectors = @ \cup {c}])
      /\ UNCHANGED <<lease, generationVars, flagVars, workerVars>>

\* Connector.Close.
CloseConnector(c) ==
  LET k == connector[c].key
  IN  /\ connector[c].state = "open"
      /\ connector' = [connector EXCEPT ![c].state = "closed"]
      /\ SetEntry(k, MaybeIdle([entries[k] EXCEPT !.connectors = @ \ {c}]))
      /\ UNCHANGED <<lease, generationVars, flagVars, workerVars>>

----------------------------------------
(***************************************************************************)
(* The worker startGeneration.                                             *)
(***************************************************************************)

\* factory.Start returns: "ready" is a running instance, "failed" an error
\* with nothing left to reap or an instance that already exited, "partial" an
\* error together with a running instance.
StartReturns(g, outcome) ==
  /\ starter[g] = "starting"
  /\ process' = [process EXCEPT ![g] =
                    IF outcome = "failed" THEN "exited" ELSE "running"]
  /\ starter' = [starter EXCEPT ![g] =
                    CASE outcome = "failed" -> "failed"
                      [] outcome = "ready" /\ ~startCancelled[g] -> "publish"
                      [] OTHER -> "stop"]
  /\ UNCHANGED <<nextGeneration, generationKey, startCancelled, watcher,
                 stopper, entryVars, userVars, flagVars>>

\* The generation stopped being wanted between Start and the mutex.
StartNoLongerWanted(g) ==
  LET e == entries[generationKey[g]]
  IN  IsCurrent(g) /\ e.startPending /\ e.state # "starting"

\* Only an open registry publishes, and only the entry's own generation.
StartIsOrphaned(g) ==
  closing \/ ~IsCurrent(g) \/ entries[generationKey[g]].state # "starting"

\* startGeneration finds the entry no longer starting and cleans up.
PublishRefused(g) ==
  /\ starter[g] = "publish"
  /\ StartNoLongerWanted(g)
  /\ starter' = [starter EXCEPT ![g] = "stop"]
  /\ UNCHANGED <<watcher, stopper, entryVars, userVars, generationVars,
                 flagVars>>

\* stopDetached takes over an instance the registry no longer tracks.
PublishDetached(g) ==
  /\ starter[g] = "publish"
  /\ ~StartNoLongerWanted(g)
  /\ StartIsOrphaned(g)
  /\ starter' = [starter EXCEPT ![g] = "detached"]
  /\ UNCHANGED <<watcher, stopper, entryVars, userVars, generationVars,
                 flagVars>>

StartDeadlineReached(e) == e.timer["start"] = "due"

\* The instance is ready but the deadline has passed: timeoutStartLocked.
PublishTooLate(g) ==
  LET k == generationKey[g]
      f == [TimeoutStart(entries[k]) EXCEPT !.leases = {}]
  IN  /\ starter[g] = "publish"
      /\ ~StartNoLongerWanted(g)
      /\ ~StartIsOrphaned(g)
      /\ StartDeadlineReached(entries[k])
      /\ starter' = [starter EXCEPT ![g] = "stop"]
      /\ SetEntry(k, f)
      /\ DropUsers(k, f)
      /\ CancelStartContext(g)
      /\ UNCHANGED <<nextGeneration, generationKey, process, watcher,
                     stopper, flagVars>>

\* The instance becomes the entry's and every opening lease active.
PublishReady(g) ==
  LET k == generationKey[g]
      e == entries[k]
      f == Arm([Cancel(e, {"start", "stable"}) EXCEPT
                   !.startPending = FALSE, !.instance = TRUE,
                   !.readyAt = "recent", !.retry = "none", !.state = "ready"],
               "stable")
  IN  /\ starter[g] = "publish"
      /\ ~StartNoLongerWanted(g)
      /\ ~StartIsOrphaned(g)
      /\ ~StartDeadlineReached(e)
      /\ starter' = [starter EXCEPT ![g] = "done"]
      /\ watcher' = [watcher EXCEPT ![g] = "watching"]
      /\ SetEntry(k, MaybeIdle(f))
      /\ lease' = [l \in Leases |->
                      IF /\ l \in e.leases
                         /\ lease[l].state = "opening" /\ lease[l].gen = g
                      THEN Activated(l, g) ELSE lease[l]]
      /\ CancelStartContext(g)
      /\ UNCHANGED <<nextGeneration, connector, generationKey, process,
                     stopper, flagVars>>

\* cleanupFailedStart: stopInstance returns, reaped or out of grace.
StopFailedStart(g) ==
  /\ starter[g] = "stop"
  /\ starter' = [starter EXCEPT ![g] =
                    IF process[g] = "exited" THEN "reaped" ELSE "unreaped"]
  /\ UNCHANGED <<watcher, stopper, entryVars, userVars, generationVars,
                 flagVars>>

\* completeStartFailure, for an entry whose start is still pending.
FailedStartEntry(e, gone) ==
  LET f == [e EXCEPT !.instance = ~gone, !.startPending = FALSE]
      h == IF e.state = "starting" THEN Cancel(f, {"start"}) ELSE f
  IN  CASE closing /\ gone ->
              DeleteColdEntry([h EXCEPT !.state = "cold", !.leases = {}])
        [] closing /\ ~gone -> [h EXCEPT !.state = "failed", !.leases = {}]
        [] ~closing /\ e.state # "starting" ->
              IF gone THEN DeleteFailedEntry(h) ELSE h
        [] OTHER -> [Fail(h) EXCEPT !.leases = {}]

\* err is an error of instance.Stop or instance.Kill; a start that left no
\* instance called neither.
CompleteStartFailure(g, err) ==
  LET k == generationKey[g]
      e == entries[k]
      gone == process[g] = "exited"
      f == FailedStartEntry(e, gone)
  IN  /\ starter[g] \in {"failed", "reaped", "unreaped"}
      /\ err => starter[g] # "failed"
      /\ starter' = [starter EXCEPT ![g] =
                        IF starter[g] = "unreaped" THEN "reap" ELSE "done"]
      /\ IF IsCurrent(g) /\ e.startPending
         THEN /\ SetEntry(k, f)
              /\ DropUsers(k, f)
              /\ CancelStartContext(g)
              /\ shutdownErrors' = (shutdownErrors \/ (closing /\ (err \/ ~gone)))
         ELSE UNCHANGED <<startCancelled, shutdownErrors, entryVars,
                          userVars>>
      /\ UNCHANGED <<nextGeneration, closing, shutdownDone, generationKey,
                     process, watcher, stopper>>

\* stopDetached ends once the process is reaped; err as above.
StopDetached(g, err) ==
  /\ starter[g] = "detached"
  /\ process[g] = "exited"
  /\ starter' = [starter EXCEPT ![g] = "done"]
  /\ shutdownErrors' = (shutdownErrors \/ (closing /\ err))
  /\ UNCHANGED <<closing, shutdownDone, watcher, stopper, entryVars,
                 userVars, generationVars>>

----------------------------------------
(***************************************************************************)
(* Processes and the workers that wait for them.                           *)
(***************************************************************************)

\* A running process exits and is reaped, for whatever reason.
ProcessExits(g) ==
  /\ process[g] = "running"
  /\ process' = [process EXCEPT ![g] = "exited"]
  /\ UNCHANGED <<nextGeneration, generationKey, startCancelled, entryVars,
                 userVars, flagVars, workerVars>>

\* generationExited.
GenerationExited(g) ==
  LET k == generationKey[g]
      f == ExitedEntry(entries[k])
  IN  /\ process[g] = "exited"
      /\ IF IsCurrent(g)
         THEN SetEntry(k, f) /\ DropUsers(k, f)
         ELSE UNCHANGED <<entryVars, userVars>>
      /\ UNCHANGED <<stopper, generationVars, flagVars>>

\* watchGeneration.
WatchGeneration(g) ==
  /\ watcher[g] = "watching"
  /\ watcher' = [watcher EXCEPT ![g] = "done"]
  /\ GenerationExited(g)
  /\ UNCHANGED starter

\* The tail of cleanupFailedStart after an unreaped stop.
ReapFailedStart(g) ==
  /\ starter[g] = "reap"
  /\ starter' = [starter EXCEPT ![g] = "done"]
  /\ GenerationExited(g)
  /\ UNCHANGED watcher

----------------------------------------
(***************************************************************************)
(* The worker stopGeneration.                                              *)
(***************************************************************************)

\* completeStop of a process that outlived the forced termination grace.
StopUnreaped(g) ==
  LET k == generationKey[g]
      f == Fail([entries[k] EXCEPT !.leases = {}, !.connectors = {}])
  IN  /\ SetEntry(k, f)
      /\ DropUsers(k, f)
      /\ shutdownErrors' = (shutdownErrors \/ closing)
      /\ stopper' = [stopper EXCEPT ![g] = "done"]
      /\ UNCHANGED <<nextGeneration, generationKey, process, starter>>

\* The entry completeStop leaves once the process is reaped.
ReapedEntry(e) ==
  [e EXCEPT !.state = "cold", !.instance = FALSE, !.reaped = FALSE,
            !.failures = 0, !.retry = "none"]

\* completeStop with leases waiting: startLocked, or its error when the
\* generation space is exhausted.
StopRestarts(g) ==
  LET k == generationKey[g]
      e == ReapedEntry(entries[k])
      f == Fail([e EXCEPT !.leases = {}])
  IN  /\ stopper' = [stopper EXCEPT ![g] = "done"]
      /\ IF nextGeneration < MaxGeneration
         THEN /\ StartGeneration(k, e)
              /\ lease' = AttachOpening(e.leases, nextGeneration + 1)
              /\ UNCHANGED connector
         ELSE /\ SetEntry(k, f)
              /\ DropUsers(k, f)
              /\ UNCHANGED <<nextGeneration, generationKey, process,
                             starter>>

\* completeStop of an unused or closing entry.
StopEvicts(g) ==
  LET k == generationKey[g]
      f == DeleteColdEntry([ReapedEntry(entries[k]) EXCEPT
                               !.leases = {}, !.connectors = {}])
  IN  /\ SetEntry(k, f)
      /\ DropUsers(k, f)
      /\ stopper' = [stopper EXCEPT ![g] = "done"]
      /\ UNCHANGED <<nextGeneration, generationKey, process, starter>>

\* stopGeneration: stopInstance returned, completeStop takes the mutex.  err is
\* an error of instance.Stop or instance.Kill.
CompleteStop(g, err) ==
  LET k == generationKey[g]
      e == entries[k]
      gone == e.reaped \/ process[g] = "exited"
  IN  /\ stopper[g] = "stop"
      /\ IF ~(IsCurrent(g) /\ e.state = "stopping")
         THEN /\ stopper' = [stopper EXCEPT ![g] = "done"]
              /\ UNCHANGED <<nextGeneration, shutdownErrors, generationKey,
                             process, starter, entryVars, userVars>>
         ELSE \/ ~gone /\ StopUnreaped(g)
              \/ /\ gone
                 /\ shutdownErrors' = (shutdownErrors \/ (closing /\ err))
                 /\ IF ~closing /\ e.leases # {}
                    THEN StopRestarts(g)
                    ELSE StopEvicts(g)
      /\ UNCHANGED <<closing, shutdownDone, startCancelled, watcher>>

----------------------------------------
(***************************************************************************)
(* Time and the timer callbacks.                                           *)
(***************************************************************************)

\* A deadline of the entry is reached.  The failure deadline lies after the
\* retry deadline, and the stable timer measures the age of readyAt.
DeadlinePasses(k, t) ==
  /\ t # "stable"
  /\ entries[k].timer[t] = "future"
  /\ t = "failure" => entries[k].retry # "future"
  /\ entries' = [entries EXCEPT ![k].timer[t] = "due"]
  /\ UNCHANGED <<staleCallbacks, userVars, generationVars, flagVars, workerVars>>

RetryDeadlinePasses(k) ==
  /\ entries[k].retry = "future"
  /\ entries' = [entries EXCEPT ![k].retry = "past"]
  /\ UNCHANGED <<staleCallbacks, userVars, generationVars, flagVars, workerVars>>

StablePeriodPasses(k) ==
  /\ entries[k].readyAt = "recent"
  /\ entries' = [entries EXCEPT ![k].readyAt = "stable",
                     ![k].timer["stable"] = IF @ = "future" THEN "due" ELSE @]
  /\ UNCHANGED <<staleCallbacks, userVars, generationVars, flagVars, workerVars>>

\* The callback of the entry's own timer clears the timer and then acts: its
\* timer leaves no stale callback behind.
CallbackSets(k, t, f) ==
  /\ entries' = [entries EXCEPT ![k] = f]
  /\ staleCallbacks' = staleCallbacks
          \cup Orphans(k, [entries[k] EXCEPT !.timer[t] = "none"], f)

\* expireStart with its own deadline.
ExpireStart(k) ==
  LET e == entries[k]
      f == [TimeoutStart(e) EXCEPT !.leases = {}]
  IN  /\ e.timer["start"] = "due"
      /\ ~closing
      /\ CallbackSets(k, "start", f)
      /\ DropUsers(k, f)
      /\ CancelStartContext(e.gen)
      /\ UNCHANGED <<nextGeneration, generationKey, process, flagVars,
                     workerVars>>

\* expireIdle with its own deadline.
ExpireIdle(k) ==
  LET e == entries[k]
  IN  /\ e.timer["idle"] = "due"
      /\ ~closing
      /\ CallbackSets(k, "idle", BeginStop(e))
      /\ stopper' = [stopper EXCEPT ![e.gen] = "stop"]
      /\ UNCHANGED <<starter, watcher, userVars, generationVars, flagVars>>

\* resetStableGeneration with its own timer.
ResetStable(k) ==
  LET e == entries[k]
  IN  /\ e.timer["stable"] = "due"
      /\ ~closing
      /\ CallbackSets(k, "stable", [Cancel(e, {"stable"}) EXCEPT !.failures = 0])
      /\ UNCHANGED <<userVars, generationVars, flagVars, workerVars>>

\* expireFailure with its own deadline.
ExpireFailure(k) ==
  LET e == entries[k]
      f == [e EXCEPT !.timer["failure"] = "spent"]
  IN  /\ e.timer["failure"] = "due"
      /\ ~closing
      /\ CallbackSets(k, "failure", DeleteFailedEntry(f))
      /\ UNCHANGED <<userVars, generationVars, flagVars, workerVars>>

\* Mutant: expireIdle compares the generation but not the deadline.
RunStaleCallbackByGeneration(cb) ==
  LET e == entries[cb.key]
      acts == cb.kind = "idle" /\ ~closing /\ e.gen = cb.gen /\ e.state = "idle"
  IN  /\ cb \in staleCallbacks
      /\ staleCallbacks' = staleCallbacks \ {cb}
      /\ entries' = IF acts THEN [entries EXCEPT ![cb.key] = BeginStop(e)]
                    ELSE entries
      /\ stopper' = IF acts THEN [stopper EXCEPT ![e.gen] = "stop"] ELSE stopper
      /\ UNCHANGED <<starter, watcher, userVars, generationVars, flagVars>>

\* A callback that finds the registry closing, its entry gone, another
\* generation or another deadline returns.  resetStableGeneration compares no
\* deadline: it acts on a ready or idle entry of its generation.
RunStaleCallback(cb) ==
  LET e == entries[cb.key]
  IN  /\ cb \in staleCallbacks
      /\ staleCallbacks' = staleCallbacks \ {cb}
      /\ entries' =
            IF /\ cb.kind = "stable" /\ ~closing
               /\ e.gen = cb.gen /\ e.state \in {"ready", "idle"}
            THEN [entries EXCEPT ![cb.key].failures = 0,
                                 ![cb.key].timer["stable"] = "none"]
            ELSE entries
      /\ UNCHANGED <<userVars, generationVars, flagVars, workerVars>>

----------------------------------------
(***************************************************************************)
(* Shutdown.                                                               *)
(***************************************************************************)

\* Mutant: shutdown leaves the start contexts running.
CancelNoStart == startCancelled

\* cancelLifetime ends every start context.
CancelLifetime == [g \in Generations |-> TRUE]

\* beginShutdownLocked.
BeginShutdown ==
  /\ ~closing
  /\ closing' = TRUE
  /\ startCancelled' = CancelLifetime
  /\ entries' = [k \in Keys |-> ShutdownEntry(entries[k])]
  /\ staleCallbacks' = staleCallbacks \cup
          UNION {Orphans(k, entries[k], ShutdownEntry(entries[k])) : k \in Keys}
  /\ lease' = Invalidated(UNION {entries[k].leases : k \in Keys})
  /\ connector' = Disconnected(UNION {entries[k].connectors : k \in Keys})
  /\ stopper' = [g \in Generations |->
        IF \E k \in Keys : /\ entries[k].gen = g /\ entries[k].instance
                           /\ entries[k].state \in {"ready", "idle", "failed"}
        THEN "stop" ELSE stopper[g]]
  /\ UNCHANGED <<nextGeneration, shutdownDone, shutdownErrors, generationKey,
                 process, starter, watcher>>

\* The goroutine that waits for the workers and closes shutdownDone.
FinishShutdown ==
  /\ closing
  /\ ~shutdownDone
  /\ WorkersIdle
  /\ shutdownDone' = TRUE
  /\ entries' = [k \in Keys |->
          IF entries[k].state = "absent" THEN NoEntry
          ELSE [entries[k] EXCEPT !.state = "cold", !.instance = FALSE,
                    !.reaped = FALSE, !.startPending = FALSE, !.retry = "none"]]
  /\ UNCHANGED <<closing, shutdownErrors, staleCallbacks, userVars,
                 generationVars, workerVars>>

----------------------------------------
StarterStep(g) ==
  \/ PublishRefused(g)
  \/ PublishDetached(g)
  \/ PublishTooLate(g)
  \/ PublishReady(g)
  \/ StopFailedStart(g)
  \/ \E err \in BOOLEAN : CompleteStartFailure(g, err) \/ StopDetached(g, err)
  \/ ReapFailedStart(g)

TimerStep(k) ==
  \/ \E t \in TimerKinds : DeadlinePasses(k, t)
  \/ RetryDeadlinePasses(k)
  \/ StablePeriodPasses(k)
  \/ ExpireStart(k)
  \/ ExpireIdle(k)
  \/ ResetStable(k)
  \/ ExpireFailure(k)

Next ==
  \/ \E l \in Leases, k \in Keys, p \in Policies :
          \/ AcquireStarting(l, k, p)
          \/ AcquireReady(l, k, p)
          \/ AcquireJoining(l, k, p)
  \/ \E l \in Leases : \/ AcquireReturns(l)
                       \/ AcquireCancelled(l)
                       \/ ReleaseHeld(l)
  \/ \E c \in Connectors, l \in Leases : OpenConnector(c, l)
  \/ \E c \in Connectors : CloseConnector(c)
  \/ \E g \in Generations :
          \/ \E o \in {"ready", "failed", "partial"} : StartReturns(g, o)
          \/ StarterStep(g)
          \/ ProcessExits(g)
          \/ WatchGeneration(g)
          \/ \E err \in BOOLEAN : CompleteStop(g, err)
  \/ \E k \in Keys : TimerStep(k)
  \/ \E cb \in staleCallbacks : RunStaleCallback(cb)
  \/ BeginShutdown
  \/ FinishShutdown

Spec == Init /\ [][Next]_vars

\* The registry asked the process of g to terminate: stopInstance has called
\* Stop and, when that was not enough, Kill.
TerminationRequested(g) ==
  \/ stopper[g] # "none"
  \/ starter[g] \in {"stop", "unreaped", "reap", "detached"}

\* Goroutines and timers run; a start returns once its context is cancelled
\* (the contract of Factory.Start); a process that was killed is reaped.
\* Nothing obliges callers, and nothing obliges a start or a process that was
\* not asked to stop.
Fairness ==
  /\ \A g \in Generations :
      /\ WF_vars(\/ StarterStep(g)
                 \/ startCancelled[g] /\ StartReturns(g, "failed"))
      /\ WF_vars(TerminationRequested(g) /\ ProcessExits(g))
      /\ WF_vars(WatchGeneration(g))
      /\ WF_vars(CompleteStop(g, FALSE))
  /\ \A k \in Keys : WF_vars(TimerStep(k))
  /\ WF_vars(FinishShutdown)

FairSpec == Spec /\ Fairness

----------------------------------------
(***************************************************************************)
(* Properties.                                                             *)
(***************************************************************************)

\* The variables keep their types; the failure counter saturates.
TypeOK ==
  /\ entries \in [Keys -> Entry]
  /\ nextGeneration \in 0 .. MaxGeneration
  /\ closing \in BOOLEAN
  /\ shutdownDone \in BOOLEAN
  /\ shutdownErrors \in BOOLEAN
  /\ lease \in [Leases -> LeaseRecord]
  /\ connector \in [Connectors -> ConnectorRecord]
  /\ generationKey \in [Generations -> Keys \cup {NoKey}]
  /\ process \in [Generations -> {"none", "starting", "running", "exited"}]
  /\ startCancelled \in [Generations -> BOOLEAN]
  /\ starter \in [Generations -> StarterPhases]
  /\ watcher \in [Generations -> {"none", "watching", "done"}]
  /\ stopper \in [Generations -> {"none", "stop", "done"}]
  /\ staleCallbacks \subseteq
          [kind : TimerKinds, key : Keys, gen : 0 .. MaxGeneration]

\* The factory is starting the generation, or its process has not been reaped.
Occupies(g) == process[g] \in {"starting", "running"}

\* startLocked never lets a generation of a key begin while an earlier one is
\* still starting, still being cleaned up after a failed or abandoned start, or
\* not yet reaped after a forced stop: two processes never serve one key.
OneGenerationPerKey ==
  \A g, h \in Generations :
      Occupies(g) /\ Occupies(h) /\ generationKey[g] = generationKey[h] => g = h

\* Lease.Instance and OpenConnector rely on it: an active lease and an open
\* connector belong to the ready generation of their key, never to one that is
\* idle, stopping, failed or replaced.
UsersAreServed ==
  /\ \A l \in Leases : lease[l].state = "active" =>
          /\ entries[lease[l].key].state = "ready"
          /\ entries[lease[l].key].gen = lease[l].gen
          /\ entries[lease[l].key].instance
  /\ \A c \in Connectors : connector[c].state = "open" =>
          /\ entries[connector[c].key].state = "ready"
          /\ entries[connector[c].key].gen = connector[c].gen
          /\ entries[connector[c].key].instance

\* maybeIdleLocked is reached on every path that drops a last user: a ready
\* entry has a user, an idle one has none and an idle timer that will end it.
IdleExactlyWhenUnused ==
  \A k \in Keys :
      /\ entries[k].state = "ready" => ~Unused(entries[k])
      /\ entries[k].state = "idle" =>
            /\ Unused(entries[k])
            /\ entries[k].timer["idle"] # "none"

\* A caller of AcquireWithPolicy that got an error (its context ended, perhaps
\* as the lease became active) leaves no lease behind to keep the resource up.
FailedAcquireHoldsNothing ==
  \A l \in Leases :
      lease[l].caller \in {"failed", "released"} =>
          /\ lease[l].state = "closed"
          /\ \A k \in Keys : l \notin entries[k].leases

\* Shutdown returns only when every generation ever started has been reaped.
ShutdownReapsAll ==
  shutdownDone => \A g \in Generations : process[g] \in {"none", "exited"}

\* A failed key keeps its entry, and with it the backoff, until the retry
\* deadline passes: neither an acquire nor an eviction forgets it earlier.
BackoffIsKept ==
  [][\A k \in Keys :
        entries[k].state = "failed" /\ entries[k].retry = "future" /\ ~closing'
          => entries'[k].state = "failed"]_vars

\* expireIdle stops a generation only when the deadline of the current idle
\* period has passed: a callback left over from an earlier idle period, running
\* after the resource was used again, does not.
IdlePeriodIsHonoured ==
  [][\A k \in Keys :
        /\ entries[k].state = "idle" /\ entries'[k].state = "stopping"
        /\ ~closing'
        => entries[k].timer["idle"] = "due"]_vars

\* A timer that was stopped or reset too late to keep its callback from running
\* never acts for the period it no longer measures (expireFailure, expireIdle).
TimersAreHonoured == BackoffIsKept /\ IdlePeriodIsHonoured

\* Every acquire is answered: a generation becomes ready, fails or times out,
\* and a lease that waits out a stopping generation gets the next one.
OpeningResolves ==
  \A l \in Leases : lease[l].state = "opening" ~> lease[l].state # "opening"

\* An acquire ends with a lease or with nothing: it is answered, and when its
\* context ended first it gives back what it got (AcquireWithPolicy).
AcquiresAreSettled == []FailedAcquireHoldsNothing /\ OpeningResolves

\* An idle or failed entry does not stay: it is used again, stopped or evicted.
UnusedIsReclaimed ==
  \A k \in Keys :
      entries[k].state \in {"idle", "failed"} ~>
          entries[k].state \notin {"idle", "failed"}

\* Shutdown completes: cancelled starts return, stopped processes are reaped
\* and the workers that wait for them end.
ShutdownCompletes == closing ~> shutdownDone

\* Nobody waits for ever: every acquire is answered, what is unused is
\* reclaimed and Shutdown returns, however the workers and timers interleave.
RegistryProgresses == AcquiresAreSettled /\ UnusedIsReclaimed /\ ShutdownCompletes

----------------------------------------
(***************************************************************************)
(* The inductive invariant behind the safety properties.                   *)
(***************************************************************************)

\* Generations are handed out in order and each belongs to one key.
GenerationsInOrder ==
  /\ \A k \in Keys : entries[k].gen <= nextGeneration
  /\ \A g \in Generations :
      /\ g <= nextGeneration => generationKey[g] \in Keys
      /\ g > nextGeneration =>
            /\ process[g] = "none" /\ starter[g] = "none"
            /\ watcher[g] = "none" /\ stopper[g] = "none"

\* What each state of an entry says about its instance and its start.
EntryShape(e, closed, procs) ==
  /\ e.state = "absent" => ~e.instance /\ ~e.startPending /\ Unused(e)
  /\ e.state = "cold" => ~e.instance /\ (e.startPending => closed)
  /\ e.state \in {"ready", "idle", "stopping"} => e.instance /\ ~e.startPending
  /\ e.state = "ready" => ~closed /\ ~Unused(e)
  /\ e.state = "idle" => ~closed /\ Unused(e) /\ e.timer["idle"] # "none"
  /\ e.state = "starting" => e.startPending
  /\ e.startPending => ~e.instance
  /\ e.state \notin {"absent", "cold"} => e.gen # 0
  /\ e.state # "ready" => e.connectors = {}
  /\ e.timer["start"] # "none" => e.state = "starting" \/ closed
  /\ e.timer["idle"] # "none" => e.state = "idle" \/ closed
  /\ e.reaped => e.state = "stopping" /\ procs[e.gen] = "exited"

EntriesShaped == \A k \in Keys : EntryShape(entries[k], closing, process)

\* A starter that has not settled its generation owns the entry's pending start.
StarterOwnsStart ==
  \A g \in Generations :
      starter[g] \in {"starting", "publish", "failed", "stop", "reaped",
                      "unreaped", "detached"} =>
          /\ generationKey[g] \in Keys
          /\ IsCurrent(g)
          /\ entries[generationKey[g]].startPending

\* An unreaped generation is its key's current one and the entry knows it.
OccupantIsCurrent ==
  \A g \in Generations : Occupies(g) =>
      /\ generationKey[g] \in Keys
      /\ IsCurrent(g)
      /\ \/ entries[generationKey[g]].startPending
         \/ entries[generationKey[g]].instance

\* Some worker waits for every unreaped generation.
OccupantIsAwaited ==
  \A g \in Generations :
      /\ process[g] = "starting" <=> starter[g] = "starting"
      /\ process[g] = "running" =>
            starter[g] \notin {"none", "done"} \/ watcher[g] = "watching"
      /\ starter[g] \in {"failed", "reaped"} => process[g] = "exited"

\* Entries list exactly the leases and connectors that are not closed.
LeasesLinked ==
  /\ \A l \in Leases : lease[l].state \in {"opening", "active"} =>
          lease[l].key \in Keys /\ l \in entries[lease[l].key].leases
  /\ \A k \in Keys : \A l \in entries[k].leases :
          lease[l].key = k /\ lease[l].state \in {"opening", "active"}
  /\ \A l \in Leases : lease[l].caller # "none" => lease[l].state # "none"

ConnectorsLinked ==
  /\ \A c \in Connectors : connector[c].state = "open" =>
          connector[c].key \in Keys /\ c \in entries[connector[c].key].connectors
  /\ \A k \in Keys : \A c \in entries[k].connectors :
          connector[c].key = k /\ connector[c].state = "open"

ShutdownSettled == shutdownDone => closing /\ WorkersIdle

IInv ==
  /\ TypeOK
  /\ GenerationsInOrder
  /\ EntriesShaped
  /\ StarterOwnsStart
  /\ OccupantIsCurrent
  /\ OccupantIsAwaited
  /\ LeasesLinked
  /\ ConnectorsLinked
  /\ UsersAreServed
  /\ ShutdownSettled

\* For TimersAreHonoured: an open registry forgets a failure only after its
\* retry deadline, so its retention timer still runs before that.
BackoffArmed ==
  ~closing => \A k \in Keys : entries[k].retry = "future" =>
      entries[k].state = "failed" /\ entries[k].timer["failure"] = "future"

\* For FailedAcquireHoldsNothing: what an acquire was refused is closed.
Settled(m) ==
  m.caller \in {"failed", "released"} \/ m.ready = "error" => m.state = "closed"

LeasesSettled == \A l \in Leases : Settled(lease[l])
=============================================================================
