---------------------------- MODULE McpResources ----------------------------
(***************************************************************************)
(* The MCP resource handler of the agent                                   *)
(* (internal/mcpgateway/resourcehandler): one runtime state per leased MCP *)
(* resource, at most one retained backend generation in it, callers of     *)
(* Open that start or join a generation, the streams they reserve, retry   *)
(* backoff after transient failures and warm-idle teardown.  An action is  *)
(* one critical section of h.mu or one step outside of it.                 *)
(*                                                                         *)
(* A runtime state that is deleted and created again is a new pointer:     *)
(* callbacks bound to the old one compare unequal and do nothing, so       *)
(* deleting a runtime state drops them.                                    *)
(***************************************************************************)
EXTENDS Naturals, FiniteSets

CONSTANTS
    Resources,    \* protocol.ResourceID
    Openers,      \* concurrent callers of Open, each with its own context
    Nobody,
    MaxLeases,    \* bound: leases registered for one resource at a time
    MaxBackends,  \* bound: backend generations started in one behaviour
    MaxLate       \* bound: idle callbacks that outlived their Stop

ASSUME McpAssumption ==
  /\ IsFiniteSet(Openers) /\ Nobody \notin Openers
  /\ MaxLeases \in Nat /\ MaxBackends \in Nat /\ MaxLate \in Nat

VARIABLES
    runtimes,   \* h.runtimes
    closing,    \* h.closing
    revoked,    \* the lease registry has cancelled every lease lifetime
    opener,     \* every caller of Open and the stream it returned
    backend,    \* state of every backend generation
    late        \* idle callbacks of the current runtime in flight after a Stop

mcpVars == <<runtimes, closing, revoked, opener, backend, late>>

Backends == 1 .. MaxBackends

Errors == {"none", "transient", "permanent", "cancelled"}

Runtime ==
  [present : BOOLEAN, leases : 0 .. MaxLeases, waiters : Nat, streams : Nat,
   acquired : 0 .. MaxBackends, starting : Openers \cup {Nobody},
   lastErr : Errors, backoff : BOOLEAN, idle : {"none", "armed", "due"}]

NoRuntime ==
  [present |-> FALSE, leases |-> 0, waiters |-> 0, streams |-> 0,
   acquired |-> 0, starting |-> Nobody, lastErr |-> "none",
   backoff |-> FALSE, idle |-> "none"]

\* "loop" is the head of Open's loop, "waiting" the select on the starting
\* channel of opener on, "leaving" the deferred function.
Opener ==
  [pc : {"idle", "loop", "waiting", "backoff", "starting", "started",
         "leaving", "stream"},
   res : Resources, ctx : {"live", "cancelled"}, on : Openers \cup {Nobody},
   outcome : Errors, got : 0 .. MaxBackends,
   err : Errors \cup {"closing", "gone"}]

\* A backend is "dropped" between leaving the table and its Revoke/Release.
BackendStates == {"unused", "live", "dropped", "released"}

InOpen(o) == opener[o].pc \notin {"idle", "stream"}

----------------------------------------

\* mcpgateway.RetryableStart: a cancelled start counts as not retryable.
RetryableStart(e) == e = "transient"

Needed(c) == c.waiters # 0 \/ c.streams # 0 \/ c.starting # Nobody

\* releaseDemandLocked and scheduleIdleLocked.
ReleaseDemand(c) ==
  CASE Needed(c) -> c
    [] ~Needed(c) /\ c.acquired = 0 -> IF c.leases = 0 THEN NoRuntime ELSE c
    [] OTHER -> IF c.idle = "none" THEN [c EXCEPT !.idle = "armed"] ELSE c

\* runtimes[r] becomes c.  Stopping a due timer is too late for its callback.
SetRuntime(r, c) ==
  /\ runtimes' = [runtimes EXCEPT ![r] = c]
  /\ late' = [late EXCEPT ![r] =
                CASE ~c.present -> 0
                  [] c.present /\ runtimes[r].idle = "due" /\ c.idle = "none" -> @ + 1
                  [] OTHER -> @]

Goto(o, pc) == opener' = [opener EXCEPT ![o].pc = pc]

LeaveRuntime(o, err) == opener' = [opener EXCEPT ![o].pc = "leaving", ![o].err = err]

----------------------------------------

McpInit ==
  /\ runtimes = [r \in Resources |-> NoRuntime]
  /\ closing = FALSE
  /\ revoked = FALSE
  /\ opener \in [Openers -> {[pc |-> "idle", res |-> r, ctx |-> "live",
                              on |-> Nobody, outcome |-> "none", got |-> 0,
                              err |-> "none"] : r \in Resources}]
  /\ backend = [b \in Backends |-> "unused"]
  /\ late = [r \in Resources |-> 0]

LeaseAcquired(r) ==
  /\ ~closing /\ ~revoked
  /\ runtimes[r].leases < MaxLeases
  /\ SetRuntime(r, [runtimes[r] EXCEPT !.present = TRUE, !.leases = @ + 1])
  /\ UNCHANGED <<closing, revoked, opener, backend>>

LeaseReleased(r) ==
  /\ runtimes[r].leases > 0
  /\ SetRuntime(r, ReleaseDemand([runtimes[r] EXCEPT !.leases = @ - 1]))
  /\ UNCHANGED <<closing, revoked, opener, backend>>

\* Open, up to its loop, for a caller whose lease the registry has looked up.
OpenBegin(o) ==
  LET r == opener[o].res
  IN  /\ opener[o].pc = "idle"
      /\ ~revoked
      /\ runtimes[r].leases # 0
      /\ SetRuntime(r, [runtimes[r] EXCEPT !.waiters = @ + 1, !.idle = "none"])
      /\ opener' = [opener EXCEPT ![o].pc = "loop"]
      /\ UNCHANGED <<closing, revoked, backend>>

\* The lease of the caller is released, its client goes away or it times out.
CancelContext(o) ==
  /\ InOpen(o)
  /\ opener[o].ctx = "live"
  /\ opener' = [opener EXCEPT ![o].ctx = "cancelled"]
  /\ UNCHANGED <<runtimes, closing, revoked, backend, late>>

TakeStream(c) ==
  [c EXCEPT !.waiters = @ - 1, !.streams = @ + 1, !.idle = "none"]

\* The loop finds a retained backend and reserves a stream on it.
JoinBackend(o) ==
  LET r == opener[o].res
      c == runtimes[r]
  IN  /\ opener[o].pc = "loop"
      /\ ~closing /\ c.present /\ c.acquired # 0
      /\ SetRuntime(r, TakeStream(c))
      /\ opener' = [opener EXCEPT ![o].pc = "stream", ![o].ctx = "live",
                                  ![o].got = c.acquired]
      /\ UNCHANGED <<closing, revoked, backend>>

MayStart(c) == c.acquired = 0 /\ c.starting = Nobody

\* The loop's other branches, in order: shutting down, released, joining a
\* start, remembered failure, backoff, and starting a generation.
Loop(o) ==
  LET r == opener[o].res
      c == runtimes[r]
      d == [c EXCEPT !.idle = "none"]
  IN  /\ opener[o].pc = "loop"
      /\ \/ /\ closing
            /\ LeaveRuntime(o, "closing")
            /\ UNCHANGED <<runtimes, late>>
         \/ /\ ~closing /\ ~c.present
            /\ LeaveRuntime(o, "gone")
            /\ UNCHANGED <<runtimes, late>>
         \/ /\ ~closing /\ c.present /\ c.acquired = 0 /\ ~MayStart(c)
            /\ opener' = [opener EXCEPT ![o].pc = "waiting", ![o].on = c.starting]
            /\ SetRuntime(r, d)
         \/ /\ ~closing /\ c.present /\ MayStart(c)
            /\ c.lastErr # "none" /\ ~RetryableStart(c.lastErr)
            /\ LeaveRuntime(o, c.lastErr)
            /\ SetRuntime(r, d)
         \/ /\ ~closing /\ c.present /\ MayStart(c)
            /\ c.lastErr = "none" \/ RetryableStart(c.lastErr)
            /\ IF c.backoff
               THEN Goto(o, "backoff") /\ SetRuntime(r, d)
               ELSE Goto(o, "starting") /\ SetRuntime(r, [d EXCEPT !.starting = o])
      /\ UNCHANGED <<closing, revoked, backend>>

Interruptible == {"waiting", "backoff"}

\* A select on the starting channel or on the retry timer sees ctx.Done.
WaitCancelled(o) ==
  /\ opener[o].pc \in Interruptible
  /\ opener[o].ctx = "cancelled"
  /\ LeaveRuntime(o, "cancelled")
  /\ UNCHANGED <<runtimes, closing, revoked, backend, late>>

RetryDue(r) ==
  /\ runtimes[r].backoff
  /\ runtimes' = [runtimes EXCEPT ![r].backoff = FALSE]
  /\ UNCHANGED <<closing, revoked, opener, backend, late>>

BackoffElapsed(o) ==
  /\ opener[o].pc = "backoff"
  /\ ~runtimes[opener[o].res].backoff
  /\ Goto(o, "loop")
  /\ UNCHANGED <<runtimes, closing, revoked, backend, late>>

\* start returns a backend.
StartSucceeds(o) ==
  /\ opener[o].pc = "starting"
  /\ \E b \in Backends :
      /\ backend[b] = "unused"
      /\ \A a \in 1 .. b - 1 : backend[a] # "unused"
      /\ backend' = [backend EXCEPT ![b] = "live"]
      /\ opener' = [opener EXCEPT ![o].pc = "started", ![o].got = b,
                                  ![o].outcome = "none"]
  /\ UNCHANGED <<runtimes, closing, revoked, late>>

\* start returns an error: context.Canceled only when the context is done.
BackendStartFails(o) ==
  /\ opener[o].pc = "starting"
  /\ \E e \in {"transient", "permanent"} \cup
              (IF opener[o].ctx = "cancelled" THEN {"cancelled"} ELSE {}) :
      opener' = [opener EXCEPT ![o].pc = "started", ![o].got = 0,
                               ![o].outcome = e]
  /\ UNCHANGED <<runtimes, closing, revoked, backend, late>>

\* Mutant: a backend whose resource was released during startup is dropped
\* on the floor.
GoneBackendLeaked(b) == backend

GoneBackend(b) ==
  IF b = 0 THEN backend ELSE [backend EXCEPT ![b] = "dropped"]

\* close(wait).
Wakes(o) == {w \in Openers : opener[w].pc = "waiting" /\ opener[w].on = o}

\* The starter's second critical section.
Store(o) ==
  LET r == opener[o].res
      c == runtimes[r]
      e == opener[o].outcome
      next == CASE e = "none" -> "loop"
                [] e # "none" /\ opener[o].ctx = "cancelled" -> "leaving"
                [] e # "none" /\ opener[o].ctx = "live" ->
                      IF RetryableStart(e) THEN "loop" ELSE "leaving"
      d == IF e = "none"
           THEN [c EXCEPT !.acquired = opener[o].got, !.lastErr = "none",
                          !.backoff = FALSE]
           ELSE [c EXCEPT !.lastErr = e, !.backoff = RetryableStart(e)]
  IN  /\ opener[o].pc = "started"
      /\ \/ /\ ~c.present
            /\ backend' = GoneBackend(opener[o].got)
            /\ opener' = [opener EXCEPT ![o].pc = "leaving", ![o].err = "gone",
                                        ![o].got = 0, ![o].outcome = "none"]
            /\ UNCHANGED <<runtimes, late>>
         \/ /\ c.present
            /\ SetRuntime(r, ReleaseDemand([d EXCEPT !.starting = Nobody]))
            /\ opener' = [w \in Openers |->
                  IF w = o THEN [opener[o] EXCEPT !.pc = next, !.got = 0, !.outcome = "none",
                                   !.err = IF next = "leaving" THEN e ELSE "none"]
                  ELSE IF w \in Wakes(o)
                  THEN [opener[w] EXCEPT !.pc = "loop", !.on = Nobody]
                  ELSE opener[w]]
            /\ UNCHANGED backend
      /\ UNCHANGED <<closing, revoked>>

LeftRuntime(c) ==
  IF c.present /\ c.waiters > 0
  THEN ReleaseDemand([c EXCEPT !.waiters = @ - 1]) ELSE c

\* Open's deferred function: the caller returns its error.
OpenFails(o) ==
  /\ opener[o].pc = "leaving"
  /\ SetRuntime(opener[o].res, LeftRuntime(runtimes[opener[o].res]))
  /\ opener' = [opener EXCEPT ![o] = [@ EXCEPT !.pc = "idle", !.ctx = "live",
                                               !.on = Nobody, !.err = "none"]]
  /\ UNCHANGED <<closing, revoked, backend>>

\* stream.Close and releaseStream.
CloseStream(o) ==
  LET r == opener[o].res
      c == runtimes[r]
  IN  /\ opener[o].pc = "stream"
      /\ SetRuntime(r, IF c.present /\ c.streams > 0
                       THEN ReleaseDemand([c EXCEPT !.streams = @ - 1]) ELSE c)
      /\ opener' = [opener EXCEPT ![o].pc = "idle", ![o].got = 0]
      /\ UNCHANGED <<closing, revoked, backend>>

\* The idle timer of r fires; its callback now waits for the mutex.
IdleDue(r) ==
  /\ runtimes[r].idle = "armed"
  /\ late[r] < MaxLate
  /\ runtimes' = [runtimes EXCEPT ![r].idle = "due"]
  /\ UNCHANGED <<closing, revoked, opener, backend, late>>

Expires(c) == c.present /\ ~Needed(c) /\ c.acquired # 0

\* expireIdle: the fields it resets, and the deletion of an unleased runtime.
Expired(c) ==
  IF c.leases = 0 THEN NoRuntime
  ELSE [c EXCEPT !.acquired = 0, !.idle = "none", !.lastErr = "none",
                 !.backoff = FALSE]

\* expireIdle runs as the callback of the timer in current.idle.
ExpireIdle(r) ==
  LET c == runtimes[r]
  IN  /\ c.idle = "due"
      /\ Expires(c)
      /\ runtimes' = [runtimes EXCEPT ![r] = Expired(c)]
      /\ late' = [late EXCEPT ![r] = IF Expired(c).present THEN @ ELSE 0]
      /\ backend' = [backend EXCEPT ![c.acquired] = "dropped"]
      /\ UNCHANGED <<closing, revoked, opener>>

\* expireIdle runs as the callback of a timer that was stopped too late.  It
\* forgets current.idle without stopping that timer, which stays in flight.
ExpireLate(r) ==
  LET c == runtimes[r]
  IN  /\ late[r] > 0
      /\ IF Expires(c)
         THEN /\ runtimes' = [runtimes EXCEPT ![r] = Expired(c)]
              /\ backend' = [backend EXCEPT ![c.acquired] = "dropped"]
              /\ late' = [late EXCEPT ![r] =
                   CASE ~Expired(c).present -> 0
                     [] Expired(c).present /\ c.idle # "none" -> @
                     [] OTHER -> @ - 1]
         ELSE /\ late' = [late EXCEPT ![r] = @ - 1]
              /\ UNCHANGED <<runtimes, backend>>
      /\ UNCHANGED <<closing, revoked, opener>>

\* Revoke and releaseBackend, outside the mutex.
BackendReleased(b) ==
  /\ backend[b] = "dropped"
  /\ backend' = [backend EXCEPT ![b] = "released"]
  /\ UNCHANGED <<runtimes, closing, revoked, opener, late>>

\* resourcelease.Service.Shutdown cancels every lease lifetime first.
RevokeLeases ==
  /\ ~revoked
  /\ revoked' = TRUE
  /\ opener' = [o \in Openers |->
                  IF InOpen(o) THEN [opener[o] EXCEPT !.ctx = "cancelled"]
                  ELSE opener[o]]
  /\ UNCHANGED <<runtimes, closing, backend, late>>

ShutdownDrops == {runtimes[r].acquired : r \in Resources} \ {0}

Shutdown ==
  /\ revoked
  /\ ~closing
  /\ closing' = TRUE
  /\ backend' = [b \in Backends |->
                   IF b \in ShutdownDrops THEN "dropped" ELSE backend[b]]
  /\ runtimes' = [r \in Resources |-> NoRuntime]
  /\ late' = [r \in Resources |-> 0]
  /\ UNCHANGED <<revoked, opener>>

McpNext ==
  \/ \E r \in Resources :
      \/ LeaseAcquired(r) \/ LeaseReleased(r) \/ RetryDue(r)
      \/ IdleDue(r) \/ ExpireIdle(r) \/ ExpireLate(r)
  \/ \E o \in Openers :
      \/ OpenBegin(o) \/ CancelContext(o) \/ JoinBackend(o) \/ Loop(o)
      \/ WaitCancelled(o) \/ BackoffElapsed(o) \/ StartSucceeds(o)
      \/ BackendStartFails(o) \/ Store(o) \/ OpenFails(o) \/ CloseStream(o)
  \/ \E b \in Backends : BackendReleased(b)
  \/ RevokeLeases
  \/ Shutdown

McpSpec == McpInit /\ [][McpNext]_mcpVars

----------------------------------------
(***************************************************************************)
(* Properties.                                                             *)
(***************************************************************************)

\* Every variable has its type and a deleted runtime keeps nothing.
McpTypeOK ==
  /\ runtimes \in [Resources -> Runtime]
  /\ \A r \in Resources : ~runtimes[r].present => runtimes[r] = NoRuntime
  /\ closing \in BOOLEAN /\ revoked \in BOOLEAN
  /\ opener \in [Openers -> Opener]
  /\ backend \in [Backends -> BackendStates]
  /\ late \in [Resources -> 0 .. MaxLate]

\* A stream that Open returned is served by a backend that was neither
\* revoked nor replaced, until the service shuts down: idle teardown, lease
\* release and the failures of other callers never cut it off.
StreamsKeepTheirBackend ==
  \A o \in Openers :
      opener[o].pc = "stream" /\ ~closing =>
          /\ backend[opener[o].got] = "live"
          /\ runtimes[opener[o].res].acquired = opener[o].got

\* First use coalesces concurrent startup: at most one caller is between
\* reserving current.starting and storing the result, and none is while a
\* backend is retained.
StartsAreCoalesced ==
  \A o \in Openers :
      opener[o].pc \in {"starting", "started"} /\ ~closing =>
          /\ runtimes[opener[o].res].starting = o
          /\ runtimes[opener[o].res].acquired = 0

\* Every started backend is retained by a runtime, in the hands of its
\* starter, or on its way to Release: no interleaving of startup, idle expiry,
\* final release and shutdown leaks one.
NoBackendIsLost ==
  \A b \in Backends :
      backend[b] = "live" =>
          \/ \E r \in Resources : runtimes[r].acquired = b
          \/ \E o \in Openers : opener[o].pc = "started" /\ opener[o].got = b

\* Whatever opens, closes, cancels and expires at once, an MCP resource has one
\* backend at a time, its streams keep it and nobody forgets it (Open, release).
BackendsAreShared == StreamsKeepTheirBackend /\ StartsAreCoalesced /\ NoBackendIsLost
=============================================================================
