----------------------------- MODULE AgentServer -----------------------------
(***************************************************************************)
(* The per-user agent (internal/agent, internal/agent/server) over its     *)
(* lease registry: client sessions and the leases they own, the RPCs that  *)
(* acquire, release and stream, the idle check of an agent that is not     *)
(* persistent, and the graceful stop that ends with the shutdown of the    *)
(* registry.  An action is one critical section of a mutex or one step     *)
(* between two of them.                                                    *)
(*                                                                         *)
(* The client, gRPC and the runtimes of the resource handlers are external *)
(* and may do whatever their interfaces allow.                             *)
(***************************************************************************)
EXTENDS LeaseRegistry

CONSTANTS
    Sessions,    \* protocol.SessionID: every OpenSession draws a fresh one
    Calls,       \* RPCs of the agent API
    Persistent   \* ServeOptions.Persistent

ASSUME AgentAssumption ==
  /\ None \notin Sessions
  /\ Persistent \in BOOLEAN

VARIABLES
    server,     \* state, observedSession, activityVersion and streams
    transport,  \* the gRPC server
    session,    \* every agentSession, with the goroutine of its OpenSession
    call,       \* every other RPC
    idle,       \* the goroutine of stopWhenIdle
    stop,       \* gracefulStop
    warm        \* configurations whose runtime a handler retains

agentVars == <<server, transport, session, call, idle, stop, warm>>
vars == <<leaseVars, agentVars>>

----------------------------------------

\* A session is in s.sessions from "registered" to "closing" and closed from
\* "closing" on.  releasing are the leases close hands to releaseDetached.
Session ==
  [step : {"unused", "registered", "open", "ending", "closing", "gone"},
   cancelled : BOOLEAN, leases : SUBSET Leases, released : SUBSET Leases,
   releasing : SUBSET Leases, stopping : {"none", "asked", "done"}]

NewSession ==
  [step |-> "unused", cancelled |-> FALSE, leases |-> {}, released |-> {},
   releasing |-> {}, stopping |-> "none"]

Call ==
  [step : {"unused", "resolving", "registered", "adding", "undo",
           "taking", "releasing", "checking", "beginning", "opening",
           "starting", "opened", "announcing", "serving", "finishing", "done"},
   session : Sessions \cup {None}, lease : Leases \cup {None}]

Registered(s) == session[s].step \in {"registered", "open", "ending", "closing"}
Closed(s) == session[s].step \in {"closing", "gone"}

\* RPCs between beginStream and finishStream.
Streaming(o) ==
  call[o].step \in {"opening", "starting", "opened", "announcing", "serving", "finishing"}

Init ==
  /\ LeaseInit
  /\ server = [state |-> "ready", observed |-> FALSE, version |-> 0, streams |-> 0]
  /\ transport = "serving"
  /\ session = [s \in Sessions |-> NewSession]
  /\ call = [o \in Calls |-> [step |-> "unused", session |-> None, lease |-> None]]
  /\ idle = [step |-> "waiting", version |-> 0, busy |-> FALSE, expired |-> FALSE]
  /\ stop = [step |-> "none", asked |-> {}, by |-> "nobody", sessions |-> {}, late |-> FALSE]
  /\ warm = {}

SetSession(s, c) == session' = [session EXCEPT ![s] = c]
Goto(o, step) == call' = [call EXCEPT ![o].step = step]
Active(v) == [v EXCEPT !.version = @ + 1]

----------------------------------------
\* Sessions.

\* Mutant: sessions are accepted while the agent stops.
AcceptsAlways == TRUE

Accepts == server.state = "ready"

\* registerSession; a refused OpenSession returns an error.
RegisterSession(s) ==
  /\ session[s].step = "unused"
  /\ transport # "drained"
  /\ IF Accepts
     THEN /\ SetSession(s, [session[s] EXCEPT !.step = "registered"])
          /\ server' = Active([server EXCEPT !.observed = TRUE])
     ELSE /\ SetSession(s, [session[s] EXCEPT !.step = "gone"])
          /\ UNCHANGED server
  /\ UNCHANGED <<leaseVars, transport, call, idle, stop, warm>>

\* The host-action caller is activated and the client told its session.
OpenSession(s) ==
  /\ session[s].step = "registered"
  /\ ~session[s].cancelled /\ transport # "cut"
  /\ SetSession(s, [session[s] EXCEPT !.step = "open"])
  /\ UNCHANGED <<leaseVars, server, transport, call, idle, stop, warm>>

\* The reply cannot be sent, because the client is gone or the session
\* cancelled; or Recv returns EOF, an error, or any message once the session is
\* cancelled; or receive refuses the message.
SessionEnds(s) ==
  /\ session[s].step \in {"registered", "open"}
  /\ SetSession(s, [session[s] EXCEPT !.step = "ending"])
  /\ UNCHANGED <<leaseVars, server, transport, call, idle, stop, warm>>

\* acknowledgeStopping.
Acknowledge(s) ==
  /\ session[s].step = "open"
  /\ ~session[s].cancelled
  /\ session[s].stopping = "asked"
  /\ SetSession(s, [session[s] EXCEPT !.stopping = "done"])
  /\ UNCHANGED <<leaseVars, server, transport, call, idle, stop, warm>>

\* agentSession.close, up to the goroutines that release the leases.
ClosedSession(c) ==
  [c EXCEPT !.step = "closing", !.cancelled = TRUE,
            !.releasing = c.leases, !.leases = {},
            !.stopping = IF @ = "asked" THEN "done" ELSE @]

CloseSession(s) ==
  /\ session[s].step = "ending"
  /\ SetSession(s, ClosedSession(session[s]))
  /\ UNCHANGED <<leaseVars, server, transport, call, idle, stop, warm>>

\* releaseDetached, a goroutine for every lease.
ReleaseDetached(s, l) ==
  /\ l \in session[s].releasing
  /\ \/ lease[l].step = "held" /\ Release(l)
     \/ NotifyReleased(l)
  /\ UNCHANGED agentVars

\* close returns when the releases are done or its timeout expires, and
\* unregisterSession follows.
UnregisterSession(s) ==
  /\ session[s].step = "closing"
  /\ SetSession(s, [session[s] EXCEPT !.step = "gone"])
  /\ server' = Active(server)
  /\ UNCHANGED <<leaseVars, transport, call, idle, stop, warm>>

----------------------------------------
\* RPCs.  An RPC names a session and, to release or stream, a lease.

\* requestSession.
Begin(o, s, step, l) ==
  /\ call[o].step = "unused"
  /\ transport # "drained"
  /\ session[s].step \in {"open", "ending"}
  /\ call' = [call EXCEPT ![o] = [step |-> step, session |-> s, lease |-> l]]
  /\ UNCHANGED <<leaseVars, server, transport, session, idle, stop, warm>>

\* A client uses leases it was given, by this session or another one.
Given(l) == \E s \in Sessions : l \in session[s].leases \cup session[s].released

BeginAcquire(o, s) == Begin(o, s, "resolving", None)
BeginRelease(o, s, l) == Given(l) /\ Begin(o, s, "taking", l)
BeginStream(o, s, l) == Given(l) /\ Begin(o, s, "checking", l)

\* The resolver fails, or the registry refuses the acquisition.
AcquireFails(o) ==
  /\ call[o].step = "resolving"
  /\ Goto(o, "done")
  /\ UNCHANGED <<leaseVars, server, transport, session, idle, stop, warm>>

Acquire(o, l, r) ==
  /\ call[o].step = "resolving"
  /\ AcquireResource(l, r)
  /\ call' = [call EXCEPT ![o].step = "registered", ![o].lease = l]
  /\ UNCHANGED <<server, transport, session, idle, stop, warm>>

Acquired(o) ==
  /\ call[o].step = "registered"
  /\ NotifyAcquired(call[o].lease)
  /\ Goto(o, "adding")
  /\ UNCHANGED <<server, transport, session, idle, stop, warm>>

\* Mutant: a lease is added to a session that is closed.
RetainsAlways(s) == TRUE

\* addLease refuses a closed session.
Retains(s) == ~Closed(s)

AddLease(o) ==
  LET s == call[o].session IN
  /\ call[o].step = "adding"
  /\ IF Retains(s)
     THEN /\ SetSession(s, [session[s] EXCEPT !.leases = @ \cup {call[o].lease}])
          /\ Goto(o, "done")
     ELSE /\ Goto(o, "undo")
          /\ UNCHANGED session
  /\ UNCHANGED <<leaseVars, server, transport, idle, stop, warm>>

Taken(c, l) == [c EXCEPT !.leases = @ \ {l}, !.released = @ \cup {l}]

\* takeLease: a lease the session does not own is refused, one it released
\* already is acknowledged again.
TakeLease(o) ==
  LET s == call[o].session
      l == call[o].lease IN
  /\ call[o].step = "taking"
  /\ IF l \in session[s].leases
     THEN /\ SetSession(s, Taken(session[s], l))
          /\ Goto(o, "releasing")
     ELSE /\ Goto(o, "done")
          /\ UNCHANGED session
  /\ UNCHANGED <<leaseVars, server, transport, idle, stop, warm>>

\* lease.Release in ReleaseResource, or after addLease refused.
ReleaseLease(o) ==
  /\ call[o].step \in {"undo", "releasing"}
  /\ \/ lease[call[o].lease].step = "held" /\ Release(call[o].lease) /\ UNCHANGED call
     \/ NotifyReleased(call[o].lease) /\ UNCHANGED call
     \/ /\ lease[call[o].lease].step = "released"
        /\ Goto(o, "done")
        /\ UNCHANGED leaseVars
  /\ UNCHANGED <<server, transport, session, idle, stop, warm>>

\* ownsLease.
Owns(o) == ~Closed(call[o].session) /\ call[o].lease \in session[call[o].session].leases

\* requireLease, which lets go of the session's mutex when it returns.
CheckLease(o) ==
  /\ call[o].step = "checking"
  /\ Goto(o, IF Owns(o) THEN "beginning" ELSE "done")
  /\ UNCHANGED <<leaseVars, server, transport, session, idle, stop, warm>>

Started(v) == Active([v EXCEPT !.streams = @ + 1])

\* beginStream.
StreamBegins(o) ==
  /\ call[o].step = "beginning"
  /\ Goto(o, "opening")
  /\ server' = Started(server)
  /\ UNCHANGED <<leaseVars, transport, session, idle, stop, warm>>

\* OpenResource finds the lease and calls the handler.
OpenResource(o) ==
  /\ call[o].step = "opening"
  /\ Goto(o, IF Lookup(call[o].lease) = None THEN "finishing" ELSE "starting")
  /\ UNCHANGED <<leaseVars, server, transport, session, idle, stop, warm>>

\* The handler starts or joins the runtime.
HandlerOpens(o) ==
  /\ call[o].step = "starting"
  /\ Goto(o, "opened")
  /\ warm' = warm \cup {lease[call[o].lease].of}
  /\ UNCHANGED <<leaseVars, server, transport, session, idle, stop>>

\* The handler fails, or the RPC or the lease is cancelled while it opens.
HandlerFails(o) ==
  /\ call[o].step = "starting"
  /\ Goto(o, "finishing")
  /\ UNCHANGED <<leaseVars, server, transport, session, idle, stop, warm>>

StillOwns(o) == Owns(o)

\* connectBytes checks the lease again once the handler has opened the runtime,
\* and lets go of the session's mutex.
CheckAgain(o) ==
  /\ call[o].step = "opened"
  /\ Goto(o, IF StillOwns(o) THEN "announcing" ELSE "finishing")
  /\ UNCHANGED <<leaseVars, server, transport, session, idle, stop, warm>>

\* ready announces the stream to the client, or fails.
Ready(o) ==
  /\ call[o].step = "announcing"
  /\ \/ transport # "cut" /\ Goto(o, "serving")
     \/ Goto(o, "finishing")
  /\ UNCHANGED <<leaseVars, server, transport, session, idle, stop, warm>>

\* The client or the backend ends the stream.
StreamEnds(o) ==
  /\ call[o].step = "serving"
  /\ Goto(o, "finishing")
  /\ UNCHANGED <<leaseVars, server, transport, session, idle, stop, warm>>

\* finishStream.
FinishStream(o) ==
  /\ call[o].step = "finishing"
  /\ Goto(o, "done")
  /\ server' = Active([server EXCEPT !.streams = @ - 1])
  /\ UNCHANGED <<leaseVars, transport, session, idle, stop, warm>>

\* A handler lets go of a runtime that no stream uses.
RuntimeEnds(r) ==
  /\ r \in warm
  /\ \A o \in Calls : call[o].step \in {"opened", "announcing", "serving"} =>
       lease[call[o].lease].of # r
  /\ warm' = warm \ {r}
  /\ UNCHANGED <<leaseVars, server, transport, session, call, idle, stop>>

----------------------------------------
\* The idle check.

Deserted == /\ server.state = "ready"
            /\ \A s \in Sessions : ~Registered(s)
            /\ server.streams = 0

\* The startup grace of an agent that no client has connected to is over.
StartupExpires ==
  /\ ~Persistent /\ ~server.observed /\ ~idle.expired
  /\ idle' = [idle EXCEPT !.expired = TRUE]
  /\ UNCHANGED <<leaseVars, server, transport, session, call, stop, warm>>

\* stopIfIdle up to its first unlock.
IdleCheck ==
  /\ ~Persistent
  /\ idle.step = "waiting"
  /\ server.observed \/ idle.expired
  /\ Deserted
  /\ idle' = [idle EXCEPT !.step = "leases", !.version = server.version]
  /\ UNCHANGED <<leaseVars, server, transport, session, call, stop, warm>>

\* ResourceSnapshot reads the registry, then the handlers.
IdleLeases ==
  /\ idle.step = "leases"
  /\ idle' = [idle EXCEPT !.step = "runtimes", !.busy = \E l \in Leases : Live(l)]
  /\ UNCHANGED <<leaseVars, server, transport, session, call, stop, warm>>

IdleRuntimes ==
  /\ idle.step = "runtimes"
  /\ idle' = [idle EXCEPT !.step = "deciding", !.busy = @ \/ warm # {}]
  /\ UNCHANGED <<leaseVars, server, transport, session, call, stop, warm>>

\* Mutant: activity between the two checks goes unnoticed.
QuietSinceUnchecked == TRUE

QuietSince == server.version = idle.version

\* The second check; gracefulStop runs in a goroutine of its own.
IdleDecide ==
  /\ idle.step = "deciding"
  /\ IF Deserted /\ QuietSince /\ ~idle.busy
     THEN /\ idle' = [idle EXCEPT !.step = "decided"]
          /\ stop' = [stop EXCEPT !.asked = @ \cup {"idle"}]
     ELSE /\ idle' = [idle EXCEPT !.step = "waiting", !.version = 0, !.busy = FALSE]
          /\ UNCHANGED stop
  /\ UNCHANGED <<leaseVars, server, transport, session, call, warm>>

----------------------------------------
\* Stopping.

\* The Stop RPC of an open session, or the end of Serve's context.
StopAsked ==
  /\ stop.step = "none"
  /\ "request" \notin stop.asked
  /\ stop' = [stop EXCEPT !.asked = @ \cup {"request"}]
  /\ UNCHANGED <<leaseVars, server, transport, session, call, idle, warm>>

\* beginShutdown, by the goroutine that shutdownOnce lets run.
BeginShutdown(by) ==
  /\ stop.step = "none"
  /\ by \in stop.asked
  /\ stop' = [stop EXCEPT !.step = "asking", !.by = by,
                          !.sessions = {s \in Sessions : Registered(s)}]
  /\ server' = [server EXCEPT !.state = "stopping"]
  /\ UNCHANGED <<leaseVars, transport, session, call, idle, warm>>

\* requestStopping, one goroutine for every session; the request cannot be
\* sent to a session that is cancelled.
RequestStopping(s, sent) ==
  /\ stop.step \in {"asking", "draining"}
  /\ s \in stop.sessions
  /\ session[s].stopping = "none"
  /\ sent => ~Closed(s) /\ ~session[s].cancelled /\ transport # "cut"
  /\ SetSession(s, [session[s] EXCEPT !.stopping = IF sent THEN "asked" ELSE "done"])
  /\ UNCHANGED <<leaseVars, server, transport, call, idle, stop, warm>>

\* ClientShutdownGrace expires.
GraceExpires ==
  /\ stop.step = "asking"
  /\ ~stop.late
  /\ stop' = [stop EXCEPT !.late = TRUE]
  /\ UNCHANGED <<leaseVars, server, transport, session, call, idle, warm>>

ClientsDone == \A s \in stop.sessions : session[s].stopping = "done"

\* The wait for the clients ends, their sessions are cancelled and GracefulStop
\* starts to drain the transport.
CancelSessions ==
  /\ stop.step = "asking"
  /\ ClientsDone \/ stop.late
  /\ stop' = [stop EXCEPT !.step = "draining"]
  /\ session' = [s \in Sessions |->
                   IF s \in stop.sessions
                   THEN [session[s] EXCEPT !.cancelled = TRUE]
                   ELSE session[s]]
  /\ transport' = "draining"
  /\ UNCHANGED <<leaseVars, server, call, idle, warm>>

\* GracefulStop returns once every handler has.
Drained ==
  /\ transport = "draining"
  /\ \A s \in Sessions : session[s].step \in {"unused", "gone"}
  /\ \A o \in Calls : call[o].step \in {"unused", "done"}
  /\ transport' = "drained"
  /\ UNCHANGED <<leaseVars, server, session, call, idle, stop, warm>>

\* Mutant: the drain is not bounded.
TransportCutNever ==
  FALSE /\ UNCHANGED vars

\* TransportShutdownGrace expires: Stop cancels every RPC and waits for none.
TransportCut ==
  /\ transport = "draining"
  /\ transport' = "cut"
  /\ UNCHANGED <<leaseVars, server, session, call, idle, stop, warm>>

\* grpcServer.Serve returns when the transport has stopped.
ServeReturned == transport \in {"drained", "cut"}

\* shutdownResources.
ShutdownResources ==
  /\ ServeReturned
  /\ Shutdown
  /\ UNCHANGED agentVars

----------------------------------------

SessionStep(s) ==
  \/ OpenSession(s)
  \/ CloseSession(s) \/ (\E l \in Leases : ReleaseDetached(s, l)) \/ UnregisterSession(s)

ClientStep ==
  \/ \E s \in Sessions : RegisterSession(s) \/ SessionEnds(s) \/ Acknowledge(s)
  \/ \E o \in Calls, s \in Sessions :
       \/ BeginAcquire(o, s)
       \/ \E l \in Leases : BeginRelease(o, s, l) \/ BeginStream(o, s, l)
  \/ \E o \in Calls : StreamEnds(o)
  \/ StopAsked

CallStep(o) ==
  \/ AcquireFails(o) \/ (\E l \in Leases, r \in Resolved : Acquire(o, l, r))
  \/ Acquired(o) \/ AddLease(o) \/ TakeLease(o) \/ ReleaseLease(o)
  \/ CheckLease(o) \/ StreamBegins(o)
  \/ OpenResource(o) \/ HandlerOpens(o) \/ HandlerFails(o)
  \/ CheckAgain(o) \/ Ready(o) \/ FinishStream(o)

IdleStep == StartupExpires \/ IdleCheck \/ IdleLeases \/ IdleRuntimes \/ IdleDecide

StopStep ==
  \/ \E by \in {"idle", "request"} : BeginShutdown(by)
  \/ \E s \in Sessions, sent \in BOOLEAN : RequestStopping(s, sent)
  \/ GraceExpires \/ CancelSessions \/ Drained \/ TransportCut
  \/ ShutdownResources

Next ==
  \/ ClientStep
  \/ \E s \in Sessions : SessionStep(s)
  \/ \E o \in Calls : CallStep(o)
  \/ \E r \in Resolved : RuntimeEnds(r)
  \/ IdleStep
  \/ StopStep

Spec == Init /\ [][Next]_vars

\* The server's goroutines run and its timers fire; once the transport is cut,
\* Recv and Serve fail in the handlers.  Clients owe nothing.
Fairness ==
  /\ \A s \in Sessions :
       /\ WF_vars(OpenSession(s)) /\ WF_vars(CloseSession(s))
       /\ WF_vars(UnregisterSession(s))
       /\ WF_vars(SessionEnds(s) /\ transport = "cut")
       /\ WF_vars(\E sent \in BOOLEAN : RequestStopping(s, sent))
       /\ \A l \in Leases : WF_vars(ReleaseDetached(s, l))
  /\ \A o \in Calls :
       WF_vars(CallStep(o)) /\ WF_vars(StreamEnds(o) /\ transport = "cut")
  /\ WF_vars(StartupExpires) /\ WF_vars(IdleCheck) /\ WF_vars(IdleLeases \/ IdleRuntimes \/ IdleDecide)
  /\ WF_vars(\E by \in {"idle", "request"} : BeginShutdown(by))
  /\ WF_vars(GraceExpires) /\ WF_vars(CancelSessions)
  /\ WF_vars(Drained \/ TransportCut) /\ WF_vars(ShutdownResources)

LiveSpec == Spec /\ Fairness

----------------------------------------

TypeOK ==
  /\ LeaseTypeOK
  /\ server \in [state : {"ready", "stopping"}, observed : BOOLEAN,
                 version : Nat, streams : Nat]
  /\ transport \in {"serving", "draining", "drained", "cut"}
  /\ session \in [Sessions -> Session]
  /\ call \in [Calls -> Call]
  /\ idle \in [step : {"waiting", "leases", "runtimes", "deciding", "decided"},
               version : Nat, busy : BOOLEAN, expired : BOOLEAN]
  /\ stop \in [step : {"none", "asking", "draining"},
               asked : SUBSET {"idle", "request"},
               by : {"nobody", "idle", "request"},
               sessions : SUBSET Sessions, late : BOOLEAN]
  /\ warm \subseteq Resolved

\* The parties that are responsible for releasing lease l.
Owners(l) ==
  {s \in Sessions : ~Closed(s) /\ l \in session[s].leases}
  \cup {s \in Sessions : l \in session[s].releasing}
  \cup {o \in Calls : call[o].lease = l /\
          call[o].step \in {"registered", "adding", "undo", "releasing"}}

\* A live lease has exactly one party that will release it: an open session, a
\* closing one, or the RPC that has it in hand.  No disconnect in the middle of
\* an RPC leaks a lease or gives it to two parties.
LeasesHaveOneOwner ==
  \A l \in Leases : Live(l) => Cardinality(Owners(l)) = 1

\* The session that asked for a stream gave its lease back.
GaveUp(o) ==
  LET s == call[o].session IN Closed(s) \/ call[o].lease \in session[s].released

\* A stream passes its second check only under a lease that is still live,
\* although leases are released and sessions close while the handler opens.
\* From there to the announcement no lock is held: a stream may start after its
\* lease is gone, but then its own session gave the lease back in between, and
\* neither another party nor the shutdown of the resources took it.
StreamsStartUnderALease ==
  [][\A o \in Calls :
       /\ call[o].step = "opened" /\ call'[o].step = "announcing"
            => Live(call[o].lease) \/ closing
       /\ call[o].step = "announcing" /\ call'[o].step = "serving"
            => Live(call[o].lease) \/ GaveUp(o)]_vars

\* When the agent decides that it is idle, it has no session, no stream and no
\* retained runtime, and a live lease can only be one that an RPC of a session
\* that is gone is about to give back.
IdleMeansUnused ==
  [][idle.step # "decided" /\ idle'.step = "decided" =>
       /\ \A s \in Sessions : ~Registered(s)
       /\ \A o \in Calls : ~Streaming(o)
       /\ warm = {}
       /\ \A l \in Leases : Live(l) =>
            \E o \in Calls : call[o].lease = l /\ call[o].step \in {"registered", "adding", "undo"}
    ]_vars

\* What the agent found before it let go of a lock is looked at again before it
\* acts on it: the lease of a stream the handler took its time to open, and that
\* nobody uses the agent when it decides to stop (connectBytes, stopWhenIdle).
DecisionsAreCurrent == StreamsStartUnderALease /\ IdleMeansUnused

\* A stopping agent knows every session that is registered, so each of them is
\* asked to stop.
NoSessionMissesTheStop ==
  server.state = "stopping" => \A s \in Sessions : Registered(s) => s \in stop.sessions

\* A session of a stopping agent stays usable for cleanup until its client has
\* acknowledged the stop or the grace period is over, whatever other clients do.
ClientsKeepTheirGrace ==
  \A s \in stop.sessions :
    session[s].step = "open" /\ session[s].cancelled /\ ~stop.late
      => session[s].stopping = "done"

\* A graceful stop reaches every client and cuts none of them off early
\* (gracefulStop, registerSession).
StopsAreOrderly == NoSessionMissesTheStop /\ ClientsKeepTheirGrace

\* An agent that was asked to stop, or decided to, shuts its resources down.
StopsComplete == stop.asked # {} ~> closing

\* An agent that stays unused stops by itself.
IdleAgentsStop ==
  <>[](/\ \A s \in Sessions : ~Registered(s)
       /\ \A o \in Calls : call[o].step \in {"unused", "done"}
       /\ \A l \in Leases : ~Live(l)
       /\ warm = {})
    => <>(stop.asked # {})

\* The agent lets go: of everything once it is asked to stop, and of itself once
\* nobody uses it (gracefulStop, stopWhenIdle).
AgentProgresses == StopsComplete /\ IdleAgentsStop
=============================================================================
