----------------------------- MODULE HttpBridge -----------------------------
(***************************************************************************)
(* The bridge between a tool's stdio MCP stream and an MCP server over     *)
(* streamable HTTP (internal/mcpgateway/httpbridge): Serve and its three   *)
(* workers, the concurrent writes of the downstream relay, the calls that  *)
(* wait for an answer, and the standalone event stream with its            *)
(* reconnects.                                                             *)
(*                                                                         *)
(* The tool sends messages 1, 2, ...: the initialize call, the initialized *)
(* notification, then calls.  The MCP SDK and the HTTP server are          *)
(* external: a Write is dispatched when its request has been written,      *)
(* returns with the response headers, and its answer is read from the      *)
(* upstream connection; the server assigns a session with the first        *)
(* headers and replays events after the last one a client names.  It       *)
(* numbers its events and writes an event's id before its data; a stream   *)
(* ends between two lines.                                                 *)
(***************************************************************************)
EXTENDS Naturals, Sequences, FiniteSets

CONSTANTS MaxCalls,       \* calls after the initialization
          CallLimit,      \* maxOutstandingCalls
          WriteLimit,     \* maxConcurrentWrites
          MaxEvents,      \* events of the standalone stream
          MaxRetries      \* maximumConnectRetries

ASSUME BridgeAssumption ==
  /\ MaxCalls \in Nat /\ MaxEvents \in Nat /\ MaxRetries \in Nat
  /\ CallLimit \in Nat \ {0} /\ WriteLimit \in Nat \ {0}

Messages == 1 .. (MaxCalls + 2)
IsCall(m) == m # 2

VARIABLES serve,      \* Serve: its step and the context of its caller
          tool,       \* messages sent and the end of the tool's output
          reader,     \* relayDownstream
          writes,     \* Messages -> writeUpstream
          calls,      \* callTracker
          session,    \* sessionState
          server,     \* what the server has received and answered
          relayUp,    \* relayUpstream
          events,     \* receiveStandalone
          delivered   \* events written to the tool

bridgeVars == <<serve, tool, reader, writes, calls, session, server, relayUp, events, delivered>>

NewServe == [step |-> "serving", ctx |-> TRUE]
NewReader == [pc |-> "read", msg |-> 0, cause |-> FALSE]
NewSession == [initialized |-> FALSE, protocol |-> FALSE, id |-> FALSE]
NewServer == [received |-> <<>>, answers |-> <<>>, answered |-> {}]
NewEvents == [pc |-> "await", known |-> FALSE, last |-> 0, next |-> 0, failures |-> 0, opened |-> FALSE,
              cut |-> {}]  \* history: events that ended between their id and their data

BridgeInit ==
  /\ serve = NewServe
  /\ tool = [sent |-> 0, eof |-> FALSE]
  /\ reader = NewReader
  /\ writes = [m \in Messages |-> "none"]
  /\ calls = {}
  /\ session = NewSession
  /\ server = NewServer
  /\ relayUp = "read"
  /\ events = NewEvents
  /\ delivered = <<>>

Live == serve.step = "serving"
RelayLive == Live /\ ~reader.cause
InFlight == {m \in Messages : writes[m] \in {"started", "sending", "dispatched"}}
Ready == session.initialized /\ session.protocol

----------------------------------------
(* The tool.                                                               *)

ToolSends ==
  /\ ~tool.eof /\ tool.sent < MaxCalls + 2
  /\ tool' = [tool EXCEPT !.sent = @ + 1]
  /\ UNCHANGED <<serve, reader, writes, calls, session, server, relayUp, events, delivered>>

ToolEnds ==
  /\ ~tool.eof
  /\ tool' = [tool EXCEPT !.eof = TRUE]
  /\ UNCHANGED <<serve, reader, writes, calls, session, server, relayUp, events, delivered>>

----------------------------------------
(* relayDownstream.                                                        *)

\* The next message, the end of the tool's stream, or the end of the context.
ReadDownstream ==
  /\ reader.pc = "read"
  /\ \/ /\ RelayLive /\ reader.msg < tool.sent
        /\ reader' = [reader EXCEPT !.pc = "admit", !.msg = @ + 1]
     \/ /\ RelayLive /\ reader.msg = tool.sent /\ tool.eof
        /\ reader' = [reader EXCEPT !.pc = "drain"]
     \/ /\ ~RelayLive
        /\ reader' = [reader EXCEPT !.pc = "join", !.cause = TRUE]
  /\ UNCHANGED <<serve, tool, writes, calls, session, server, relayUp, events, delivered>>

\* Until the initialization is complete a message is written in the reader;
\* after that in a goroutine of its own, of which there is a limit.
AdmitWrite ==
  /\ reader.pc = "admit"
  /\ IF session.initialized /\ Cardinality(InFlight) >= WriteLimit
       THEN reader' = [reader EXCEPT !.pc = "join", !.cause = TRUE] /\ UNCHANGED writes
       ELSE /\ writes' = [writes EXCEPT ![reader.msg] = "started"]
            /\ reader' = [reader EXCEPT !.pc = IF session.initialized THEN "receipt" ELSE "written"]
  /\ UNCHANGED <<serve, tool, calls, session, server, relayUp, events, delivered>>

\* The receipt: the request was written, or its goroutine has ended.
Receipt ==
  /\ reader.pc = "receipt"
  /\ \/ writes[reader.msg] \in {"dispatched", "ok", "failed"} /\ reader' = [reader EXCEPT !.pc = "read"]
     \/ ~RelayLive /\ reader' = [reader EXCEPT !.pc = "join"]
  /\ UNCHANGED <<serve, tool, writes, calls, session, server, relayUp, events, delivered>>

\* The synchronous write of a message of the initialization.
Written ==
  /\ reader.pc = "written" /\ writes[reader.msg] \in {"ok", "failed"}
  /\ reader' = IF writes[reader.msg] = "ok" THEN [reader EXCEPT !.pc = "read"]
               ELSE [reader EXCEPT !.pc = "join", !.cause = TRUE]
  /\ UNCHANGED <<serve, tool, writes, calls, session, server, relayUp, events, delivered>>

\* drainRelayWrites: until the writes are done, the context ends or the timer
\* cancels it.
Drain ==
  /\ reader.pc = "drain" /\ (InFlight = {} \/ ~RelayLive)
  /\ reader' = [reader EXCEPT !.pc = "join", !.cause = TRUE]
  /\ UNCHANGED <<serve, tool, writes, calls, session, server, relayUp, events, delivered>>

DrainTimesOut ==
  /\ reader.pc = "drain"
  /\ reader' = [reader EXCEPT !.pc = "join", !.cause = TRUE]
  /\ UNCHANGED <<serve, tool, writes, calls, session, server, relayUp, events, delivered>>

\* The deferred cancel and the join of the writes.
ReaderReturns ==
  /\ reader.pc = "join" /\ InFlight = {}
  /\ reader' = [reader EXCEPT !.pc = "done", !.cause = TRUE]
  /\ UNCHANGED <<serve, tool, writes, calls, session, server, relayUp, events, delivered>>

----------------------------------------
(* writeUpstream.                                                          *)

\* A write that fails in its own goroutine cancels the relay.
Fails(m) ==
  /\ writes' = [writes EXCEPT ![m] = "failed"]
  /\ reader' = [reader EXCEPT !.cause = TRUE]

AcquireCall(m) ==
  /\ writes[m] = "started"
  /\ \/ /\ IsCall(m) /\ Cardinality(calls) < CallLimit
        /\ calls' = calls \cup {m} /\ writes' = [writes EXCEPT ![m] = "sending"] /\ UNCHANGED reader
     \/ ~IsCall(m) /\ writes' = [writes EXCEPT ![m] = "sending"] /\ UNCHANGED <<calls, reader>>
     \/ IsCall(m) /\ Cardinality(calls) >= CallLimit /\ Fails(m) /\ UNCHANGED calls
  /\ UNCHANGED <<serve, tool, session, server, relayUp, events, delivered>>

\* The transport has written the request and its body.
Dispatch(m) ==
  /\ writes[m] = "sending" /\ RelayLive
  /\ writes' = [writes EXCEPT ![m] = "dispatched"]
  /\ server' = [server EXCEPT !.received = Append(@, m)]
  /\ UNCHANGED <<serve, tool, reader, calls, session, relayUp, events, delivered>>

\* The response headers: the session and then the accepted notification.
Headers(m) ==
  /\ writes[m] = "dispatched"
  /\ writes' = [writes EXCEPT ![m] = "ok"]
  /\ session' = [session EXCEPT !.id = TRUE, !.initialized = @ \/ m = 2]
  /\ UNCHANGED <<serve, tool, reader, calls, server, relayUp, events, delivered>>

\* The request fails, or its context has ended: the call is given back.
WriteFails(m) ==
  /\ writes[m] \in {"sending", "dispatched"}
  /\ Fails(m)
  /\ calls' = calls \ {m}
  /\ UNCHANGED <<serve, tool, session, server, relayUp, events, delivered>>

----------------------------------------
(* The server and relayUpstream.                                           *)

ServerAnswers ==
  /\ \E i \in DOMAIN server.received :
       LET m == server.received[i] IN
         /\ IsCall(m) /\ m \notin server.answered
         /\ server' = [server EXCEPT !.answers = Append(@, m), !.answered = @ \cup {m}]
  /\ UNCHANGED <<serve, tool, reader, writes, calls, session, relayUp, events, delivered>>

\* observeUpstream, complete and the write to the tool; an unusable answer to
\* initialize, an oversized message or a failed read ends the relay.
RelayAnswer ==
  /\ relayUp = "read"
  /\ \/ /\ Live /\ server.answers # <<>>
        /\ server' = [server EXCEPT !.answers = Tail(@)]
        /\ calls' = calls \ {Head(server.answers)}
        /\ session' = [session EXCEPT !.protocol = @ \/ Head(server.answers) = 1]
        /\ UNCHANGED relayUp
     \/ ~Live /\ relayUp' = "done" /\ UNCHANGED <<server, calls, session>>
  /\ UNCHANGED <<serve, tool, reader, writes, events, delivered>>

UpstreamFails ==
  /\ relayUp = "read"
  /\ relayUp' = "done"
  /\ UNCHANGED <<serve, tool, reader, writes, calls, session, server, events, delivered>>

----------------------------------------
(* receiveStandalone.                                                      *)

AwaitReady ==
  /\ events.pc = "await"
  /\ \/ Ready /\ events' = [events EXCEPT !.pc = "open", !.known = session.id]
     \/ ~Live /\ events' = [events EXCEPT !.pc = "done"]
  /\ UNCHANGED <<serve, tool, reader, writes, calls, session, server, relayUp, delivered>>

\* Mutant: a reconnect starts over.
OpenFresh ==
  /\ events.pc = "open" /\ Live
  /\ events' = [events EXCEPT !.pc = "scan", !.next = 1, !.failures = 0, !.opened = TRUE]
  /\ UNCHANGED <<serve, tool, reader, writes, calls, session, server, relayUp, delivered>>

\* The event stream opens behind the last event; the server has none; the
\* connection fails and is tried again, up to a limit; or the status is final.
OpenStandalone ==
  /\ events.pc = "open"
  /\ \/ /\ Live
        /\ \/ events' = [events EXCEPT !.pc = "scan", !.next = events.last + 1, !.failures = 0, !.opened = TRUE]
           \/ events' = [events EXCEPT !.pc = "done"]
           \/ events' = [events EXCEPT !.pc = "error"]
           \/ events' = IF events.failures < MaxRetries
                          THEN [events EXCEPT !.pc = "retry", !.failures = @ + 1]
                          ELSE [events EXCEPT !.pc = "error"]
     \/ ~Live /\ events' = [events EXCEPT !.pc = "done"]
  /\ UNCHANGED <<serve, tool, reader, writes, calls, session, server, relayUp, delivered>>

\* One event: the cursor moves, then the message is written to the tool.
ScanEvent ==
  /\ events.pc = "scan" /\ Live /\ events.next <= MaxEvents
  /\ events' = [events EXCEPT !.last = events.next, !.next = @ + 1]
  /\ delivered' = Append(delivered, events.next)
  /\ UNCHANGED <<serve, tool, reader, writes, calls, session, server, relayUp>>

\* The stream breaks, or ends and is opened again.  The end dispatches what it
\* has read: an id without its data moves the cursor and delivers nothing.
ScanEnds ==
  /\ events.pc = "scan"
  /\ \E c \in {{}, {events.next}} :
       /\ c \subseteq 1 .. MaxEvents
       /\ events' = [events EXCEPT !.pc = IF Live THEN "retry" ELSE "done", !.next = 0,
                                   !.last = IF c = {} THEN @ ELSE events.next, !.cut = @ \cup c]
  /\ UNCHANGED <<serve, tool, reader, writes, calls, session, server, relayUp, delivered>>

\* An event that is no message or too large ends the bridge.
ScanFails ==
  /\ events.pc = "scan" /\ Live
  /\ events' = [events EXCEPT !.next = 0, !.pc = "error"]
  /\ UNCHANGED <<serve, tool, reader, writes, calls, session, server, relayUp, delivered>>

EventRetry ==
  /\ events.pc = "retry"
  /\ events' = [events EXCEPT !.pc = IF Live THEN "open" ELSE "done"]
  /\ UNCHANGED <<serve, tool, reader, writes, calls, session, server, relayUp, delivered>>

----------------------------------------
(* Serve.                                                                  *)

CallerEnds ==
  /\ serve.ctx
  /\ serve' = [serve EXCEPT !.ctx = FALSE]
  /\ UNCHANGED <<tool, reader, writes, calls, session, server, relayUp, events, delivered>>

\* The first result, or the end of the caller's context, cancels the rest.
ServeSelects ==
  /\ Live /\ (~serve.ctx \/ reader.pc = "done" \/ relayUp = "done" \/ events.pc = "error")
  /\ serve' = [serve EXCEPT !.step = "closing"]
  /\ UNCHANGED <<tool, reader, writes, calls, session, server, relayUp, events, delivered>>

ServeReturns ==
  /\ serve.step = "closing"
  /\ reader.pc = "done" /\ relayUp = "done" /\ events.pc \in {"done", "error"}
  /\ serve' = [serve EXCEPT !.step = "returned"]
  /\ UNCHANGED <<tool, reader, writes, calls, session, server, relayUp, events, delivered>>

----------------------------------------
ReaderStep == ReadDownstream \/ AdmitWrite \/ Receipt \/ Written \/ Drain \/ ReaderReturns
ServeStep == ServeSelects \/ ServeReturns

BridgeNext ==
  \/ ToolSends \/ ToolEnds \/ ReaderStep \/ DrainTimesOut \/ ServerAnswers \/ RelayAnswer \/ UpstreamFails
  \/ AwaitReady \/ OpenStandalone \/ EventRetry \/ ScanEvent \/ ScanEnds \/ ScanFails
  \/ CallerEnds \/ ServeStep
  \/ \E m \in Messages : AcquireCall(m) \/ Dispatch(m) \/ Headers(m) \/ WriteFails(m)

BridgeSpec == BridgeInit /\ [][BridgeNext]_bridgeVars

----------------------------------------
(* Properties.                                                             *)

\* "This preserves source dispatch order": although every message is written
\* in a goroutine of its own, the server gets them in the tool's order.
DispatchKeepsOrder ==
  \A i, j \in DOMAIN server.received : i < j => server.received[i] < server.received[j]

\* The event stream is opened with the session the server assigned: it waits
\* for the answer to initialize and for the accepted notification, which two
\* workers see in either order.
EventsJoinTheSession == events.pc \notin {"await", "done"} => events.known

\* The tool gets in order, and once, every event the cursor has passed, however
\* often the stream breaks and is resumed.  The code loses those, and only those,
\* whose stream ended after the id and before the data: they are not asked for again.
EventsArriveOnce ==
  /\ \A i, j \in DOMAIN delivered : i < j => delivered[i] < delivered[j]
  /\ {delivered[i] : i \in DOMAIN delivered} = (1 .. events.last) \ events.cut

\* What the tool and the server exchange stays in order over the workers, the
\* retries and the resumed streams of the bridge.
ExchangeIsOrdered == DispatchKeepsOrder /\ EventsJoinTheSession /\ EventsArriveOnce
=============================================================================
