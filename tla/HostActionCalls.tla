--------------------------- MODULE HostActionCalls ---------------------------
(***************************************************************************)
(* One agent session seen from both ends: the stream that                  *)
(* internal/agent/server opens for a client, the calls the agent makes     *)
(* over it (host_action_caller.go), the client that answers them           *)
(* (internal/agent/client), and the stopping handshake.  The stream is     *)
(* ordered and reliable until it breaks; what is in flight then may still  *)
(* arrive, and is lost when its reader stops.  An action is one critical   *)
(* section of a mutex or one step between two of them.                     *)
(***************************************************************************)
EXTENDS Naturals, Sequences, FiniteSets

CONSTANTS
    Calls,      \* correlation ids of the agent's calls
    MaxActions  \* options.MaxHostActionCalls of the client

ASSUME CallsAssumption == IsFiniteSet(Calls) /\ MaxActions \in Nat

VARIABLES
    server,    \* OpenSession of the agent, with its hostActionCaller
    call,      \* every hostActionCaller.Call
    client,    \* the AgentSession, with its reader and CloseContext
    action,    \* every runHostAction of the client
    permits,   \* tokens in hostActionPermits
    up,        \* the stream is up
    toClient,  \* messages on their way
    toServer

callVars == <<server, call, client, action, permits, up, toClient, toServer>>

----------------------------------------

Msg == [kind : {"opened", "request", "cancel", "shutdown",
                "response", "refusal", "stopped"},
        id : Calls \cup {"session"}]

\* stopping is stoppingID with stoppingDone.
Server ==
  [step : {"none", "registered", "activated", "open", "closing", "revoking", "ended"},
   active : BOOLEAN, revoked : BOOLEAN, pending : SUBSET Calls,
   stopping : {"none", "asking", "asked", "done"}]

\* got is the outcome the agent's call returns.
Call == [step : {"idle", "sending", "waiting", "cancelling", "done"},
         outcome : {"none", "ran", "refused"},
         got : {"none", "ran", "refused", "cancelled", "closed"}]

Client ==
  [reader : {"opening", "reading", "marking", "done", "failed", "gone"},
   notice : BOOLEAN, acked : BOOLEAN,
   close : {"no", "reader", "handlers", "closed"}]

\* The steps of runHostAction.
Action == [step : {"none", "running", "writing", "releasing"},
           cancelled : BOOLEAN]

CallsInit ==
  /\ server = [step |-> "none", active |-> FALSE, revoked |-> FALSE,
               pending |-> {}, stopping |-> "none"]
  /\ call = [c \in Calls |-> [step |-> "idle", outcome |-> "none", got |-> "none"]]
  /\ client = [reader |-> "opening", notice |-> FALSE, acked |-> FALSE,
               close |-> "no"]
  /\ action = [c \in Calls |-> [step |-> "none", cancelled |-> FALSE]]
  /\ permits = 0
  /\ up = TRUE
  /\ toClient = <<>> /\ toServer = <<>>

SetCall(c, step, got) == call' = [call EXCEPT ![c].step = step, ![c].got = got]

\* Send fails once the stream is down or the session's context is done.
Sendable == up /\ server.step \in {"registered", "activated", "open", "closing"}

SendClient(kind, id) == toClient' = Append(toClient, [kind |-> kind, id |-> id])
SendServer(kind, id) ==
  toServer' = IF up THEN Append(toServer, [kind |-> kind, id |-> id]) ELSE toServer

----------------------------------------
\* The agent's end of the session.

\* OpenSession registers the session of a stream that a client opened.
RegisterSession ==
  /\ server.step = "none"
  /\ server' = [server EXCEPT !.step = "registered"]
  /\ UNCHANGED <<call, client, action, permits, up, toClient, toServer>>

\* caller.activate.
Activate ==
  /\ server.step = "registered"
  /\ server' = [server EXCEPT !.step = "activated", !.active = TRUE]
  /\ UNCHANGED <<call, client, action, permits, up, toClient, toServer>>

\* The answer to the client's open; a send that fails ends the session.
SendOpened ==
  /\ server.step = "activated"
  /\ \/ up /\ SendClient("opened", "session")
        /\ server' = [server EXCEPT !.step = "open"]
     \/ ~up /\ server' = [server EXCEPT !.step = "closing"] /\ UNCHANGED toClient
  /\ UNCHANGED <<call, client, action, permits, up, toServer>>

\* deliver: the pending channel gets the outcome, a late one is dropped.
Deliver(c, outcome) ==
  /\ server' = [server EXCEPT !.pending = @ \ {c}]
  /\ call' = IF c \in server.pending THEN [call EXCEPT ![c].outcome = outcome] ELSE call

\* acknowledgeStopping refuses what was not asked for.
Acknowledged(s) ==
  IF s.stopping = "none" THEN [s EXCEPT !.step = "closing"]
                         ELSE [s EXCEPT !.stopping = "done"]

\* session.receive.
ServerReceives ==
  /\ server.step = "open"
  /\ toServer # <<>>
  /\ toServer' = Tail(toServer)
  /\ LET m == Head(toServer) IN
     \/ m.kind = "response" /\ Deliver(m.id, "ran")
     \/ m.kind = "refusal" /\ Deliver(m.id, "refused")
     \/ m.kind = "stopped" /\ server' = Acknowledged(server) /\ UNCHANGED call
  /\ UNCHANGED <<client, action, permits, up, toClient>>

\* Recv fails or the session's context is done.
ServerEnds ==
  /\ server.step = "open"
  /\ ~up
  /\ server' = [server EXCEPT !.step = "closing"]
  /\ UNCHANGED <<call, client, action, permits, up, toClient, toServer>>

ClosedStopping(s) ==
  [s EXCEPT !.step = "revoking",
            !.stopping = IF @ \in {"asking", "asked"} THEN "done" ELSE @]

\* session.close up to the revocation of the caller.
CloseSession ==
  /\ server.step = "closing"
  /\ server' = ClosedStopping(server)
  /\ UNCHANGED <<call, client, action, permits, up, toClient, toServer>>

Revoked(s) ==
  [s EXCEPT !.step = "ended", !.active = FALSE, !.revoked = TRUE, !.pending = {}]

\* caller.revoke; OpenSession releases the leases and returns, and the stream
\* ends for the client.
Revoke ==
  /\ server.step = "revoking"
  /\ server' = Revoked(server)
  /\ up' = FALSE
  /\ toServer' = <<>>
  /\ UNCHANGED <<call, client, action, permits, toClient>>

\* requestStopping records its id, then sends; a later caller shares the wait.
RequestStopping ==
  /\ server.step \in {"registered", "activated", "open", "closing"}
  /\ server.stopping = "none"
  /\ server' = [server EXCEPT !.stopping = "asking"]
  /\ UNCHANGED <<call, client, action, permits, up, toClient, toServer>>

SendStopping ==
  /\ server.stopping = "asking"
  /\ \/ /\ Sendable
        /\ SendClient("shutdown", "session")
        /\ server' = [server EXCEPT !.stopping = "asked"]
     \/ /\ ~Sendable
        /\ server' = [server EXCEPT !.stopping = "done"]
        /\ UNCHANGED toClient
  /\ UNCHANGED <<call, client, action, permits, up, toServer>>

----------------------------------------
\* hostActionCaller.Call.

CallBegins(c) ==
  /\ call[c].step = "idle"
  /\ server.step # "none"
  /\ IF server.active /\ ~server.revoked
     THEN /\ server' = [server EXCEPT !.pending = @ \cup {c}]
          /\ SetCall(c, "sending", "none")
     ELSE /\ SetCall(c, "done", "closed")
          /\ UNCHANGED server
  /\ UNCHANGED <<client, action, permits, up, toClient, toServer>>

SendRequest(c) ==
  /\ call[c].step = "sending"
  /\ \/ /\ Sendable
        /\ SendClient("request", c)
        /\ SetCall(c, "waiting", "none")
        /\ UNCHANGED server
     \/ /\ ~Sendable
        /\ server' = [server EXCEPT !.pending = @ \ {c}]
        /\ SetCall(c, "done", "closed")
        /\ UNCHANGED toClient
  /\ UNCHANGED <<client, action, permits, up, toServer>>

CallReturns(c) ==
  /\ call[c].step = "waiting"
  /\ call[c].outcome # "none"
  /\ SetCall(c, "done", call[c].outcome)
  /\ UNCHANGED <<server, client, action, permits, up, toClient, toServer>>

CallRevoked(c) ==
  /\ call[c].step = "waiting"
  /\ server.revoked
  /\ SetCall(c, "done", "closed")
  /\ UNCHANGED <<server, client, action, permits, up, toClient, toServer>>

TellsClient(c) == c \in server.pending

\* The context of the call is done: the call is removed and, if nobody had
\* answered it, the client is told.
CallExpires(c) ==
  /\ call[c].step = "waiting"
  /\ server' = [server EXCEPT !.pending = @ \ {c}]
  /\ SetCall(c, IF TellsClient(c) THEN "cancelling" ELSE "done", "cancelled")
  /\ UNCHANGED <<client, action, permits, up, toClient, toServer>>

SendCancel(c) ==
  /\ call[c].step = "cancelling"
  /\ SetCall(c, "done", "cancelled")
  /\ IF Sendable THEN SendClient("cancel", c) ELSE UNCHANGED toClient
  /\ UNCHANGED <<server, client, action, permits, up, toServer>>

CallStep(c) == SendRequest(c) \/ CallReturns(c) \/ CallRevoked(c) \/ SendCancel(c)

----------------------------------------
\* The client's end.

Receives(kind) ==
  /\ client.reader = "reading"
  /\ toClient # <<>> /\ Head(toClient).kind = kind
  /\ toClient' = Tail(toClient)

\* OpenAgent: the first message must answer the open.
ReceiveOpened ==
  /\ client.reader = "opening"
  /\ toClient # <<>>
  /\ IF Head(toClient).kind = "opened"
     THEN /\ client' = [client EXCEPT !.reader = "reading"]
          /\ toClient' = Tail(toClient)
          /\ UNCHANGED up
     ELSE /\ client' = [client EXCEPT !.reader = "failed"]
          /\ toClient' = <<>>
          /\ up' = FALSE
  /\ UNCHANGED <<server, call, action, permits, toServer>>

\* The stream breaks, or the caller of OpenAgent gives up, before the answer.
OpenFails ==
  /\ client.reader = "opening"
  /\ client' = [client EXCEPT !.reader = "gone"]
  /\ up' = FALSE
  /\ toClient' = <<>>
  /\ UNCHANGED <<server, call, action, permits, toServer>>

\* dispatchHostAction.
Dispatch ==
  /\ Receives("request")
  /\ LET c == Head(toClient).id IN
     IF permits < MaxActions
     THEN /\ permits' = permits + 1
          /\ action' = [action EXCEPT ![c] = [step |-> "running", cancelled |-> FALSE]]
          /\ UNCHANGED toServer
     ELSE /\ SendServer("refusal", c)
          /\ UNCHANGED <<permits, action>>
  /\ UNCHANGED <<server, call, client, up>>

\* cancelHostAction.
Cancel ==
  /\ Receives("cancel")
  /\ action' = [action EXCEPT ![Head(toClient).id].cancelled =
                  @ \/ action[Head(toClient).id].step # "none"]
  /\ UNCHANGED <<server, call, client, permits, up, toServer>>

\* receiveServiceStopping: a second request ends the session.
ReceiveStopping ==
  /\ Receives("shutdown")
  /\ client' = [client EXCEPT !.notice = TRUE]
  /\ up' = (up /\ ~client.notice)
  /\ UNCHANGED <<server, call, action, permits, toServer>>

\* AcknowledgeStopping.
AcknowledgeStopping ==
  /\ client.notice /\ ~client.acked
  /\ client' = [client EXCEPT !.acked = TRUE]
  /\ SendServer("stopped", "session")
  /\ UNCHANGED <<server, call, action, permits, up, toClient>>

\* The handler returns; it answers unless it was cancelled.
HandlerEnds(c) ==
  /\ action[c].step = "running"
  /\ action' = [action EXCEPT ![c].step = IF action[c].cancelled
                                          THEN "releasing" ELSE "writing"]
  /\ UNCHANGED <<server, call, client, permits, up, toClient, toServer>>

\* A write that fails aborts a stream that is down already.
WriteResponse(c) ==
  /\ action[c].step = "writing"
  /\ SendServer("response", c)
  /\ action' = [action EXCEPT ![c].step = "releasing"]
  /\ UNCHANGED <<server, call, client, permits, up, toClient>>

\* The deferred ends of runHostAction: the permit, s.active, hostActionHandlers.
ActionEnds(c) ==
  /\ action[c].step = "releasing"
  /\ permits' = permits - 1
  /\ action' = [action EXCEPT ![c] = [step |-> "none", cancelled |-> FALSE]]
  /\ UNCHANGED <<server, call, client, up, toClient, toServer>>

ActionStep(c) == WriteResponse(c) \/ ActionEnds(c)

\* Recv fails.
ReaderFails ==
  /\ client.reader = "reading"
  /\ ~up
  /\ client' = [client EXCEPT !.reader = "marking"]
  /\ toClient' = <<>>
  /\ UNCHANGED <<server, call, action, permits, up, toServer>>

Marked(a) == [a EXCEPT !.cancelled = a.step # "none"]

\* markClosed cancels every action; then the reader is done.
MarkClosed ==
  /\ client.reader = "marking"
  /\ client' = [client EXCEPT !.reader = "done"]
  /\ action' = [c \in Calls |-> Marked(action[c])]
  /\ UNCHANGED <<server, call, permits, up, toClient, toServer>>

\* CloseContext cancels the session, closes the connection and joins; one that
\* gives up at its deadline leaves everything as it is.
CloseBegins ==
  /\ client.close = "no"
  /\ client.reader \in {"reading", "marking", "done"}
  /\ client' = [client EXCEPT !.close = "reader"]
  /\ up' = FALSE
  /\ UNCHANGED <<server, call, action, permits, toClient, toServer>>

\* Mutant: the handlers are joined while the reader may start one.
ReaderGoneAlready == TRUE

ReaderGone == client.reader = "done"

CloseJoinsReader ==
  /\ client.close = "reader" /\ ReaderGone
  /\ client' = [client EXCEPT !.close = "handlers"]
  /\ UNCHANGED <<server, call, action, permits, up, toClient, toServer>>

CloseJoinsHandlers ==
  /\ client.close = "handlers"
  /\ \A c \in Calls : action[c].step = "none"
  /\ client' = [client EXCEPT !.close = "closed"]
  /\ UNCHANGED <<server, call, action, permits, up, toClient, toServer>>

\* The connection breaks, or the stopping agent cuts it.
StreamBreaks ==
  /\ up
  /\ up' = FALSE
  /\ UNCHANGED <<server, call, client, action, permits, toClient, toServer>>

----------------------------------------

ServerStep ==
  \/ Activate \/ SendOpened \/ ServerReceives \/ ServerEnds
  \/ CloseSession \/ Revoke

ReaderStep ==
  \/ ReceiveOpened \/ Dispatch \/ Cancel \/ ReceiveStopping
  \/ ReaderFails \/ MarkClosed

CallsNext ==
  \/ RegisterSession \/ ServerStep \/ RequestStopping \/ SendStopping
  \/ \E c \in Calls :
       \/ CallBegins(c) \/ CallExpires(c) \/ CallStep(c)
       \/ HandlerEnds(c) \/ ActionStep(c)
  \/ ReaderStep \/ OpenFails \/ AcknowledgeStopping
  \/ CloseBegins \/ CloseJoinsReader \/ CloseJoinsHandlers
  \/ StreamBreaks

CallsSpec == CallsInit /\ [][CallsNext]_callVars

\* Goroutines run, and a handler returns once it is cancelled; an uncancelled
\* handler, the deadline of a call and an acknowledgement may never come.
CallsFairness ==
  /\ WF_callVars(ServerStep) /\ WF_callVars(ReaderStep)
  /\ WF_callVars(SendStopping)
  /\ \A c \in Calls :
       /\ WF_callVars(CallStep(c)) /\ WF_callVars(ActionStep(c))
       /\ WF_callVars(HandlerEnds(c) /\ action[c].cancelled)
  /\ WF_callVars(CloseJoinsReader) /\ WF_callVars(CloseJoinsHandlers)

CallsLiveSpec == CallsSpec /\ CallsFairness

----------------------------------------

CallsTypeOK ==
  /\ server \in Server
  /\ call \in [Calls -> Call]
  /\ client \in Client
  /\ action \in [Calls -> Action]
  /\ permits \in 0..MaxActions
  /\ up \in BOOLEAN
  /\ toClient \in Seq(Msg) /\ toServer \in Seq(Msg)

\* A close that returns in time leaves no action running.
CloseLeavesNoAction ==
  client.close = "closed" => \A c \in Calls : action[c].step = "none"

\* An action that nobody waits for any more ends, although a handler only
\* stops by itself when it is told to: cancellations follow their requests and
\* a session that ends cancels everything.
AbandonedActionsEnd ==
  \A c \in Calls :
    call[c].step = "done" /\ action[c].step # "none" ~> action[c].step = "none"

\* A call never outlives its session.
CallsEndWithTheSession ==
  \A c \in Calls :
    (~up /\ call[c].step # "idle") ~> call[c].step = "done"

\* Whoever waits for the client to stop is released when it acknowledges and
\* also when the session ends.
StoppingIsReleased ==
  (server.stopping # "none" /\ (client.acked \/ ~up)) ~> server.stopping = "done"
=============================================================================
