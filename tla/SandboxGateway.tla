--------------------------- MODULE SandboxGateway ---------------------------
(***************************************************************************)
(* A byte stream from a sandboxed tool to a resource of the agent: the     *)
(* connector process in the sandbox (sandboxgateway/client.go), the        *)
(* launch's gateway that relays it (sandboxgateway/service.go) and the     *)
(* agent stream under it (agent/client/byte_stream.go).                    *)
(*                                                                         *)
(* gRPC is external: a stream delivers in order, its client reads          *)
(* everything sent before the status even when it has cancelled since, a   *)
(* Send fails with io.EOF once the stream has ended, and a cancellation    *)
(* before the status arrives drops what is in flight.  Chunks are counted: *)
(* written by the tool (tool), sent by the connector (up), written to the  *)
(* agent stream (out); sent by the backend (back), relayed by the gateway  *)
(* (down), written to stdout (stdout).                                     *)
(***************************************************************************)
EXTENDS Naturals

CONSTANTS Connectors,
          MaxUp,      \* chunks a tool writes
          MaxDown     \* chunks a resource sends

ASSUME GatewayAssumption == MaxUp \in Nat /\ MaxDown \in Nat

VARIABLES peer,       \* Connectors -> the connector process
          handler,    \* Connectors -> ConnectResource in the gateway
          backend,    \* Connectors -> the agent stream and what is behind it
          bytes,      \* Connectors -> chunk counts along the path
          endpoint    \* the gateway's endpoint: serving or stopped

gatewayVars == <<peer, handler, backend, bytes, endpoint>>

NewPeer ==
  [step |-> "out", stdin |-> "open", input |-> "off", output |-> "off", ctx |-> "live",
   signalled |-> FALSE, chose |-> "none", result |-> "none"]
NoHandler == [step |-> "none", input |-> "off", output |-> "off", chose |-> "none", status |-> "none"]
NoStream == [remote |-> "none", half |-> FALSE, closed |-> FALSE]

GatewayInit ==
  /\ peer = [k \in Connectors |-> NewPeer]
  /\ handler = [k \in Connectors |-> NoHandler]
  /\ backend = [k \in Connectors |-> NoStream]
  /\ bytes = [k \in Connectors |->
       [tool |-> 0, up |-> 0, out |-> 0, back |-> 0, down |-> 0, stdout |-> 0]]
  /\ endpoint = "serving"

Count(k, f) == bytes' = [bytes EXCEPT ![k][f] = @ + 1]
Ended(x) == x \in {"done", "eof", "closed", "failed"}

\* The sandbox stream as each side sees it.  Its client's context, the end of
\* its handler and the end of the endpoint all break it.
Cancelled(k) == peer[k].ctx # "live" \/ endpoint = "stopped"
Answered(k) == handler[k].status # "none"

\* The context after a cancel: a stream the endpoint has broken before has its
\* status already, and the cancellation does not replace it.
Cancel(k) ==
  IF peer[k].ctx # "live" THEN peer[k].ctx
  ELSE IF endpoint = "stopped" THEN "broken" ELSE "cancelled"

----------------------------------------
(* The connector: Connect and its two goroutines.                          *)

\* Hello, ConnectResource and the open message; then it waits for ready.
ConnectResource(k) ==
  /\ peer[k].step = "out" /\ endpoint = "serving"
  /\ peer' = [peer EXCEPT ![k].step = "opening"]
  /\ handler' = [handler EXCEPT ![k].step = "accepted"]
  /\ UNCHANGED <<backend, bytes, endpoint>>

Returns(k, result) ==
  peer' = [peer EXCEPT ![k].step = "returned", ![k].result = result, ![k].ctx = Cancel(k)]

\* The first answer: ready, or the status the stream ended with.
Opened(k) ==
  /\ peer[k].step = "opening"
  /\ \/ /\ ~Cancelled(k) /\ handler[k].step \in {"relaying", "returned"} /\ backend[k].remote # "none"
        /\ peer' = [peer EXCEPT ![k].step = "copying", ![k].input = "copying", ![k].output = "copying"]
     \/ /\ Cancelled(k) \/ (handler[k].step = "returned" /\ backend[k].remote = "none")
        /\ Returns(k, "error")
  /\ UNCHANGED <<handler, backend, bytes, endpoint>>

ToolWrites(k) ==
  /\ peer[k].stdin = "open" /\ bytes[k].tool < MaxUp /\ peer[k].step # "returned"
  /\ Count(k, "tool")
  /\ UNCHANGED <<peer, handler, backend, endpoint>>

ToolCloses(k) ==
  /\ peer[k].stdin = "open" /\ peer[k].step # "returned"
  /\ peer' = [peer EXCEPT ![k].stdin = "eof"]
  /\ UNCHANGED <<handler, backend, bytes, endpoint>>

\* A signal cancels the context of Connect.
Signalled(k) ==
  /\ peer[k].step \in {"opening", "copying"} /\ ~peer[k].signalled
  /\ peer' = [peer EXCEPT ![k].ctx = Cancel(k), ![k].signalled = TRUE]
  /\ UNCHANGED <<handler, backend, bytes, endpoint>>

\* sendClientInput.  Its Read of stdin is not interrupted by a Close of stdin,
\* which is a blocking descriptor: it waits for the tool.
SendClientInput(k) ==
  /\ peer[k].input = "copying"
  /\ \/ /\ bytes[k].up < bytes[k].tool
        /\ IF Cancelled(k) \/ Answered(k)
             THEN peer' = [peer EXCEPT ![k].input = "eof"] /\ UNCHANGED bytes
             ELSE Count(k, "up") /\ UNCHANGED peer
     \/ /\ bytes[k].up = bytes[k].tool /\ peer[k].stdin = "eof"
        /\ peer' = [peer EXCEPT ![k].input = "done"]
        /\ UNCHANGED bytes
  /\ UNCHANGED <<handler, backend, endpoint>>

\* receiveClientOutput: data, then the status, unless the stream is cancelled
\* before.
ReceiveClientOutput(k) ==
  /\ peer[k].output = "copying"
  /\ \/ /\ bytes[k].stdout < bytes[k].down
        /\ Count(k, "stdout") /\ UNCHANGED peer
     \/ /\ bytes[k].stdout = bytes[k].down /\ Answered(k)
        /\ peer' = [peer EXCEPT ![k].output = IF handler[k].status = "ok" THEN "done" ELSE "failed"]
        /\ UNCHANGED bytes
     \/ /\ Cancelled(k) /\ ~Answered(k)
        /\ peer' = [peer EXCEPT ![k].output = IF peer[k].ctx = "cancelled" THEN "closed" ELSE "failed"]
        /\ UNCHANGED bytes
  /\ UNCHANGED <<handler, backend, endpoint>>

\* The select of copyClientStreams.  All but the end of the input cancel the
\* stream; so does an input that failed.
SelectClient(k) ==
  /\ peer[k].step = "copying" /\ peer[k].chose = "none"
  /\ \E case \in {"input", "output", "ctx"} :
       /\ case = "input" => Ended(peer[k].input)
       /\ case = "output" => Ended(peer[k].output)
       /\ case = "ctx" => peer[k].signalled
       /\ peer' = [peer EXCEPT ![k].chose = case,
            ![k].ctx = IF case = "input" /\ peer[k].input = "done" THEN @ ELSE Cancel(k)]
  /\ UNCHANGED <<handler, backend, bytes, endpoint>>

\* Every branch waits for the goroutine that is left.  io.EOF from a Send and
\* the effects of the own cancellation are no errors.
ClientReturns(k) ==
  /\ peer[k].chose # "none" /\ Ended(peer[k].input) /\ Ended(peer[k].output)
  /\ Returns(k, IF peer[k].signalled \/ peer[k].output = "failed" THEN "error" ELSE "ok")
  /\ UNCHANGED <<handler, backend, bytes, endpoint>>

----------------------------------------
(* The gateway: ConnectResource and relayResource.                         *)

Finish(k, status) ==
  handler' = [handler EXCEPT ![k].step = "returned", ![k].status = status]

\* There is a permit and an opener of this resource, or the stream is refused.
Admit(k) ==
  /\ handler[k].step = "accepted"
  /\ \/ handler' = [handler EXCEPT ![k].step = "opening"]
     \/ Finish(k, "error")
  /\ UNCHANGED <<peer, backend, bytes, endpoint>>

\* Registry.Open and OpenResourceStream answer; the ready message goes out.
OpenResource(k) ==
  /\ handler[k].step = "opening"
  /\ \/ /\ ~Cancelled(k)
        /\ handler' = [handler EXCEPT ![k].step = "relaying", ![k].input = "copying",
                                      ![k].output = "copying"]
        /\ backend' = [backend EXCEPT ![k].remote = "open"]
     \/ Finish(k, "error") /\ UNCHANGED backend
  /\ UNCHANGED <<peer, bytes, endpoint>>

\* The context of the stream ends and context.AfterFunc closes the resource.
ContextEnds(k) ==
  /\ handler[k].step = "relaying" /\ Cancelled(k) /\ ~backend[k].closed
  /\ backend' = [backend EXCEPT ![k].closed = TRUE]
  /\ UNCHANGED <<peer, handler, bytes, endpoint>>

\* receiveResourceInput: a Write fails with net.ErrClosed once the resource is
\* closed here and with io.EOF once the agent has ended the stream.
ReceiveResourceInput(k) ==
  /\ handler[k].input = "copying"
  /\ \/ /\ bytes[k].out < bytes[k].up
        /\ IF backend[k].closed \/ backend[k].remote # "open"
             THEN /\ handler' = [handler EXCEPT ![k].input = IF backend[k].closed THEN "closed" ELSE "eof"]
                  /\ UNCHANGED bytes
             ELSE Count(k, "out") /\ UNCHANGED handler
        /\ UNCHANGED backend
     \/ /\ bytes[k].out = bytes[k].up /\ peer[k].input = "done" /\ ~Cancelled(k)
        /\ handler' = [handler EXCEPT ![k].input = "done"]
        /\ backend' = [backend EXCEPT ![k].half = TRUE]
        /\ UNCHANGED bytes
     \/ /\ Cancelled(k) \/ handler[k].step = "returned"
        /\ handler' = [handler EXCEPT ![k].input = "failed"]
        /\ UNCHANGED <<backend, bytes>>
  /\ UNCHANGED <<peer, endpoint>>

\* sendResourceOutput: what the agent sent, then the end of its stream.  A
\* closed resource reads as net.ErrClosed, or as cancelled when the Read was
\* already waiting, whatever had still arrived.
SendResourceOutput(k) ==
  /\ handler[k].output = "copying"
  /\ IF backend[k].closed
       THEN /\ \E e \in {"closed", "failed"} : handler' = [handler EXCEPT ![k].output = e]
            /\ UNCHANGED bytes
       ELSE \/ /\ bytes[k].down < bytes[k].back
               /\ IF Cancelled(k)
                    THEN handler' = [handler EXCEPT ![k].output = "failed"] /\ UNCHANGED bytes
                    ELSE Count(k, "down") /\ UNCHANGED handler
            \/ /\ bytes[k].down = bytes[k].back /\ backend[k].remote \in {"ended", "failed"}
               /\ handler' = [handler EXCEPT ![k].output =
                                IF backend[k].remote = "ended" THEN "done" ELSE "failed"]
               /\ UNCHANGED bytes
  /\ UNCHANGED <<peer, backend, endpoint>>

\* Mutant: the end of the input closes the resource.
SelectFirst(k) ==
  /\ handler[k].step = "relaying" /\ handler[k].chose = "none"
  /\ \E case \in {"input", "output"} :
       /\ Ended(handler[k][case])
       /\ handler' = [handler EXCEPT ![k].chose = case]
       /\ backend' = [backend EXCEPT ![k].closed = TRUE]
  /\ UNCHANGED <<peer, bytes, endpoint>>

\* The select of relayResource: only an input that ended well leaves the
\* resource open for the rest of the output.
SelectResource(k) ==
  /\ handler[k].step = "relaying" /\ handler[k].chose = "none"
  /\ \E case \in {"input", "output", "ctx"} :
       /\ case # "ctx" => Ended(handler[k][case])
       /\ case = "ctx" => Cancelled(k)
       /\ handler' = [handler EXCEPT ![k].chose = case]
       /\ backend' = [backend EXCEPT ![k].closed =
                        IF case = "input" /\ handler[k].input = "done" THEN @ ELSE TRUE]
  /\ UNCHANGED <<peer, bytes, endpoint>>

\* resourceStreamResult: the end of the context, then errors that are not just
\* the end or the closing of a stream.
StreamResult(k) ==
  IF Cancelled(k) THEN "error"
  ELSE IF "failed" \in {handler[k].output} \cup
                       (IF handler[k].chose = "input" THEN {handler[k].input} ELSE {})
  THEN "error" ELSE "ok"

\* The branch of the output does not wait for the input, the others wait for
\* all that is left.
HandlerReturns(k) ==
  /\ handler[k].step = "relaying" /\ handler[k].chose # "none" /\ Ended(handler[k].output)
  /\ handler[k].chose # "output" => Ended(handler[k].input)
  /\ Finish(k, StreamResult(k))
  /\ backend' = [backend EXCEPT ![k].closed = TRUE]
  /\ UNCHANGED <<peer, bytes, endpoint>>

----------------------------------------
(* The agent's end of the stream, and the end of the launch.               *)

BackendSends(k) ==
  /\ backend[k].remote = "open" /\ ~backend[k].closed /\ bytes[k].back < MaxDown
  /\ Count(k, "back")
  /\ UNCHANGED <<peer, handler, backend, endpoint>>

\* The resource ends its stream, or the agent, the session or the lease do.
BackendEnds(k) ==
  /\ backend[k].remote = "open"
  /\ \E how \in {"ended", "failed"} : backend' = [backend EXCEPT ![k].remote = how]
  /\ UNCHANGED <<peer, handler, bytes, endpoint>>

\* Endpoint.Close stops the gRPC server, which ends the context of every stream.
EndpointStops ==
  /\ endpoint = "serving"
  /\ endpoint' = "stopped"
  /\ UNCHANGED <<peer, handler, backend, bytes>>

----------------------------------------
PeerStep(k) == Opened(k) \/ SelectClient(k) \/ ClientReturns(k)
InputStep(k) == SendClientInput(k)
OutputStep(k) == ReceiveClientOutput(k)
HandlerStep(k) == Admit(k) \/ OpenResource(k) \/ SelectResource(k) \/ HandlerReturns(k)
EnvironmentStep(k) == ConnectResource(k) \/ ToolWrites(k) \/ ToolCloses(k) \/ Signalled(k)
                      \/ BackendSends(k) \/ BackendEnds(k)

GatewayNext ==
  \/ EndpointStops
  \/ \E k \in Connectors :
       \/ PeerStep(k) \/ InputStep(k) \/ OutputStep(k) \/ HandlerStep(k) \/ ContextEnds(k)
       \/ ReceiveResourceInput(k) \/ SendResourceOutput(k) \/ EnvironmentStep(k)

GatewaySpec == GatewayInit /\ [][GatewayNext]_gatewayVars

----------------------------------------
(* Properties.                                                             *)

Delivered(k) == bytes[k].stdout = bytes[k].back /\ backend[k].remote = "ended"

\* A connector that reports success has written everything the resource sent,
\* when the tool had closed its input and the resource had taken all of it:
\* the end of the input never cuts the answer off.
AnswersAreComplete ==
  \A k \in Connectors :
    peer[k].result = "ok" /\ handler[k].input = "done" => Delivered(k)
=============================================================================
